-------------------------- MODULE CompanionProofs ---------------------------
(***************************************************************************)
(* Safety of the parts of the companion's main process, for any number of  *)
(* requests, lookups, workers, helpers, callers and kills.                 *)
(***************************************************************************)
EXTENDS CompanionParts, Integers, Sequences, TLAPS

(***************************************************************************)
(* The lookup of devices.                                                  *)
(***************************************************************************)
WorkerRecords == [state : {"up", "ended", "gone"}, killed : BOOLEAN, heard : BOOLEAN,
                  inbox : Seq(Nat), outbox : Seq(Nat)]
LookupRecords == [by : Nat, pending : BOOLEAN, answer : Nat]

DiscoveryTypes ==
    /\ workers \in Seq(WorkerRecords)
    /\ worker \in 0..Len(workers)
    /\ lookups \in Seq(LookupRecords)
    /\ early \in BOOLEAN

LookupsOwn == \A id \in 1..Len(lookups) :
    /\ lookups[id].answer \in {0, id}
    /\ lookups[id].pending => worker # 0

(* Whoever still reports its exit is the worker, or nothing is lost by it. *)
WorkersKnown == early \/ \A w \in 1..Len(workers) :
    /\ workers[w].state = "up" => w = worker \/ workers[w].killed
    /\ workers[w].heard /\ workers[w].state # "gone" => worker \in {0, w}

DiscoveryInv == DiscoveryTypes /\ LookupsOwn /\ WorkersKnown

(* rejectPending answers nothing.                                          *)
LEMMA Rejected ==
    ASSUME DiscoveryInv
    PROVE  /\ Discovery!RejectPending(lookups) \in Seq(LookupRecords)
           /\ Len(Discovery!RejectPending(lookups)) = Len(lookups)
           /\ \A id \in 1..Len(lookups) :
                  /\ Discovery!RejectPending(lookups)[id].answer \in {0, id}
                  /\ ~Discovery!RejectPending(lookups)[id].pending
<1> DEFINE new == Discovery!RejectPending(lookups)
<1>1. lookups \in Seq(LookupRecords) /\ DOMAIN lookups = 1..Len(lookups) /\ Len(lookups) \in Nat
  BY DEF DiscoveryInv, DiscoveryTypes
<1>2. new = [id \in 1..Len(lookups) |-> [lookups[id] EXCEPT !.pending = FALSE]]
  BY <1>1 DEF Discovery!RejectPending
<1>3. ASSUME NEW id \in 1..Len(lookups)
      PROVE  /\ [lookups[id] EXCEPT !.pending = FALSE] \in LookupRecords
             /\ [lookups[id] EXCEPT !.pending = FALSE].answer = lookups[id].answer
             /\ ~[lookups[id] EXCEPT !.pending = FALSE].pending
  <2>1. lookups[id] \in LookupRecords
    BY <1>1
  <2> QED
    BY <2>1 DEF LookupRecords
<1> HIDE DEF new
<1>4. new \in Seq(LookupRecords) /\ Len(new) = Len(lookups)
  BY <1>1, <1>2, <1>3
<1> QED
  BY <1>2, <1>3, <1>4 DEF DiscoveryInv, LookupsOwn, new

LEMMA WorkerFields ==
    ASSUME NEW r \in WorkerRecords
    PROVE  /\ r.state \in {"up", "ended", "gone"} /\ r.killed \in BOOLEAN
           /\ r.heard \in BOOLEAN /\ r.inbox \in Seq(Nat) /\ r.outbox \in Seq(Nat)
BY DEF WorkerRecords

(* One worker is replaced by another record of it.                         *)
LEMMA WorkerReplaced ==
    ASSUME DiscoveryInv, NEW w \in 1..Len(workers), NEW r \in WorkerRecords,
           workers' = [workers EXCEPT ![w] = r]
    PROVE  /\ workers' \in Seq(WorkerRecords) /\ Len(workers') = Len(workers)
           /\ workers'[w] = r
           /\ \A v \in 1..Len(workers) : v # w => workers'[v] = workers[v]
BY DEF DiscoveryInv, DiscoveryTypes

(* A worker is killed that may be no longer heard, and forgotten.          *)
LEMMA WorkerDropped ==
    ASSUME DiscoveryInv, NEW heard \in BOOLEAN, worker' = 0,
           lookups' = Discovery!RejectPending(lookups), early' = early,
           workers' = IF worker = 0 THEN workers
                      ELSE [workers EXCEPT ![worker] =
                               [@ EXCEPT !.heard = heard, !.killed = TRUE]]
    PROVE  DiscoveryInv'
<1>1. LookupsOwn' /\ lookups' \in Seq(LookupRecords)
  BY Rejected DEF LookupsOwn
<1>2. CASE worker = 0
  BY <1>1, <1>2 DEF DiscoveryInv, DiscoveryTypes, WorkersKnown
<1>3. CASE worker # 0
  <2> DEFINE r == [workers[worker] EXCEPT !.heard = heard, !.killed = TRUE]
  <2>1. worker \in 1..Len(workers) /\ workers[worker] \in WorkerRecords
    BY <1>3 DEF DiscoveryInv, DiscoveryTypes
  <2>2. r \in WorkerRecords /\ r.killed /\ r.state = workers[worker].state
    BY <2>1 DEF WorkerRecords
  <2>3. workers' = [workers EXCEPT ![worker] = r]
    BY <1>3, <2>1 DEF DiscoveryInv, DiscoveryTypes
  <2> HIDE DEF r
  <2>4. /\ workers' \in Seq(WorkerRecords) /\ Len(workers') = Len(workers)
        /\ workers'[worker] = r
        /\ \A v \in 1..Len(workers) : v # worker => workers'[v] = workers[v]
    BY <2>1, <2>2, <2>3, WorkerReplaced
  <2>5. DiscoveryTypes'
    BY <1>1, <2>4 DEF DiscoveryInv, DiscoveryTypes
  <2>6. WorkersKnown'
    BY <2>2, <2>4 DEF DiscoveryInv, WorkersKnown
  <2> QED
    BY <1>1, <2>5, <2>6 DEF DiscoveryInv
<1> QED
  BY <1>2, <1>3

LEMMA LookupFails ==
    ASSUME DiscoveryInv, Discovery!RestartWorker \/ Discovery!Stop
    PROVE  DiscoveryInv'
<1>1. worker # 0 => workers[worker] \in WorkerRecords /\ workers \in Seq(WorkerRecords)
                    /\ worker \in DOMAIN workers
  BY DEF DiscoveryInv, DiscoveryTypes
<1>2. CASE Discovery!RestartWorker
  <2>1. worker # 0 => [workers EXCEPT ![worker].heard = FALSE, ![worker].killed = TRUE]
                      = [workers EXCEPT ![worker] = [@ EXCEPT !.heard = FALSE, !.killed = TRUE]]
    BY <1>1 DEF WorkerRecords
  <2> QED
    BY <1>2, <2>1, WorkerDropped DEF Discovery!RestartWorker
<1>3. CASE Discovery!Stop
  <2> DEFINE heard == IF worker = 0 THEN FALSE ELSE workers[worker].heard
  <2>1. heard \in BOOLEAN
    BY <1>1 DEF WorkerRecords
  <2>2. worker # 0 => [workers EXCEPT ![worker].killed = TRUE]
                      = [workers EXCEPT ![worker] = [@ EXCEPT !.heard = heard, !.killed = TRUE]]
    BY <1>1 DEF WorkerRecords
  <2> HIDE DEF heard
  <2> QED
    BY <1>3, <2>1, <2>2, WorkerDropped DEF Discovery!Stop
<1> QED
  BY <1>2, <1>3

LEMMA LookupBegins ==
    ASSUME DiscoveryInv, Discovery!ListDevices
    PROVE  DiscoveryInv'
<1> DEFINE id == Len(lookups) + 1
           to == IF Discovery!Connected(worker) THEN worker ELSE Len(workers) + 1
           ensured == Discovery!EnsureWorker
           inbox == Append(ensured[to].inbox, id)
           r == [ensured[to] EXCEPT !.inbox = inbox]
           call == [by |-> to, pending |-> TRUE, answer |-> 0]
<1>1. /\ workers \in Seq(WorkerRecords) /\ Len(workers) \in Nat
      /\ lookups \in Seq(LookupRecords) /\ Len(lookups) \in Nat
      /\ worker \in 0..Len(workers) /\ early \in BOOLEAN
  BY DEF DiscoveryInv, DiscoveryTypes
<1>2. /\ worker' = to /\ workers' = [ensured EXCEPT ![to].inbox = Append(@, id)]
      /\ lookups' = Append(lookups, call)
      /\ early' = (early \/ (to # worker /\ \E w \in DOMAIN workers :
                                workers[w].state # "gone" /\ workers[w].heard))
  BY DEF Discovery!ListDevices, Discovery!Workers
<1>3. Discovery!Forked \in WorkerRecords /\ call \in LookupRecords
      /\ Discovery!Forked.state = "up" /\ Discovery!Forked.heard
  BY <1>1 DEF Discovery!Forked, WorkerRecords, LookupRecords
<1>4. /\ ensured \in Seq(WorkerRecords) /\ to \in 1..Len(ensured) /\ to # 0
      /\ to \in Nat /\ Len(ensured) >= Len(workers)
      /\ \A w \in 1..Len(ensured) : w # to => w \in 1..Len(workers) /\ ensured[w] = workers[w]
      /\ to # worker => to = Len(workers) + 1
  <2>1. CASE Discovery!Connected(worker)
    BY <1>1, <2>1 DEF Discovery!Connected, Discovery!EnsureWorker
  <2>2. CASE ~Discovery!Connected(worker)
    BY <1>1, <1>3, <2>2 DEF Discovery!EnsureWorker
  <2> QED
    BY <2>1, <2>2
<1>5. r \in WorkerRecords /\ r.state = ensured[to].state
      /\ r.killed = ensured[to].killed /\ r.heard = ensured[to].heard
  <2>1. ensured[to] \in WorkerRecords
    BY <1>4
  <2>2. inbox \in Seq(Nat)
    BY <1>1, <2>1, WorkerFields
  <2> HIDE DEF ensured, inbox
  <2> QED
    BY <2>1, <2>2 DEF WorkerRecords
<1>6. workers' = [ensured EXCEPT ![to] = r]
  BY <1>2, <1>4
<1>7. to = worker => ensured[to] = workers[worker] /\ worker \in 1..Len(workers)
  BY <1>1, <1>4 DEF Discovery!EnsureWorker
<1> HIDE DEF ensured, call, r, inbox
<1>8. /\ workers' \in Seq(WorkerRecords) /\ Len(workers') = Len(ensured)
      /\ workers'[to] = r /\ \A w \in 1..Len(ensured) : w # to => workers'[w] = ensured[w]
  BY <1>4, <1>5, <1>6
<1>9. DiscoveryTypes'
  BY <1>1, <1>2, <1>3, <1>4, <1>8 DEF DiscoveryTypes
<1>10. LookupsOwn'
  <2>1. /\ lookups' \in Seq(LookupRecords) /\ Len(lookups') = Len(lookups) + 1
        /\ lookups'[Len(lookups) + 1] = call /\ call.answer = 0
        /\ \A i \in 1..Len(lookups) : lookups'[i] = lookups[i]
    BY <1>1, <1>2, <1>3 DEF call
  <2> QED
    BY <1>1, <1>2, <1>4, <2>1 DEF DiscoveryInv, LookupsOwn
<1>11. WorkersKnown'
  <2>1. CASE to = worker
    <3>1. r.state = workers[worker].state /\ r.killed = workers[worker].killed
          /\ r.heard = workers[worker].heard
      BY <1>5, <1>7, <2>1
    <3> QED
      <4>1. early' = early
        BY <1>1, <1>2, <2>1, Zenon
      <4>2. worker' = worker /\ Len(ensured) = Len(workers)
        BY <1>1, <1>2, <1>4, <1>7, <2>1 DEF ensured, Discovery!EnsureWorker
      <4> QED
        BY <1>4, <1>7, <1>8, <2>1, <3>1, <4>1, <4>2 DEF DiscoveryInv, WorkersKnown
  <2>2. CASE to # worker /\ ~early'
    <3>1. ~early /\ \A w \in 1..Len(workers) : workers[w].state = "gone" \/ ~workers[w].heard
      <4>1. DOMAIN workers = 1..Len(workers)
        BY <1>1
      <4> QED
        BY <1>2, <2>2, <4>1
    <3>2. worker = 0 \/ workers[worker].state # "up"
      BY <2>2 DEF Discovery!Connected
    <3>3. \A w \in 1..Len(workers) : workers[w].state = "up" => workers[w].killed
      BY <3>1, <3>2 DEF DiscoveryInv, WorkersKnown
    <3> QED
      BY <1>2, <1>4, <1>8, <3>1, <3>3 DEF WorkersKnown
  <2> QED
    BY <2>1, <2>2 DEF WorkersKnown
<1> QED
  BY <1>9, <1>10, <1>11 DEF DiscoveryInv

(* What a worker does changes none of what the others are known by.        *)
LEMMA WorkerActs ==
    ASSUME DiscoveryInv, NEW w \in 1..Len(workers), NEW r \in WorkerRecords,
           workers' = [workers EXCEPT ![w] = r],
           r.state = "up" => workers[w].state = "up", workers[w].state = "gone" => r.state = "gone",
           r.killed = workers[w].killed, r.heard = workers[w].heard,
           worker' = worker, early' = early
    PROVE  workers' \in Seq(WorkerRecords) /\ Len(workers') = Len(workers) /\ WorkersKnown'
<1>1. /\ workers' \in Seq(WorkerRecords) /\ Len(workers') = Len(workers)
      /\ workers'[w] = r
      /\ \A v \in 1..Len(workers) : v # w => workers'[v] = workers[v]
  BY WorkerReplaced
<1> QED
  BY <1>1 DEF DiscoveryInv, WorkersKnown

LEMMA WorkerStep ==
    ASSUME DiscoveryInv, NEW w \in 1..Len(workers),
           Discovery!WorkerAnswers(w) \/ Discovery!WorkerEnds(w) \/ Discovery!Message(w)
    PROVE  DiscoveryInv'
<1>1. /\ workers[w] \in WorkerRecords /\ workers \in Seq(WorkerRecords)
      /\ lookups \in Seq(LookupRecords)
  BY DEF DiscoveryInv, DiscoveryTypes
<1>2. CASE Discovery!WorkerAnswers(w)
  <2> DEFINE inbox == Tail(workers[w].inbox)
             outbox == Append(workers[w].outbox, Head(workers[w].inbox))
             r == [workers[w] EXCEPT !.inbox = inbox, !.outbox = outbox]
  <2>3. inbox \in Seq(Nat) /\ outbox \in Seq(Nat)
    BY <1>1, <1>2, WorkerFields DEF Discovery!WorkerAnswers
  <2>2. workers' = [workers EXCEPT ![w] = r] /\ UNCHANGED <<worker, lookups, early>>
    BY <1>1, <1>2 DEF Discovery!WorkerAnswers
  <2> HIDE DEF inbox, outbox
  <2>1. r \in WorkerRecords /\ r.state = workers[w].state /\ r.killed = workers[w].killed
        /\ r.heard = workers[w].heard
    BY <1>1, <2>3 DEF WorkerRecords
  <2> HIDE DEF r
  <2> QED
    BY <2>1, <2>2, WorkerActs DEF DiscoveryInv, DiscoveryTypes, LookupsOwn
<1>3. CASE Discovery!WorkerEnds(w)
  <2> DEFINE r == [workers[w] EXCEPT !.state = "ended", !.inbox = <<>>]
  <2>1. r \in WorkerRecords /\ r.state = "ended" /\ r.killed = workers[w].killed
        /\ r.heard = workers[w].heard
    <3>1. <<>> \in Seq(Nat)
      OBVIOUS
    <3> QED
      BY <1>1, <3>1 DEF WorkerRecords
  <2>2. workers' = [workers EXCEPT ![w] = r] /\ UNCHANGED <<worker, lookups, early>>
        /\ workers[w].state = "up"
    BY <1>1, <1>3 DEF Discovery!WorkerEnds
  <2> HIDE DEF r
  <2> QED
    BY <2>1, <2>2, WorkerActs DEF DiscoveryInv, DiscoveryTypes, LookupsOwn
<1>4. CASE Discovery!Message(w)
  <2> DEFINE outbox == Tail(workers[w].outbox)
             r == [workers[w] EXCEPT !.outbox = outbox]
  <2>4. outbox \in Seq(Nat)
    BY <1>1, <1>4, WorkerFields DEF Discovery!Message
  <2>2. workers' = [workers EXCEPT ![w] = r] /\ UNCHANGED <<worker, early>>
    BY <1>1, <1>4 DEF Discovery!Message
  <2> HIDE DEF outbox
  <2>1. r \in WorkerRecords /\ r.state = workers[w].state /\ r.killed = workers[w].killed
        /\ r.heard = workers[w].heard
    BY <1>1, <2>4 DEF WorkerRecords
  <2> HIDE DEF r
  <2>3. lookups' \in Seq(LookupRecords) /\ LookupsOwn'
    <3>1. CASE UNCHANGED lookups
      BY <1>1, <2>2, <3>1 DEF DiscoveryInv, LookupsOwn
    <3>2. CASE \E p \in 1..Len(lookups) :
                   lookups' = [lookups EXCEPT ![p].pending = FALSE, ![p].answer = p]
      <4>1. PICK p \in 1..Len(lookups) :
                   lookups' = [lookups EXCEPT ![p].pending = FALSE, ![p].answer = p]
        BY <3>2
      <4> DEFINE answered == [lookups[p] EXCEPT !.pending = FALSE, !.answer = p]
      <4>2. lookups[p] \in LookupRecords /\ p \in Nat
        BY <1>1
      <4>3. answered \in LookupRecords /\ ~answered.pending /\ answered.answer = p
        BY <4>2 DEF LookupRecords
      <4>4. lookups' = [lookups EXCEPT ![p] = answered]
        BY <1>1, <4>1, <4>2 DEF LookupRecords
      <4> HIDE DEF answered
      <4>5. /\ lookups' \in Seq(LookupRecords) /\ Len(lookups') = Len(lookups)
            /\ lookups'[p] = answered
            /\ \A i \in 1..Len(lookups) : i # p => lookups'[i] = lookups[i]
        BY <1>1, <4>3, <4>4
      <4> QED
        BY <2>2, <4>3, <4>5 DEF DiscoveryInv, LookupsOwn
    <3> QED
      <4> DEFINE head == Head(workers[w].outbox)
      <4>1. \/ \E p \in Discovery!Waiting(head) :
                  lookups' = [lookups EXCEPT ![p].pending = FALSE, ![p].answer = head]
            \/ UNCHANGED lookups
        BY <1>4 DEF Discovery!Message
      <4> HIDE DEF head
      <4>2. \A p \in Discovery!Waiting(head) : p = head /\ p \in 1..Len(lookups)
        BY <1>1 DEF Discovery!Waiting, Discovery!LookupIds
      <4> QED
        BY <3>1, <3>2, <4>1, <4>2
  <2> QED
    BY <2>1, <2>2, <2>3, WorkerActs DEF DiscoveryInv, DiscoveryTypes
<1> QED
  BY <1>2, <1>3, <1>4

(* The exit handler drops the worker it does not belong to only if one was *)
(* forked too early.                                                       *)
LEMMA ExitKnown ==
    ASSUME DiscoveryInv, NEW w \in 1..Len(workers), Discovery!ExitReported(w)
    PROVE  DiscoveryInv'
<1> DEFINE r == [workers[w] EXCEPT !.state = "gone"]
<1>1. /\ workers[w] \in WorkerRecords /\ workers \in Seq(WorkerRecords)
      /\ worker \in 0..Len(workers) /\ early \in BOOLEAN /\ Len(workers) \in Nat
      /\ lookups \in Seq(LookupRecords)
  BY DEF DiscoveryInv, DiscoveryTypes
<1>2. r \in WorkerRecords /\ r.state = "gone"
  BY <1>1 DEF WorkerRecords
<1>3. /\ workers' = [workers EXCEPT ![w] = r] /\ workers[w].state = "ended"
      /\ worker' = IF workers[w].heard THEN 0 ELSE worker
      /\ lookups' = IF workers[w].heard THEN Discovery!RejectPending(lookups) ELSE lookups
      /\ early' = early
  BY <1>1 DEF Discovery!ExitReported
<1> HIDE DEF r
<1>4. /\ workers' \in Seq(WorkerRecords) /\ Len(workers') = Len(workers)
      /\ workers'[w] = r
      /\ \A v \in 1..Len(workers) : v # w => workers'[v] = workers[v]
  BY <1>2, <1>3, WorkerReplaced
<1>5. LookupsOwn' /\ lookups' \in Seq(LookupRecords)
  <2>1. CASE workers[w].heard
    BY <1>3, <2>1, Rejected DEF LookupsOwn
  <2>2. CASE ~workers[w].heard
    BY <1>1, <1>3, <2>2 DEF DiscoveryInv, LookupsOwn
  <2> QED
    BY <2>1, <2>2
<1>6. WorkersKnown'
  BY <1>1, <1>2, <1>3, <1>4 DEF DiscoveryInv, WorkersKnown
<1> QED
  BY <1>1, <1>3, <1>4, <1>5, <1>6 DEF DiscoveryInv, DiscoveryTypes

LEMMA DiscoveryNext == DiscoveryInv /\ [Discovery!Next]_(Discovery!vars) => DiscoveryInv'
<1> SUFFICES ASSUME DiscoveryInv, [Discovery!Next]_(Discovery!vars) PROVE DiscoveryInv'
  OBVIOUS
<1>1. DOMAIN workers = 1..Len(workers)
  BY DEF DiscoveryInv, DiscoveryTypes
<1>2. CASE Discovery!ListDevices
  BY <1>2, LookupBegins
<1>3. CASE \/ Discovery!Stop
           \/ \E id \in Discovery!LookupIds : Discovery!Timeout(id) \/ Discovery!SendFails(id)
  BY <1>3, LookupFails DEF Discovery!Timeout, Discovery!SendFails
<1>4. CASE \E w \in 1..Len(workers) :
               \/ Discovery!WorkerAnswers(w) \/ Discovery!Message(w)
               \/ Discovery!WorkerEnds(w) \/ Discovery!ExitReported(w)
  BY <1>4, WorkerStep, ExitKnown
<1>5. CASE UNCHANGED Discovery!vars
  BY <1>5 DEF DiscoveryInv, DiscoveryTypes, LookupsOwn, WorkersKnown, Discovery!vars
<1> QED
  BY <1>1, <1>2, <1>3, <1>4, <1>5 DEF Discovery!Next, Discovery!Workers

LEMMA DiscoveryInvariance == Discovery!Spec => []DiscoveryInv
<1>1. Discovery!Init => DiscoveryInv
  <2> SUFFICES ASSUME Discovery!Init PROVE DiscoveryInv
    OBVIOUS
  <2>1. workers = <<>> /\ worker = 0 /\ lookups = <<>> /\ early = FALSE
    BY DEF Discovery!Init
  <2>2. DiscoveryTypes
    <3>1. <<>> \in Seq(WorkerRecords) /\ <<>> \in Seq(LookupRecords) /\ Len(<<>>) = 0
      OBVIOUS
    <3>2. workers \in Seq(WorkerRecords) /\ lookups \in Seq(LookupRecords)
      BY <2>1, <3>1, Zenon
    <3>3. worker \in 0..Len(workers)
      BY <2>1, <3>1
    <3>4. early \in BOOLEAN
      BY <2>1
    <3> QED
      BY <3>2, <3>3, <3>4 DEF DiscoveryTypes
  <2> QED
    BY <2>1, <2>2 DEF DiscoveryInv, LookupsOwn, WorkersKnown
<1> QED
  BY <1>1, DiscoveryNext, PTL DEF Discovery!Spec

(* A lookup is answered by its own enumeration, none waits for a worker    *)
(* that was dropped, and no worker is left that nobody will kill.          *)
LEMMA LookupsCorrect == DiscoveryInv => Discovery!LookupsMatch
<1> SUFFICES ASSUME DiscoveryInv PROVE Discovery!LookupsMatch
  OBVIOUS
<1>1. DOMAIN workers = 1..Len(workers) /\ DOMAIN lookups = 1..Len(lookups)
  BY DEF DiscoveryInv, DiscoveryTypes
<1> QED
  BY <1>1 DEF DiscoveryInv, LookupsOwn, WorkersKnown, Discovery!LookupsMatch,
              Discovery!LookupIds, Discovery!Workers, Discovery!Connected

(***************************************************************************)
(* The transports.                                                         *)
(***************************************************************************)
Outcomes == [id : Int, ok : BOOLEAN]
SocketStates == {"none", "connecting", "sent", "cut", "ok", "rejected"}
CallRecords == [pending : BOOLEAN, outcome : Outcomes, settles : Nat]

TransportTypes ==
    /\ calls \in Seq(CallRecords)
    /\ lines \in Seq(Int)
    /\ replies \in Seq(Outcomes)
    /\ sockets \in Seq(SocketStates) /\ Len(sockets) = Len(calls)

(* A call that waits has no outcome yet, and any other has had one.        *)
Matches(cs, id, fulfilled) ==
    /\ cs[id].settles = IF cs[id].pending THEN 0 ELSE 1
    /\ cs[id].outcome.ok => cs[id].outcome.id = id /\ id \in fulfilled

CallsMatch == \A id \in 1..Len(calls) : Matches(calls, id, applied)

(* What is on its way back from the helper or the daemon was done.         *)
AnswersTrue ==
    /\ \A k \in 1..Len(replies) : replies[k].ok => replies[k].id \in applied
    /\ \A id \in 1..Len(sockets) : sockets[id] = "ok" => id \in applied

ClosedSettled ==
    platform = "win32" /\ closed => \A id \in 1..Len(calls) : ~calls[id].pending

TransportInv == TransportTypes /\ CallsMatch /\ AnswersTrue /\ ClosedSettled

LEMMA CallSettled ==
    ASSUME NEW c \in CallRecords, NEW outcome \in Outcomes
    PROVE  LET r == [c EXCEPT !.pending = FALSE, !.outcome = outcome, !.settles = @ + 1]
           IN  /\ r \in CallRecords /\ ~r.pending /\ r.outcome = outcome
               /\ r.settles = c.settles + 1
<1> DEFINE n == c.settles + 1
           r == [c EXCEPT !.pending = FALSE, !.outcome = outcome, !.settles = n]
<1>1. n \in Nat
  BY DEF CallRecords
<1> HIDE DEF n
<1>2. r \in CallRecords /\ ~r.pending /\ r.outcome = outcome /\ r.settles = n
  BY <1>1 DEF CallRecords
<1> QED
  BY <1>2 DEF n

(* What the steps that settle calls do to the list of calls.               *)
Settled(cs, id, outcome) ==
    /\ cs \in Seq(CallRecords) /\ Len(cs) = Len(calls)
    /\ ~cs[id].pending /\ cs[id].outcome = outcome
    /\ cs[id].settles = calls[id].settles + 1
    /\ \A i \in 1..Len(calls) : i # id => cs[i] = calls[i]

LEMMA SettleFacts ==
    ASSUME TransportInv, NEW id \in 1..Len(calls), NEW outcome \in Outcomes
    PROVE  Settled(Transport!Settle(id, outcome), id, outcome)
<1> DEFINE r == [calls[id] EXCEPT !.pending = FALSE, !.outcome = outcome, !.settles = @ + 1]
<1>1. calls \in Seq(CallRecords) /\ calls[id] \in CallRecords
  BY DEF TransportInv, TransportTypes
<1>2. /\ r \in CallRecords /\ ~r.pending /\ r.outcome = outcome
      /\ r.settles = calls[id].settles + 1
  BY <1>1, CallSettled
<1>3. Transport!Settle(id, outcome) = [calls EXCEPT ![id] = r]
  <2>1. id \in DOMAIN calls
    BY <1>1
  <2> QED
    BY <1>1, <2>1, Zenon DEF Transport!Settle
<1> HIDE DEF r
<1> QED
  BY <1>1, <1>2, <1>3 DEF Settled

(* A call that waits gets an outcome that is refused or its own.           *)
LEMMA SettleKeeps ==
    ASSUME TransportInv, NEW id \in 1..Len(calls), calls[id].pending,
           NEW outcome \in Outcomes, outcome.ok => outcome.id = id /\ id \in applied,
           calls' = Transport!Settle(id, outcome), UNCHANGED <<platform, closed, applied>>
    PROVE  CallsMatch' /\ ClosedSettled' /\ calls' \in Seq(CallRecords) /\ Len(calls') = Len(calls)
<1>1. Settled(calls', id, outcome)
  BY SettleFacts
<1>2. calls[id].settles = 0
  BY DEF TransportInv, CallsMatch, Matches
<1>3. Len(calls) \in Nat
  BY DEF TransportInv, TransportTypes
<1>4. Matches(calls', id, applied)
  BY <1>1, <1>2 DEF Settled, Matches
<1>5. \A i \in 1..Len(calls) : i # id => Matches(calls', i, applied)
  BY <1>1 DEF TransportInv, CallsMatch, Settled, Matches
<1> QED
  BY <1>1, <1>3, <1>4, <1>5 DEF TransportInv, ClosedSettled, CallsMatch, Settled, Matches

LEMMA FailAllFacts ==
    ASSUME TransportInv
    PROVE  LET all == Transport!FailAll(calls)
           IN  /\ all \in Seq(CallRecords) /\ Len(all) = Len(calls)
               /\ \A id \in 1..Len(calls) : Matches(all, id, applied) /\ ~all[id].pending
<1> DEFINE all == Transport!FailAll(calls)
           r(id) == IF calls[id].pending
                    THEN [calls[id] EXCEPT !.pending = FALSE, !.outcome = Transport!Refused,
                                           !.settles = @ + 1]
                    ELSE calls[id]
<1>1. /\ calls \in Seq(CallRecords) /\ DOMAIN calls = 1..Len(calls) /\ Len(calls) \in Nat
  BY DEF TransportInv, TransportTypes
<1>2. Transport!Refused \in Outcomes /\ ~Transport!Refused.ok
  BY DEF Transport!Refused, Outcomes
<1>3. ASSUME NEW id \in 1..Len(calls)
      PROVE  /\ r(id) \in CallRecords /\ ~r(id).pending /\ r(id).settles = 1
             /\ r(id).outcome.ok => r(id).outcome.id = id /\ id \in applied
  <2>1. calls[id] \in CallRecords /\ Matches(calls, id, applied)
    BY <1>1 DEF TransportInv, CallsMatch
  <2>2. CASE calls[id].pending
    <3> DEFINE refused == Transport!Refused
               s == [calls[id] EXCEPT !.pending = FALSE, !.outcome = refused, !.settles = @ + 1]
    <3>1. /\ s \in CallRecords /\ ~s.pending /\ s.outcome = refused
          /\ s.settles = calls[id].settles + 1
      BY <1>2, <2>1, CallSettled
    <3> HIDE DEF refused
    <3>2. r(id) = s
      BY <2>2 DEF refused
    <3> QED
      BY <1>2, <2>1, <2>2, <3>1, <3>2 DEF Matches, refused
  <2>3. CASE ~calls[id].pending
    BY <2>1, <2>3 DEF Matches
  <2> QED
    BY <2>2, <2>3
<1>4. all = [id \in 1..Len(calls) |-> r(id)]
  BY <1>1 DEF Transport!FailAll
<1> HIDE DEF all, r
<1>5. all \in Seq(CallRecords) /\ Len(all) = Len(calls)
  BY <1>1, <1>3, <1>4
<1> QED
  BY <1>3, <1>4, <1>5 DEF Matches, all

LEMMA FailAllKeeps ==
    ASSUME TransportInv, calls' = Transport!FailAll(calls), UNCHANGED applied
    PROVE  CallsMatch' /\ ClosedSettled' /\ calls' \in Seq(CallRecords) /\ Len(calls') = Len(calls)
BY FailAllFacts DEF CallsMatch, ClosedSettled, Matches

(* One call is settled, or all are, and nothing else of it.                *)
LEMMA TransportKept ==
    ASSUME TransportInv, calls' \in Seq(CallRecords), Len(calls') = Len(calls),
           CallsMatch', ClosedSettled', lines' \in Seq(Int),
           UNCHANGED <<replies, sockets, applied>>
    PROVE  TransportInv'
BY DEF TransportInv, TransportTypes, AnswersTrue

(* The list of calls is as it was.                                         *)
LEMMA CallsUntouched ==
    ASSUME TransportInv, UNCHANGED <<platform, closed, calls>>,
           \A id \in applied : id \in applied'
    PROVE  /\ CallsMatch' /\ ClosedSettled' /\ calls' \in Seq(CallRecords)
           /\ Len(calls') = Len(calls)
BY DEF TransportInv, TransportTypes, CallsMatch, ClosedSettled, Matches

LEMMA SocketReplaced ==
    ASSUME TransportInv, NEW id \in 1..Len(calls), NEW s \in SocketStates,
           sockets' = [sockets EXCEPT ![id] = s]
    PROVE  /\ sockets' \in Seq(SocketStates) /\ Len(sockets') = Len(sockets) /\ sockets'[id] = s
           /\ \A i \in 1..Len(sockets) : i # id => sockets'[i] = sockets[i]
BY DEF TransportInv, TransportTypes

LEMMA OpeningKept ==
    ASSUME TransportInv, Transport!Attempt \/ Transport!Opened \/ Transport!OpenFails
    PROVE  TransportInv'
<1>1. UNCHANGED <<platform, closed, calls, lines, replies, sockets, applied>>
  BY DEF Transport!Attempt, Transport!Opened, Transport!OpenFails
<1>2. lines' \in Seq(Int)
  BY <1>1 DEF TransportInv, TransportTypes
<1> QED
  BY <1>1, <1>2, CallsUntouched, TransportKept

LEMMA RequestKept ==
    ASSUME TransportInv, Transport!Request
    PROVE  TransportInv'
<1> DEFINE runs == ~closed /\ (platform = "win32" => helper # "none")
           outcome == IF runs THEN Transport!Nothing ELSE Transport!Refused
           settles == IF runs THEN 0 ELSE 1
           call == [pending |-> runs, outcome |-> outcome, settles |-> settles]
           id == Len(calls) + 1
           socket == IF runs /\ platform = "linux" THEN "connecting" ELSE "none"
<1>1. /\ calls \in Seq(CallRecords) /\ lines \in Seq(Int) /\ replies \in Seq(Outcomes)
      /\ sockets \in Seq(SocketStates) /\ Len(sockets) = Len(calls) /\ Len(calls) \in Nat
  BY DEF TransportInv, TransportTypes
<1>2. /\ calls' = Append(calls, call)
      /\ lines' = IF runs /\ helper = "up" THEN Append(lines, id) ELSE lines
      /\ sockets' = Append(sockets, socket)
      /\ UNCHANGED <<platform, closed, replies, applied>>
  BY DEF Transport!Request
<1>3. outcome \in Outcomes /\ ~outcome.ok
  BY DEF Transport!Nothing, Transport!Refused, Outcomes
<1>4. runs \in BOOLEAN /\ settles \in Nat /\ (platform = "win32" /\ closed => ~runs)
      /\ settles = (IF runs THEN 0 ELSE 1)
  OBVIOUS
<1>5. socket \in SocketStates /\ socket # "ok"
  BY DEF SocketStates
<1>6. lines' \in Seq(Int)
  BY <1>1, <1>2
<1> HIDE DEF runs, outcome, settles, socket
<1>7. call \in CallRecords /\ call.pending = runs /\ call.outcome = outcome
      /\ call.settles = settles
  BY <1>3, <1>4 DEF CallRecords
<1> HIDE DEF call
<1>8. /\ calls' \in Seq(CallRecords) /\ Len(calls') = Len(calls) + 1
      /\ calls'[Len(calls) + 1] = call /\ \A i \in 1..Len(calls) : calls'[i] = calls[i]
      /\ sockets' \in Seq(SocketStates) /\ Len(sockets') = Len(calls) + 1
      /\ sockets'[Len(calls) + 1] = socket
      /\ \A i \in 1..Len(sockets) : sockets'[i] = sockets[i]
  BY <1>1, <1>2, <1>5, <1>7
<1>9. TransportTypes'
  BY <1>1, <1>2, <1>6, <1>8 DEF TransportTypes
<1>10. CallsMatch'
  <2>1. Matches(calls', Len(calls) + 1, applied')
    BY <1>3, <1>4, <1>7, <1>8 DEF Matches
  <2>2. \A i \in 1..Len(calls) : Matches(calls', i, applied')
    BY <1>2, <1>8 DEF TransportInv, CallsMatch, Matches
  <2> QED
    BY <1>1, <1>8, <2>1, <2>2 DEF CallsMatch
<1>11. AnswersTrue'
  BY <1>1, <1>2, <1>5, <1>8 DEF TransportInv, AnswersTrue
<1>12. ClosedSettled'
  BY <1>1, <1>2, <1>4, <1>7, <1>8 DEF TransportInv, ClosedSettled
<1> QED
  BY <1>9, <1>10, <1>11, <1>12 DEF TransportInv

(* A call fails, with its connection to the daemon or without.             *)
LEMMA FailureKept ==
    ASSUME TransportInv, NEW id \in 1..Len(calls),
           Transport!Timeout(id) \/ Transport!WriteFails(id)
    PROVE  TransportInv'
<1>1. /\ lines \in Seq(Int) /\ sockets \in Seq(SocketStates) /\ Len(sockets) = Len(calls)
      /\ calls \in Seq(CallRecords)
  BY DEF TransportInv, TransportTypes
<1>2. Transport!Refused \in Outcomes /\ ~Transport!Refused.ok
  BY DEF Transport!Refused, Outcomes
<1>3. /\ calls[id].pending /\ calls' = Transport!Settle(id, Transport!Refused)
      /\ UNCHANGED <<platform, closed, lines, replies, applied>>
  BY DEF Transport!Timeout, Transport!WriteFails
<1>4. /\ CallsMatch' /\ ClosedSettled' /\ calls' \in Seq(CallRecords)
      /\ Len(calls') = Len(calls)
  BY <1>2, <1>3, SettleKeeps
<1>5. /\ sockets' \in Seq(SocketStates) /\ Len(sockets') = Len(sockets)
      /\ \A i \in 1..Len(sockets) : sockets'[i] = "ok" => sockets[i] = "ok"
  <2>1. CASE UNCHANGED sockets
    BY <1>1, <2>1
  <2>2. CASE sockets' = [sockets EXCEPT ![id] = IF @ = "sent" THEN "cut" ELSE "none"]
    <3> DEFINE s == IF sockets[id] = "sent" THEN "cut" ELSE "none"
    <3>1. s \in SocketStates /\ s # "ok"
      BY DEF SocketStates
    <3>2. sockets' = [sockets EXCEPT ![id] = s]
      BY <2>2
    <3> HIDE DEF s
    <3> QED
      BY <1>1, <3>1, <3>2, SocketReplaced
  <2> QED
    BY <2>1, <2>2 DEF Transport!Timeout, Transport!WriteFails
<1> QED
  BY <1>1, <1>3, <1>4, <1>5 DEF TransportInv, TransportTypes, AnswersTrue

LEMMA HelperAnswerKept ==
    ASSUME TransportInv, NEW ok \in BOOLEAN, Transport!HelperAnswers(ok)
    PROVE  TransportInv'
<1> DEFINE reply == [id |-> Head(lines), ok |-> ok]
<1>1. /\ lines \in Seq(Int) /\ lines # <<>> /\ replies \in Seq(Outcomes)
      /\ Len(replies) \in Nat
  BY DEF TransportInv, TransportTypes, Transport!HelperAnswers
<1>2. /\ lines' = Tail(lines) /\ replies' = Append(replies, reply)
      /\ applied' = IF ok THEN applied \cup {Head(lines)} ELSE applied
      /\ UNCHANGED <<platform, closed, calls, sockets>>
  BY DEF Transport!HelperAnswers
<1>3. lines' \in Seq(Int) /\ Head(lines) \in Int
  BY <1>1, <1>2
<1>4. reply \in Outcomes /\ reply.ok = ok /\ reply.id = Head(lines)
  BY <1>3 DEF Outcomes
<1>5. (\A id \in applied : id \in applied') /\ (ok => Head(lines) \in applied')
  BY <1>2
<1> HIDE DEF reply
<1>6. /\ replies' \in Seq(Outcomes) /\ Len(replies') = Len(replies) + 1
      /\ replies'[Len(replies) + 1] = reply
      /\ \A k \in 1..Len(replies) : replies'[k] = replies[k]
  BY <1>1, <1>2, <1>4
<1>7. AnswersTrue'
  <2>1. \A k \in 1..Len(replies') : replies'[k].ok => replies'[k].id \in applied'
    BY <1>1, <1>4, <1>5, <1>6 DEF TransportInv, AnswersTrue
  <2> QED
    BY <1>2, <1>5, <2>1 DEF TransportInv, AnswersTrue
<1>8. /\ CallsMatch' /\ ClosedSettled' /\ calls' \in Seq(CallRecords)
      /\ Len(calls') = Len(calls)
  BY <1>2, <1>5, CallsUntouched
<1> QED
  BY <1>2, <1>3, <1>6, <1>7, <1>8 DEF TransportInv, TransportTypes

LEMMA MumbleKept ==
    ASSUME TransportInv, Transport!HelperMumbles
    PROVE  TransportInv'
<1> DEFINE reply == [id |-> 0, ok |-> FALSE]
<1>1. replies \in Seq(Outcomes) /\ Len(replies) \in Nat /\ lines \in Seq(Int)
  BY DEF TransportInv, TransportTypes
<1>2. reply \in Outcomes /\ ~reply.ok
  BY DEF Outcomes
<1>3. replies' = Append(replies, reply)
      /\ UNCHANGED <<platform, closed, calls, lines, sockets, applied>>
  BY DEF Transport!HelperMumbles
<1> HIDE DEF reply
<1>4. /\ replies' \in Seq(Outcomes) /\ Len(replies') = Len(replies) + 1
      /\ replies'[Len(replies) + 1] = reply
      /\ \A k \in 1..Len(replies) : replies'[k] = replies[k]
  BY <1>1, <1>2, <1>3
<1>5. AnswersTrue'
  BY <1>1, <1>2, <1>3, <1>4 DEF TransportInv, AnswersTrue
<1>6. /\ CallsMatch' /\ ClosedSettled' /\ calls' \in Seq(CallRecords)
      /\ Len(calls') = Len(calls)
  BY <1>3, CallsUntouched
<1> QED
  BY <1>1, <1>3, <1>4, <1>5, <1>6 DEF TransportInv, TransportTypes

LEMMA ResponseKept ==
    ASSUME TransportInv, Transport!HandleResponse
    PROVE  TransportInv'
<1> DEFINE reply == Head(replies)
           id == Transport!Addressee(reply.id)
<1>1. /\ replies \in Seq(Outcomes) /\ replies # <<>> /\ Len(replies) \in Nat
      /\ calls \in Seq(CallRecords) /\ DOMAIN calls = 1..Len(calls)
  BY DEF TransportInv, TransportTypes, Transport!HandleResponse
<1>2. /\ replies' = Tail(replies)
      /\ calls' = IF reply.id # 0 /\ id # 0 THEN Transport!Settle(id, reply) ELSE calls
      /\ UNCHANGED <<platform, closed, lines, sockets, applied>>
  BY DEF Transport!HandleResponse
<1>3. reply \in Outcomes /\ (reply.ok => reply.id \in applied)
  BY <1>1 DEF TransportInv, AnswersTrue
<1>4. id # 0 => id = reply.id /\ id \in 1..Len(calls) /\ calls[id].pending
  BY <1>1 DEF Transport!Addressee, Transport!CallIds
<1>5. /\ replies' \in Seq(Outcomes) /\ Len(replies') = Len(replies) - 1
      /\ \A k \in 1..Len(replies') : replies'[k] = replies[k + 1] /\ k + 1 \in 1..Len(replies)
  BY <1>1, <1>2
<1> HIDE DEF reply, id
<1>6. AnswersTrue'
  BY <1>2, <1>5 DEF TransportInv, AnswersTrue
<1>7. /\ CallsMatch' /\ ClosedSettled' /\ calls' \in Seq(CallRecords)
      /\ Len(calls') = Len(calls)
  <2>1. CASE reply.id # 0 /\ id # 0
    BY <1>2, <1>3, <1>4, <2>1, SettleKeeps
  <2>2. CASE ~(reply.id # 0 /\ id # 0)
    BY <1>2, <2>2, CallsUntouched
  <2> QED
    BY <2>1, <2>2
<1> QED
  BY <1>2, <1>5, <1>6, <1>7 DEF TransportInv, TransportTypes

(* The helper ends, or its process reports an error, or the user closes.   *)
LEMMA EndKept ==
    ASSUME TransportInv,
           \/ Transport!HelperDies \/ Transport!HelperError \/ Transport!Exit \/ Transport!Close
    PROVE  TransportInv'
<1>1. lines \in Seq(Int)
  BY DEF TransportInv, TransportTypes
<1>2. CASE Transport!HelperDies
  <2>1. lines' = <<>> /\ UNCHANGED <<platform, closed, calls, replies, sockets, applied>>
    BY <1>2 DEF Transport!HelperDies
  <2>2. lines' \in Seq(Int)
    BY <2>1
  <2> QED
    BY <2>1, <2>2, CallsUntouched, TransportKept
<1>3. CASE Transport!HelperError \/ Transport!Exit
  <2>1. /\ calls' = Transport!FailAll(calls)
        /\ UNCHANGED <<lines, replies, sockets, applied>>
    BY <1>3 DEF Transport!HelperError, Transport!Exit
  <2> QED
    BY <1>1, <2>1, FailAllKeeps, TransportKept
<1>4. CASE Transport!Close
  <2>1. /\ lines' = IF helper = "up" THEN Append(lines, 0) ELSE lines
        /\ calls' = IF platform = "win32" THEN Transport!FailAll(calls) ELSE calls
        /\ UNCHANGED <<platform, replies, sockets, applied>>
    BY <1>4 DEF Transport!Close, Transport!Abandoned
  <2>2. lines' \in Seq(Int)
    BY <1>1, <2>1
  <2>3. CASE platform = "win32"
    BY <2>1, <2>2, <2>3, FailAllKeeps, TransportKept
  <2>4. CASE platform # "win32"
    <3>1. CallsMatch' /\ calls' \in Seq(CallRecords) /\ Len(calls') = Len(calls)
      BY <2>1, <2>4 DEF TransportInv, TransportTypes, CallsMatch, Matches
    <3>2. ClosedSettled'
      BY <2>1, <2>4 DEF ClosedSettled
    <3> QED
      BY <2>1, <2>2, <3>1, <3>2, TransportKept
  <2> QED
    BY <2>3, <2>4
<1> QED
  BY <1>2, <1>3, <1>4

LEMMA DaemonKept ==
    ASSUME TransportInv, NEW id \in 1..Len(calls),
           Transport!Connected(id) \/ \E ok \in BOOLEAN : Transport!DaemonAnswers(id, ok)
    PROVE  TransportInv'
<1>1. /\ lines \in Seq(Int) /\ sockets \in Seq(SocketStates) /\ Len(sockets) = Len(calls)
      /\ replies \in Seq(Outcomes)
  BY DEF TransportInv, TransportTypes
<1>2. UNCHANGED <<platform, closed, calls, lines, replies>>
  BY DEF Transport!Connected, Transport!DaemonAnswers
<1>3. PICK s \in SocketStates :
          /\ sockets' = [sockets EXCEPT ![id] = s]
          /\ s = "ok" => id \in applied'
          /\ \A i \in applied : i \in applied'
  <2>1. CASE Transport!Connected(id)
    BY <2>1 DEF Transport!Connected, SocketStates
  <2>2. CASE \E ok \in BOOLEAN : Transport!DaemonAnswers(id, ok)
    <3>1. PICK ok \in BOOLEAN : Transport!DaemonAnswers(id, ok)
      BY <2>2
    <3> DEFINE s == IF sockets[id] = "cut" THEN "none" ELSE IF ok THEN "ok" ELSE "rejected"
    <3>2. s \in SocketStates /\ (s = "ok" => ok)
      BY DEF SocketStates
    <3>3. /\ sockets' = [sockets EXCEPT ![id] = s]
          /\ applied' = IF ok THEN applied \cup {id} ELSE applied
      BY <3>1 DEF Transport!DaemonAnswers
    <3> QED
      BY <3>2, <3>3
  <2> QED
    BY <2>1, <2>2
<1>4. /\ sockets' \in Seq(SocketStates) /\ Len(sockets') = Len(sockets) /\ sockets'[id] = s
      /\ \A i \in 1..Len(sockets) : i # id => sockets'[i] = sockets[i]
  BY <1>3, SocketReplaced
<1>5. AnswersTrue'
  BY <1>1, <1>2, <1>3, <1>4 DEF TransportInv, AnswersTrue
<1>6. /\ CallsMatch' /\ ClosedSettled' /\ calls' \in Seq(CallRecords)
      /\ Len(calls') = Len(calls)
  BY <1>2, <1>3, CallsUntouched
<1> QED
  BY <1>1, <1>2, <1>4, <1>5, <1>6 DEF TransportInv, TransportTypes

LEMMA SocketEndKept ==
    ASSUME TransportInv, NEW id \in 1..Len(calls), Transport!SocketEnds(id)
    PROVE  TransportInv'
<1> DEFINE s == IF sockets[id] = "sent" THEN "cut" ELSE "none"
           outcome == IF sockets[id] = "ok" THEN [id |-> id, ok |-> TRUE] ELSE Transport!Refused
<1>1. /\ lines \in Seq(Int) /\ sockets \in Seq(SocketStates) /\ Len(sockets) = Len(calls)
      /\ replies \in Seq(Outcomes) /\ id \in Int /\ id \in 1..Len(sockets)
  BY DEF TransportInv, TransportTypes
<1>2. /\ sockets' = [sockets EXCEPT ![id] = s]
      /\ calls' = IF ~calls[id].pending THEN calls ELSE Transport!Settle(id, outcome)
      /\ UNCHANGED <<platform, closed, lines, replies, applied>>
  BY DEF Transport!SocketEnds
<1>3. s \in SocketStates /\ s # "ok"
  BY DEF SocketStates
<1>4. outcome \in Outcomes /\ (outcome.ok => outcome.id = id /\ sockets[id] = "ok")
  BY <1>1 DEF Transport!Refused, Outcomes
<1> HIDE DEF s, outcome
<1>5. outcome.ok => outcome.id = id /\ id \in applied
  BY <1>1, <1>4 DEF TransportInv, AnswersTrue
<1>6. /\ sockets' \in Seq(SocketStates) /\ Len(sockets') = Len(sockets) /\ sockets'[id] = s
      /\ \A i \in 1..Len(sockets) : i # id => sockets'[i] = sockets[i]
  BY <1>2, <1>3, SocketReplaced
<1>7. AnswersTrue'
  BY <1>1, <1>2, <1>3, <1>6 DEF TransportInv, AnswersTrue
<1>8. /\ CallsMatch' /\ ClosedSettled' /\ calls' \in Seq(CallRecords)
      /\ Len(calls') = Len(calls)
  <2>1. CASE calls[id].pending
    BY <1>2, <1>4, <1>5, <2>1, SettleKeeps
  <2>2. CASE ~calls[id].pending
    BY <1>2, <2>2, CallsUntouched
  <2> QED
    BY <2>1, <2>2
<1> QED
  BY <1>1, <1>2, <1>6, <1>7, <1>8 DEF TransportInv, TransportTypes

LEMMA TransportNext == TransportInv /\ [Transport!Next]_(Transport!vars) => TransportInv'
<1> SUFFICES ASSUME TransportInv, [Transport!Next]_(Transport!vars) PROVE TransportInv'
  OBVIOUS
<1>1. DOMAIN calls = 1..Len(calls)
  BY DEF TransportInv, TransportTypes
<1>2. CASE Transport!Attempt \/ Transport!Opened \/ Transport!OpenFails
  BY <1>2, OpeningKept
<1>3. CASE Transport!Request
  BY <1>3, RequestKept
<1>4. CASE \E id \in 1..Len(calls) :
               \/ Transport!Timeout(id) \/ Transport!WriteFails(id) \/ Transport!Connected(id)
               \/ Transport!SocketEnds(id)
               \/ \E ok \in BOOLEAN : Transport!DaemonAnswers(id, ok)
  BY <1>4, FailureKept, DaemonKept, SocketEndKept
<1>5. CASE \E ok \in BOOLEAN : Transport!HelperAnswers(ok)
  BY <1>5, HelperAnswerKept
<1>6. CASE Transport!HelperMumbles \/ Transport!HandleResponse
  BY <1>6, MumbleKept, ResponseKept
<1>7. CASE \/ Transport!HelperDies \/ Transport!HelperError \/ Transport!Exit
           \/ Transport!Close
  BY <1>7, EndKept
<1>8. CASE UNCHANGED Transport!vars
  <2>1. UNCHANGED <<platform, closed, calls, lines, replies, sockets, applied>>
    BY <1>8 DEF Transport!vars
  <2>2. lines' \in Seq(Int)
    BY <2>1 DEF TransportInv, TransportTypes
  <2> QED
    BY <2>1, <2>2, CallsUntouched, TransportKept
<1> QED
  BY <1>1, <1>2, <1>3, <1>4, <1>5, <1>6, <1>7, <1>8 DEF Transport!Next, Transport!CallIds

LEMMA TransportInvariance == Transport!Spec => []TransportInv
<1>1. Transport!Init => TransportInv
  <2> SUFFICES ASSUME Transport!Init PROVE TransportInv
    OBVIOUS
  <2>1. calls = <<>> /\ lines = <<>> /\ replies = <<>> /\ sockets = <<>>
    BY DEF Transport!Init
  <2>2. /\ <<>> \in Seq(CallRecords) /\ <<>> \in Seq(Int) /\ <<>> \in Seq(Outcomes)
        /\ <<>> \in Seq(SocketStates)
    OBVIOUS
  <2>3. TransportTypes
    BY <2>1, <2>2, Zenon DEF TransportTypes
  <2> QED
    BY <2>1, <2>3 DEF TransportInv, CallsMatch, AnswersTrue, ClosedSettled
<1> QED
  BY <1>1, TransportNext, PTL DEF Transport!Spec

(* An answer is that of the call it settles, and what the call asked for   *)
(* was done.                                                               *)
LEMMA AnswersCorrect == TransportInv => Transport!AnswersMatch
<1> SUFFICES ASSUME TransportInv PROVE Transport!AnswersMatch
  OBVIOUS
<1>1. DOMAIN calls = 1..Len(calls)
  BY DEF TransportInv, TransportTypes
<1> QED
  BY <1>1 DEF TransportInv, CallsMatch, Matches, ClosedSettled, Transport!AnswersMatch,
              Transport!CallIds

(* Whatever is late, lost, closed or killed, a request and a lookup get    *)
(* one result, which is their own answer or a failure (handleResponse and  *)
(* request of the two transports, HidDiscoveryClient).                     *)
THEOREM RequestsCorrect == Transport!Spec /\ Discovery!Spec => []RequestsMatch
<1>1. TransportInv /\ DiscoveryInv => RequestsMatch
  BY AnswersCorrect, LookupsCorrect DEF RequestsMatch
<1> QED
  BY <1>1, TransportInvariance, DiscoveryInvariance, PTL

(***************************************************************************)
(* The audio haptics.  The helper that plays is the engine's process, and  *)
(* the process plays the active source.                                    *)
(***************************************************************************)
Mirrored == Sources \cup {"off"}
HelperRecords == [source : Mirrored, state : {"up", "gone"}, killed : BOOLEAN,
                  start : {"waits", "done", "failed"}]
Waiting == {"restarting", "joining"}
Elsewhere == {"idle", "storing", "reapplying", "started", "starting", "told", "failed", "stopping",
              "stopping, then telling", "stopping, then waiting", "stopping, then noting",
              "updating"}
Steps == Waiting \cup Elsewhere
CallerRecords == [pc : Steps, source : Mirrored, helper : Nat]

Flags == passthrough \in BOOLEAN /\ firmware \in BOOLEAN /\ unheard \in BOOLEAN

MirrorTypes ==
    /\ starting \in Nat
    /\ callers \in [Callers -> CallerRecords]
    /\ wanted \in Mirrored
    /\ Flags

Engine ==
    /\ helpers \in Seq(HelperRecords)
    /\ process \in 0..Len(helpers)
    /\ active \in Mirrored
    /\ \A h \in 1..Len(helpers) : helpers[h].state = "up" /\ ~helpers[h].killed => h = process
    /\ process # 0 => active = helpers[process].source

(* Nothing is started, or waited for, to play no source.                   *)
NamesSource ==
    /\ process # 0 => active # "off"
    /\ \A c \in Callers : callers[c].pc \in Waiting => callers[c].source # "off"

(* What runs, or waits to be started, is what is to play, unless a call is *)
(* about to look again, or it was overtaken.                               *)
WantedStarts == ~overtaken =>
    /\ process # 0 => active = Mirror!Target \/ \E c \in Callers : callers[c].pc = "updating"
    /\ \A c \in Callers : callers[c].pc \in Waiting => callers[c].source = Mirror!Target

Sounds == passthrough /\ wanted # "off"

FirmwareTold ==
    \/ unheard
    \/ firmware = Sounds
    \/ \E c \in Callers : callers[c].pc = "stopping, then telling"

MirrorInv == MirrorTypes /\ Engine /\ NamesSource /\ WantedStarts /\ FirmwareTold

LEMMA HelperFields ==
    ASSUME NEW r \in HelperRecords
    PROVE  /\ r.source \in Mirrored /\ r.state \in {"up", "gone"}
           /\ r.killed \in BOOLEAN /\ r.start \in {"waits", "done", "failed"}
           /\ \A k \in BOOLEAN : /\ [r EXCEPT !.killed = k] \in HelperRecords
                                 /\ [r EXCEPT !.killed = k].killed = k
                                 /\ [r EXCEPT !.killed = k].state = r.state
                                 /\ [r EXCEPT !.killed = k].source = r.source
           /\ \A s \in {"waits", "done", "failed"} :
                  /\ [r EXCEPT !.start = s] \in HelperRecords
                  /\ [r EXCEPT !.start = s].killed = r.killed
                  /\ [r EXCEPT !.start = s].state = r.state
                  /\ [r EXCEPT !.start = s].source = r.source
BY DEF HelperRecords

(* A helper that was told to end does not play.                            *)
LEMMA Killed ==
    ASSUME Engine, NEW h \in 1..Len(helpers)
    PROVE  /\ Mirror!Kill(helpers, h) \in Seq(HelperRecords)
           /\ Len(Mirror!Kill(helpers, h)) = Len(helpers)
           /\ Mirror!Kill(helpers, h)[h].killed
           /\ Mirror!Kill(helpers, h)[h].source = helpers[h].source
           /\ \A g \in 1..Len(helpers) : g # h => Mirror!Kill(helpers, h)[g] = helpers[g]
<1> DEFINE new == [helpers[h] EXCEPT !.killed = TRUE]
<1>1. helpers[h] \in HelperRecords
  BY DEF Engine
<1>2. new \in HelperRecords /\ new.killed /\ new.source = helpers[h].source
  BY <1>1, HelperFields
<1>3. Mirror!Kill(helpers, h) = [helpers EXCEPT ![h] = new]
  BY DEF Mirror!Kill
<1> HIDE DEF new
<1> QED
  BY <1>2, <1>3 DEF Engine

LEMMA Gone ==
    ASSUME MirrorInv, NEW c \in Callers, NEW pc \in Steps, NEW source \in Mirrored, NEW h \in Nat,
           Mirror!Go(c, pc, source, h)
    PROVE  /\ callers' \in [Callers -> CallerRecords]
           /\ callers'[c].pc = pc /\ callers'[c].source = source
           /\ \A d \in Callers \ {c} : callers'[d] = callers[d]
<1>1. callers \in [Callers -> CallerRecords]
  BY DEF MirrorInv, MirrorTypes
<1>2. callers' = [callers EXCEPT ![c] = [pc |-> pc, source |-> source, helper |-> h]]
  BY DEF Mirror!Go
<1>3. [pc |-> pc, source |-> source, helper |-> h] \in CallerRecords
  BY DEF CallerRecords
<1> QED
  BY <1>1, <1>2, <1>3

(* stop leaves no process, and its helper told to end.                     *)
LEMMA StopLeavesNone ==
    ASSUME MirrorInv, NEW c \in Callers, NEW then \in Steps, NEW source \in Mirrored,
           Mirror!Stop(c, then, source), active' = active
    PROVE  /\ Engine' /\ process' = 0
           /\ Mirror!Go(c, then, source, process) /\ process \in Nat
<1>1. process' = 0 /\ Mirror!Go(c, then, source, process)
  BY DEF Mirror!Stop
<1>2. Engine
  BY DEF MirrorInv
<1>3. process \in Nat
  BY <1>2 DEF Engine
<1>4. CASE process = 0
  <2>1. helpers' = helpers
    BY <1>4 DEF Mirror!Stop
  <2> QED
    BY <1>1, <1>2, <1>3, <1>4, <2>1 DEF Engine
<1>5. CASE process # 0
  <2>1. helpers' = Mirror!Kill(helpers, process)
    BY <1>5 DEF Mirror!Stop
  <2>2. process \in 1..Len(helpers)
    BY <1>2, <1>5 DEF Engine
  <2>3. /\ helpers' \in Seq(HelperRecords) /\ Len(helpers') = Len(helpers)
        /\ helpers'[process].killed
        /\ \A g \in 1..Len(helpers) : g # process => helpers'[g] = helpers[g]
    BY <1>2, <2>1, <2>2, Killed
  <2>4. \A g \in 1..Len(helpers') : ~(helpers'[g].state = "up" /\ ~helpers'[g].killed)
    BY <1>2, <2>2, <2>3 DEF Engine
  <2> QED
    BY <1>1, <1>2, <1>3, <2>3, <2>4 DEF Engine
<1> QED
  BY <1>4, <1>5

(* start leaves no other source playing than its own.                      *)
LEMMA StartPlays ==
    ASSUME MirrorInv, NEW c \in Callers, NEW source \in Mirrored, Mirror!Start(c, source)
    PROVE  /\ Engine' /\ (process' # 0 => active' = source)
           /\ starting' \in Nat
           /\ \E pc \in {"started", "restarting", "joining", "starting"}, h \in Nat :
                  Mirror!Go(c, pc, source, h)
<1>1. Engine /\ starting \in Nat /\ process \in Nat
  BY DEF MirrorInv, MirrorTypes, Engine
<1>2. CASE Mirror!Running(c, source)
  <2>1. starting' = starting /\ active' = active
    BY <1>2 DEF Mirror!Running
  <2>2. CASE process # 0 /\ active = source
    <3>1. Mirror!Go(c, "started", source, 0) /\ UNCHANGED <<process, helpers>>
      BY <1>2, <2>2 DEF Mirror!Running
    <3> QED
      BY <1>1, <2>1, <2>2, <3>1 DEF Engine
  <2>3. CASE process # 0 /\ active # source
    <3>1. Mirror!Stop(c, "restarting", source)
      BY <1>2, <2>3 DEF Mirror!Running
    <3>2. "restarting" \in Steps
      BY DEF Steps, Waiting
    <3> QED
      BY <1>1, <2>1, <3>1, <3>2, StopLeavesNone
  <2>4. CASE process = 0
    <3>1. Mirror!Go(c, "joining", source, starting) /\ UNCHANGED <<process, helpers>>
      BY <1>2, <2>4 DEF Mirror!Running
    <3> QED
      BY <1>1, <2>1, <2>4, <3>1 DEF Engine
  <2> QED
    BY <2>2, <2>3, <2>4
<1>3. CASE Mirror!Spawn(c, source)
  <2> DEFINE h == Len(helpers) + 1
             new == [source |-> source, state |-> "up", killed |-> FALSE, start |-> "waits"]
  <2>1. /\ helpers' = Append(helpers, new)
        /\ process' = h /\ starting' = h /\ active' = source
        /\ Mirror!Go(c, "starting", source, h) /\ process = 0
    BY <1>3 DEF Mirror!Spawn
  <2>2. new \in HelperRecords /\ new.source = source
    BY DEF HelperRecords
  <2> HIDE DEF new
  <2>3. helpers \in Seq(HelperRecords) /\ Len(helpers) \in Nat
    BY <1>1 DEF Engine
  <2>4. /\ helpers' \in Seq(HelperRecords) /\ Len(helpers') = h /\ helpers'[h] = new
        /\ \A g \in 1..Len(helpers) : helpers'[g] = helpers[g]
    BY <2>1, <2>2, <2>3
  <2>5. \A g \in 1..Len(helpers) : ~(helpers[g].state = "up" /\ ~helpers[g].killed)
    BY <1>1, <2>1 DEF Engine
  <2>6. Engine'
    BY <2>1, <2>2, <2>3, <2>4, <2>5 DEF Engine
  <2> QED
    BY <2>1, <2>2, <2>3, <2>4, <2>6
<1> QED
  BY <1>2, <1>3 DEF Mirror!Start

(* What a step of c, to pc, leaves of the claims about engine and firmware. *)
EngineLeft(c, pc) == ~overtaken' =>
    /\ process' # 0 => \/ active' = Mirror!Target' \/ pc = "updating"
                       \/ \E d \in Callers \ {c} : callers[d].pc = "updating"
    /\ \A d \in Callers \ {c} : callers[d].pc \in Waiting => callers[d].source = Mirror!Target'
FirmwareLeft(c) ==
    \/ unheard'
    \/ firmware' = Sounds'
    \/ \E d \in Callers \ {c} : callers[d].pc = "stopping, then telling"

(* A call goes to another step.                                            *)
LEMMA MirrorGone ==
    ASSUME MirrorInv, NEW c \in Callers, NEW pc \in Steps, NEW source \in Mirrored, NEW h \in Nat,
           Mirror!Go(c, pc, source, h),
           Engine', starting' \in Nat, Flags', wanted' \in Mirrored,
           process' # 0 => active' # "off",
           EngineLeft(c, pc),
           pc \in Waiting => source # "off" /\ (~overtaken' => source = Mirror!Target'),
           FirmwareLeft(c) \/ pc = "stopping, then telling"
    PROVE  MirrorInv'
<1>1. /\ callers' \in [Callers -> CallerRecords]
      /\ callers'[c].pc = pc /\ callers'[c].source = source
      /\ \A d \in Callers \ {c} : callers'[d] = callers[d]
  BY Gone
<1>2. MirrorTypes'
  BY <1>1 DEF MirrorTypes
<1>3. NamesSource'
  <2>1. \A d \in Callers : callers[d].pc \in Waiting => callers[d].source # "off"
    BY DEF MirrorInv, NamesSource
  <2>2. \A d \in Callers : callers'[d].pc \in Waiting => callers'[d].source # "off"
    BY <1>1, <2>1
  <2> QED
    BY <2>2 DEF NamesSource
<1>4. WantedStarts'
  <2> SUFFICES ASSUME ~overtaken' PROVE WantedStarts'
    BY DEF WantedStarts
  <2>1. \A d \in Callers : callers'[d].pc \in Waiting => callers'[d].source = Mirror!Target'
    BY <1>1 DEF EngineLeft
  <2>2. process' # 0 => \/ active' = Mirror!Target'
                        \/ \E d \in Callers : callers'[d].pc = "updating"
    BY <1>1 DEF EngineLeft
  <2> QED
    BY <2>1, <2>2 DEF WantedStarts
<1>5. FirmwareTold'
  <2>1. \/ unheard' \/ firmware' = Sounds'
        \/ \E d \in Callers : callers'[d].pc = "stopping, then telling"
    BY <1>1 DEF FirmwareLeft
  <2> QED
    BY <2>1 DEF FirmwareTold
<1> QED
  BY <1>2, <1>3, <1>4, <1>5 DEF MirrorInv

(* No call goes to another step.                                           *)
LEMMA CallersStay ==
    ASSUME MirrorInv, callers' = callers, starting' = starting, wanted' \in Mirrored, Flags', Engine',
           process' # 0 => active' # "off",
           ~overtaken' =>
               /\ process' # 0 => \/ active' = Mirror!Target'
                                  \/ \E c \in Callers : callers[c].pc = "updating"
               /\ \A c \in Callers : callers[c].pc \in Waiting => callers[c].source = Mirror!Target',
           \/ unheard' \/ firmware' = Sounds'
           \/ \E c \in Callers : callers[c].pc = "stopping, then telling"
    PROVE  MirrorInv'
<1>1. MirrorTypes'
  BY DEF MirrorInv, MirrorTypes
<1>2. NamesSource'
  BY DEF MirrorInv, NamesSource
<1>3. WantedStarts'
  BY DEF WantedStarts
<1>4. FirmwareTold'
  BY DEF FirmwareTold
<1> QED
  BY <1>1, <1>2, <1>3, <1>4 DEF MirrorInv

(* A call whose caller does not bring the engine in line.                  *)
LEMMA EngineStays ==
    ASSUME MirrorInv, NEW c \in Callers, NEW pc \in Steps, callers[c].pc # "updating",
           UNCHANGED <<wanted, link, process, active, overtaken>>
    PROVE  EngineLeft(c, pc) /\ (process' # 0 => active' # "off")
<1>1. Mirror!Target' = Mirror!Target
  BY DEF Mirror!Target
<1>2. process' # 0 => active' # "off"
  BY DEF MirrorInv, NamesSource
<1>3. ~overtaken' =>
          /\ process' # 0 => \/ active' = Mirror!Target
                             \/ \E d \in Callers \ {c} : callers[d].pc = "updating"
          /\ \A d \in Callers \ {c} : callers[d].pc \in Waiting => callers[d].source = Mirror!Target
  BY DEF MirrorInv, WantedStarts
<1> QED
  BY <1>1, <1>2, <1>3 DEF EngineLeft

(* The firmware hears nothing.                                             *)
LEMMA FirmwareStays ==
    ASSUME MirrorInv, NEW c \in Callers, callers[c].pc # "stopping, then telling",
           firmware' = firmware, unheard' \in BOOLEAN, passthrough' \in BOOLEAN,
           unheard => unheard', ~unheard' => Sounds' = Sounds
    PROVE  Flags' /\ FirmwareLeft(c)
<1>1. Flags'
  BY DEF MirrorInv, MirrorTypes, Flags
<1>2. \/ unheard \/ firmware = Sounds
      \/ \E d \in Callers \ {c} : callers[d].pc = "stopping, then telling"
  BY DEF MirrorInv, FirmwareTold
<1> QED
  BY <1>1, <1>2 DEF FirmwareLeft

(* What a command leaves: it was taken and is right, or something is unheard. *)
LEMMA Commanded ==
    ASSUME MirrorInv, NEW on \in BOOLEAN, NEW ok \in BOOLEAN, Mirror!Tell(on, ok),
           passthrough' \in BOOLEAN
    PROVE  Flags' /\ (unheard' \/ firmware' = Sounds')
<1> DEFINE value == on /\ passthrough'
           stale == value # (passthrough' /\ wanted' # "off")
<1>1. firmware \in BOOLEAN /\ unheard \in BOOLEAN
  BY DEF MirrorInv, MirrorTypes, Flags
<1>2. value \in BOOLEAN /\ stale \in BOOLEAN /\ (~stale => value = Sounds')
  BY DEF Sounds
<1>3. \/ firmware' = value /\ unheard' = stale
      \/ firmware' = firmware /\ unheard' = (unheard \/ stale \/ firmware # value)
  BY DEF Mirror!Tell
<1> HIDE DEF value, stale
<1>4. CASE firmware' = value /\ unheard' = stale
  BY <1>2, <1>4 DEF Flags
<1>5. CASE firmware' = firmware /\ unheard' = (unheard \/ stale \/ firmware # value)
  BY <1>1, <1>2, <1>5 DEF Flags
<1> QED
  BY <1>3, <1>4, <1>5

(* The caller is not overtaken by an update for another source.            *)
LEMMA NotOvertaken ==
    ASSUME MirrorInv, NEW c \in Callers, NEW w \in Mirrored, Mirror!Overtakes(c, w), ~overtaken'
    PROVE  \A d \in Callers \ {c} : callers[d].pc \in Waiting => callers[d].source = w
BY DEF Mirror!Overtakes, Mirror!Busy, Mirror!Waits, Waiting

(* The update of the engine to what is to play.                            *)
LEMMA MirrorUpdates ==
    ASSUME MirrorInv, NEW c \in Callers, NEW settings \in Mirrored, NEW w \in Mirrored,
           w = Mirror!Target', wanted' \in Mirrored,
           callers[c].pc # "stopping, then telling",
           Mirror!UpdateWith(c, settings, w),
           firmware' = firmware,
           unheard' \in BOOLEAN, unheard => unheard',
           passthrough /\ ~unheard' => (wanted = "off") = (wanted' = "off")
    PROVE  MirrorInv'
<1>1. /\ passthrough \in BOOLEAN /\ firmware \in BOOLEAN /\ unheard \in BOOLEAN /\ starting \in Nat
  BY DEF MirrorInv, MirrorTypes, Flags
<1>3. ~overtaken' => \A d \in Callers \ {c} : callers[d].pc \in Waiting => callers[d].source = w
  BY NotOvertaken DEF Mirror!UpdateWith
<1>4. "off" \in Mirrored /\ {"stopping", "stopping, then telling"} \subseteq Steps \ Waiting
  BY DEF Mirrored, Steps, Waiting, Elsewhere
<1>5. CASE /\ Mirror!Stop(c, IF passthrough THEN "stopping, then telling" ELSE "stopping", settings)
           /\ passthrough' = FALSE
           /\ UNCHANGED <<starting, active>>
  <2> DEFINE then == IF passthrough THEN "stopping, then telling" ELSE "stopping"
  <2>1. then \in Steps \ Waiting /\ (passthrough => then = "stopping, then telling")
    BY <1>4
  <2>2. Mirror!Stop(c, then, settings)
    BY <1>5
  <2> HIDE DEF then
  <2>3. Engine' /\ process' = 0 /\ Mirror!Go(c, then, settings, process) /\ process \in Nat
    BY <1>5, <2>1, <2>2, StopLeavesNone
  <2>4. EngineLeft(c, then)
    BY <1>3, <2>3 DEF EngineLeft
  <2>5. CASE passthrough
    <3>1. Flags'
      BY <1>1, <1>5 DEF Flags
    <3> QED
      BY <1>1, <1>5, <2>1, <2>3, <2>4, <2>5, <3>1, MirrorGone
  <2>6. CASE ~passthrough
    <3>1. Sounds' = Sounds
      BY <1>1, <1>5, <2>6 DEF Sounds
    <3>2. Flags' /\ FirmwareLeft(c)
      BY <1>1, <1>5, <3>1, FirmwareStays
    <3> QED
      BY <1>1, <1>5, <2>1, <2>3, <2>4, <3>2, MirrorGone
  <2> QED
    BY <1>1, <2>5, <2>6
<1>6. ASSUME passthrough' = passthrough
      PROVE  Flags' /\ FirmwareLeft(c)
  <2>1. ~unheard' => Sounds' = Sounds
    BY <1>1, <1>6 DEF Sounds
  <2> QED
    BY <1>1, <1>6, <2>1, FirmwareStays
<1>7. CASE Mirror!Stop(c, "stopping", "off") /\ UNCHANGED <<starting, active, passthrough>>
  <2>1. Engine' /\ process' = 0 /\ Mirror!Go(c, "stopping", "off", process) /\ process \in Nat
    BY <1>4, <1>7, StopLeavesNone
  <2>2. EngineLeft(c, "stopping")
    BY <1>3, <2>1 DEF EngineLeft
  <2> QED
    BY <1>1, <1>4, <1>6, <1>7, <2>1, <2>2, MirrorGone
<1>8. CASE w # "off" /\ Mirror!Start(c, w) /\ passthrough' = passthrough
  <2>1. Engine' /\ (process' # 0 => active' = w) /\ starting' \in Nat
    BY <1>8, StartPlays
  <2>2. PICK pc \in {"started", "restarting", "joining", "starting"}, h \in Nat :
            Mirror!Go(c, pc, w, h)
    BY <1>8, StartPlays
  <2>3. EngineLeft(c, pc)
    BY <1>3, <2>1 DEF EngineLeft
  <2>4. pc \in Steps
    BY DEF Steps, Waiting, Elsewhere
  <2> QED
    BY <1>6, <1>8, <2>1, <2>2, <2>3, <2>4, MirrorGone
<1> QED
  BY <1>5, <1>7, <1>8 DEF Mirror!UpdateWith

(* Settings are stored, or switched, and the engine follows.               *)
LEMMA UnsaidKept ==
    ASSUME MirrorInv, NEW c \in Callers, NEW settings \in Mirrored, NEW w \in Mirrored,
           w = Mirror!Target', wanted' \in Mirrored, callers[c].pc # "stopping, then telling",
           Mirror!UpdateWith(c, settings, w), Mirror!Unsaid
    PROVE  MirrorInv'
<1>1. passthrough \in BOOLEAN /\ unheard \in BOOLEAN /\ wanted \in Mirrored
  BY DEF MirrorInv, MirrorTypes, Flags
<1>2. /\ firmware' = firmware
      /\ unheard' = (unheard \/ (passthrough /\ (wanted = "off") # (wanted' = "off")))
  BY DEF Mirror!Unsaid
<1>3. /\ unheard' \in BOOLEAN /\ (unheard => unheard')
      /\ (passthrough /\ ~unheard' => (wanted = "off") = (wanted' = "off"))
  BY <1>1, <1>2
<1> QED
  BY <1>2, <1>3, MirrorUpdates

LEMMA CallerRecord ==
    ASSUME MirrorInv, NEW c \in Callers
    PROVE  /\ callers[c] \in CallerRecords
           /\ callers[c].pc \in Steps /\ callers[c].source \in Mirrored /\ callers[c].helper \in Nat
BY DEF MirrorInv, MirrorTypes, CallerRecords

LEMMA TargetFollows ==
    ASSUME link' = link, NEW w \in Mirrored, wanted' = w
    PROVE  /\ Mirror!Target' = (IF link = "ready" THEN w ELSE "off")
           /\ (IF link = "ready" THEN w ELSE "off") \in Mirrored
BY DEF Mirror!Target, Mirrored

LEMMA StoreKept ==
    ASSUME MirrorInv, NEW c \in Callers, Mirror!Store(c)
    PROVE  MirrorInv'
<1> DEFINE w == IF link = "ready" THEN wanted' ELSE "off"
<1>1. /\ callers[c].pc = "storing" /\ wanted' = callers[c].source /\ link' = link
      /\ Mirror!UpdateWith(c, wanted', w) /\ Mirror!Unsaid
  BY DEF Mirror!Store
<1>2. wanted' \in Mirrored
  BY <1>1, CallerRecord
<1>3. w \in Mirrored /\ w = Mirror!Target'
  BY <1>1, <1>2, TargetFollows
<1> HIDE DEF w
<1> QED
  BY <1>1, <1>2, <1>3, UnsaidKept

LEMMA ToggleKept ==
    ASSUME MirrorInv, NEW c \in Callers, Mirror!Toggle(c)
    PROVE  MirrorInv'
<1> DEFINE w == IF link = "ready" THEN wanted' ELSE "off"
<1>1. callers[c].pc = "idle" /\ link' = link
  BY DEF Mirror!Toggle, Mirror!Free, Mirror!Busy
<1>2. wanted' \in Mirrored
  BY DEF Mirror!Toggle, Mirrored
<1>3. w \in Mirrored /\ w = Mirror!Target'
  BY <1>1, <1>2, TargetFollows
<1>4. Engine /\ starting \in Nat /\ passthrough \in BOOLEAN /\ (process # 0 => active # "off")
  BY DEF MirrorInv, MirrorTypes, Flags, NamesSource
<1>5. CASE Mirror!UpdateWith(c, wanted', w) /\ Mirror!Unsaid
  <2> HIDE DEF w
  <2> QED
    BY <1>1, <1>2, <1>3, <1>5, UnsaidKept
<1>6. CASE /\ UNCHANGED <<process, starting, active, helpers, passthrough, retrying>>
           /\ Mirror!Tell(wanted' # "off", TRUE) /\ Mirror!Go(c, "updating", "off", 0)
           /\ Mirror!Overtakes(c, w)
  <2> HIDE DEF w
  <2>1. Flags' /\ FirmwareLeft(c)
    BY <1>4, <1>6, Commanded DEF FirmwareLeft
  <2>2. Engine' /\ starting' \in Nat /\ (process' # 0 => active' # "off")
    BY <1>4, <1>6 DEF Engine
  <2>3. "updating" \in Steps \ Waiting /\ "off" \in Mirrored
    BY DEF Steps, Waiting, Elsewhere, Mirrored
  <2>4. ~overtaken' => \A d \in Callers \ {c} : callers[d].pc \in Waiting => callers[d].source = w
    BY <1>3, <1>6, NotOvertaken
  <2>5. EngineLeft(c, "updating")
    BY <1>3, <2>4 DEF EngineLeft
  <2> QED
    BY <1>2, <1>6, <2>1, <2>2, <2>3, <2>5, MirrorGone
<1>7. CASE /\ UNCHANGED <<process, starting, active, helpers, passthrough, retrying, callers>>
           /\ Mirror!Tell(wanted' # "off", FALSE) /\ overtaken' = TRUE
  <2>1. Flags' /\ (unheard' \/ firmware' = Sounds')
    BY <1>4, <1>7, Commanded
  <2>2. Engine' /\ starting' = starting /\ (process' # 0 => active' # "off")
    BY <1>4, <1>7 DEF Engine
  <2> QED
    BY <1>2, <1>7, <2>1, <2>2, CallersStay
<1> QED
  BY <1>5, <1>6, <1>7 DEF Mirror!Toggle, Mirror!engineVars

LEMMA UpdateAgainKept ==
    ASSUME MirrorInv, NEW c \in Callers, Mirror!UpdateAgain(c)
    PROVE  MirrorInv'
<1>1. /\ wanted' = wanted /\ link' = link /\ firmware' = firmware /\ unheard' = unheard
      /\ callers[c].pc = "updating" /\ Mirror!UpdateWith(c, wanted, Mirror!Target)
  BY DEF Mirror!UpdateAgain, Mirror!toldVars
<1>2. wanted \in Mirrored /\ unheard \in BOOLEAN
  BY DEF MirrorInv, MirrorTypes, Flags
<1>3. Mirror!Target \in Mirrored /\ Mirror!Target = Mirror!Target'
  BY <1>1, <1>2 DEF Mirror!Target, Mirrored
<1> QED
  BY <1>1, <1>2, <1>3, MirrorUpdates

(* A call that waited starts what it waited for.                           *)
LEMMA WaiterStarts ==
    ASSUME MirrorInv, NEW c \in Callers, callers[c].pc \in Waiting,
           Mirror!Start(c, callers[c].source),
           UNCHANGED <<wanted, link, passthrough, retrying, firmware, unheard, overtaken>>
    PROVE  MirrorInv'
<1> DEFINE source == callers[c].source
<1>1. wanted \in Mirrored /\ Flags /\ source \in Mirrored
  BY CallerRecord DEF MirrorInv, MirrorTypes
<1>2. source # "off" /\ callers[c].pc # "updating" /\ callers[c].pc # "stopping, then telling"
  BY DEF MirrorInv, NamesSource, Waiting
<1>3. Mirror!Target' = Mirror!Target /\ Sounds' = Sounds
  BY DEF Mirror!Target, Sounds
<1>4. ~overtaken' => source = Mirror!Target'
  BY <1>3 DEF MirrorInv, WantedStarts
<1>5. ~overtaken' => \A d \in Callers \ {c} :
          callers[d].pc \in Waiting => callers[d].source = Mirror!Target'
  BY <1>3 DEF MirrorInv, WantedStarts
<1> HIDE DEF source
<1>6. Engine' /\ (process' # 0 => active' = source) /\ starting' \in Nat
  BY <1>1, StartPlays DEF source
<1>7. PICK pc \in {"started", "restarting", "joining", "starting"}, h \in Nat :
          Mirror!Go(c, pc, source, h)
  BY <1>1, StartPlays DEF source
<1>8. EngineLeft(c, pc)
  BY <1>4, <1>5, <1>6 DEF EngineLeft
<1>9. Flags' /\ FirmwareLeft(c)
  BY <1>1, <1>2, <1>3, FirmwareStays DEF Flags
<1>10. pc \in Steps /\ wanted' \in Mirrored
  BY <1>1 DEF Steps, Waiting, Elsewhere
<1> QED
  BY <1>1, <1>2, <1>4, <1>6, <1>7, <1>8, <1>9, <1>10, MirrorGone

(* A call goes on without touching the engine.                             *)
LEMMA CallGoesOn ==
    ASSUME MirrorInv, NEW c \in Callers, NEW pc \in Elsewhere, NEW source \in Mirrored,
           NEW h \in Nat, Mirror!Go(c, pc, source, h), callers[c].pc # "updating",
           UNCHANGED <<wanted, link, process, active, helpers, overtaken>>,
           starting' \in Nat, Flags', FirmwareLeft(c)
    PROVE  MirrorInv'
<1>1. Engine' /\ wanted' \in Mirrored
  BY DEF MirrorInv, MirrorTypes, Engine
<1>2. pc \in Steps \ Waiting
  BY DEF Steps, Waiting, Elsewhere
<1>3. EngineLeft(c, pc) /\ (process' # 0 => active' # "off")
  BY <1>2, EngineStays
<1> QED
  BY <1>1, <1>2, <1>3, MirrorGone

(* A call stops the engine and goes on to wait for the end of the helper.  *)
LEMMA CallStops ==
    ASSUME MirrorInv, NEW c \in Callers, NEW then \in Elsewhere,
           Mirror!Stop(c, then, "off"), UNCHANGED <<starting, active>>, wanted' \in Mirrored,
           ~overtaken' => \A d \in Callers \ {c} :
               callers[d].pc \in Waiting => callers[d].source = Mirror!Target',
           Flags', FirmwareLeft(c)
    PROVE  MirrorInv'
<1>1. "off" \in Mirrored /\ then \in Steps \ Waiting
  BY DEF Mirrored, Steps, Waiting, Elsewhere
<1>2. Engine' /\ process' = 0 /\ Mirror!Go(c, then, "off", process) /\ process \in Nat
  BY <1>1, StopLeavesNone
<1>3. EngineLeft(c, then) /\ starting' \in Nat
  BY <1>2 DEF EngineLeft, MirrorInv, MirrorTypes
<1> QED
  BY <1>1, <1>2, <1>3, MirrorGone

(* Those that wait still wait for what is to play.                         *)
LEMMA WaitersStay ==
    ASSUME MirrorInv, UNCHANGED <<wanted, link, overtaken>>
    PROVE  /\ wanted' \in Mirrored
           /\ ~overtaken' => \A d \in Callers :
                  callers[d].pc \in Waiting => callers[d].source = Mirror!Target'
<1>1. Mirror!Target' = Mirror!Target
  BY DEF Mirror!Target
<1> QED
  BY <1>1 DEF MirrorInv, MirrorTypes, WantedStarts

(* A helper changes that goes on to play, or not, as before, or is gone.   *)
LEMMA HelperChanges ==
    ASSUME MirrorInv, Engine', UNCHANGED <<wanted, link, starting, active, callers, overtaken>>,
           process' \in {0, process}, Flags',
           \/ unheard' \/ firmware' = Sounds'
           \/ UNCHANGED <<passthrough, firmware, unheard>>
    PROVE  MirrorInv'
<1>1. Mirror!Target' = Mirror!Target /\ wanted' \in Mirrored
  BY DEF Mirror!Target, MirrorInv, MirrorTypes
<1>2. process' # 0 => active' # "off"
  BY DEF MirrorInv, NamesSource
<1>3. ~overtaken' =>
          /\ process' # 0 => \/ active' = Mirror!Target
                             \/ \E c \in Callers : callers[c].pc = "updating"
          /\ \A c \in Callers : callers[c].pc \in Waiting => callers[c].source = Mirror!Target
  BY DEF MirrorInv, WantedStarts
<1>4. \/ unheard' \/ firmware' = Sounds'
      \/ \E c \in Callers : callers[c].pc = "stopping, then telling"
  <2>1. CASE UNCHANGED <<passthrough, firmware, unheard>>
    <3>1. Sounds' = Sounds
      BY <2>1 DEF Sounds
    <3> QED
      BY <2>1, <3>1 DEF MirrorInv, FirmwareTold
  <2> QED
    BY <2>1
<1> QED
  BY <1>1, <1>2, <1>3, <1>4, CallersStay

LEMMA BegunKept ==
    ASSUME MirrorInv, NEW c \in Callers, Mirror!Begun(c)
    PROVE  MirrorInv'
<1> DEFINE call == callers[c]
           h == call.helper
<1>1. /\ call.pc \in {"starting", "joining"}
      /\ UNCHANGED <<wanted, link, passthrough, retrying, firmware, unheard, overtaken>>
  BY DEF Mirror!Begun, Mirror!toldVars
<1>2. call.source \in Mirrored /\ starting \in Nat /\ Flags
  BY CallerRecord DEF MirrorInv, MirrorTypes
<1>3. CASE /\ \/ Mirror!Go(c, "failed", call.source, 0)
              \/ Mirror!Go(c, "started", call.source, 0)
           /\ starting' = IF starting = h THEN 0 ELSE starting
           /\ UNCHANGED <<process, active, helpers>>
  <2>1. "failed" \in Elsewhere /\ "started" \in Elsewhere
    BY DEF Elsewhere
  <2>2. Sounds' = Sounds
    BY <1>1 DEF Sounds
  <2>3. Flags' /\ FirmwareLeft(c)
    BY <1>1, <1>2, <2>2, FirmwareStays DEF Flags
  <2>4. starting' \in Nat
    BY <1>2, <1>3
  <2> QED
    BY <1>1, <1>2, <1>3, <2>1, <2>3, <2>4, CallGoesOn
<1>4. CASE call.pc = "joining" /\ Mirror!Start(c, call.source)
  BY <1>1, <1>4, WaiterStarts DEF Waiting
<1> QED
  BY <1>1, <1>3, <1>4 DEF Mirror!Begun

(* Calls that give a command, or go on to give one.                        *)
LEMMA CommandsKept ==
    ASSUME MirrorInv, NEW c \in Callers,
           \/ Mirror!Configure(c) \/ Mirror!Reapply(c) \/ Mirror!Reapplied(c)
           \/ Mirror!Started(c) \/ Mirror!Told(c) \/ Mirror!Stopped(c)
    PROVE  MirrorInv'
<1>1. /\ "off" \in Mirrored /\ Sources \subseteq Mirrored
      /\ {"idle", "storing", "reapplying", "updating", "told", "failed"} \subseteq Elsewhere
  BY DEF Mirrored, Elsewhere
<1>2. Flags /\ starting \in Nat /\ wanted \in Mirrored
  BY DEF MirrorInv, MirrorTypes
<1>3. ASSUME UNCHANGED <<wanted, passthrough, firmware, unheard>>,
             callers[c].pc # "stopping, then telling"
      PROVE  Flags' /\ FirmwareLeft(c)
  <2>1. Sounds' = Sounds
    BY <1>3 DEF Sounds
  <2> QED
    BY <1>2, <1>3, <2>1, FirmwareStays DEF Flags
<1>4. ASSUME passthrough' \in BOOLEAN, NEW on \in BOOLEAN, NEW ok \in BOOLEAN, Mirror!Tell(on, ok)
      PROVE  Flags' /\ FirmwareLeft(c)
  BY <1>4, Commanded DEF FirmwareLeft
<1>5. ASSUME UNCHANGED <<wanted, link, process, starting, active, helpers, overtaken>>,
             NEW pc \in Elsewhere, NEW source \in Mirrored, Mirror!Go(c, pc, source, 0),
             callers[c].pc # "updating", Flags', FirmwareLeft(c)
      PROVE  MirrorInv'
  BY <1>2, <1>5, CallGoesOn
<1>6. CASE Mirror!Configure(c)
  <2>1. /\ callers[c].pc = "idle"
        /\ UNCHANGED <<wanted, link, process, starting, active, helpers, overtaken, passthrough>>
    BY <1>6 DEF Mirror!Configure, Mirror!Free, Mirror!Busy, Mirror!engineVars
  <2>2. PICK w \in Mirrored, ok \in BOOLEAN :
            Mirror!Tell(w # "off", ok) /\ Mirror!Go(c, "storing", w, 0)
    BY <1>6 DEF Mirror!Configure, Mirrored
  <2>3. Flags' /\ FirmwareLeft(c)
    BY <1>2, <1>4, <2>1, <2>2 DEF Flags
  <2> QED
    BY <1>1, <1>5, <2>1, <2>2, <2>3
<1>7. CASE Mirror!Reapply(c)
  <2>1. /\ callers[c].pc = "idle" /\ Mirror!Go(c, "reapplying", wanted, 0)
        /\ UNCHANGED <<wanted, link, process, starting, active, helpers, overtaken, passthrough,
                       firmware, unheard>>
    BY <1>7 DEF Mirror!Reapply, Mirror!Free, Mirror!Busy, Mirror!engineVars, Mirror!toldVars
  <2> QED
    BY <1>1, <1>2, <1>3, <1>5, <2>1
<1>8. CASE Mirror!Reapplied(c)
  <2>1. /\ callers[c].pc = "reapplying"
        /\ UNCHANGED <<wanted, link, process, starting, active, helpers, overtaken, passthrough>>
    BY <1>8 DEF Mirror!Reapplied, Mirror!engineVars
  <2>2. PICK ok \in BOOLEAN, then \in {"updating", "idle"} :
            Mirror!Tell(callers[c].source # "off", ok) /\ Mirror!Go(c, then, "off", 0)
    BY <1>8 DEF Mirror!Reapplied
  <2>3. Flags' /\ FirmwareLeft(c)
    BY <1>2, <1>4, <2>1, <2>2 DEF Flags
  <2> QED
    BY <1>1, <1>5, <2>1, <2>2, <2>3
<1>9. CASE Mirror!Started(c)
  <2>1. /\ callers[c].pc = "started" /\ passthrough' = FALSE
        /\ UNCHANGED <<wanted, link, process, starting, active, helpers, overtaken>>
        /\ Mirror!Go(c, "told", "off", 0) \/ Mirror!Go(c, "failed", "off", 0)
    BY <1>9 DEF Mirror!Started, Mirror!engineVars
  <2>2. CASE passthrough
    <3>1. \E ok \in BOOLEAN : Mirror!Tell(TRUE, ok)
      BY <1>9, <2>2 DEF Mirror!Started
    <3> QED
      BY <1>1, <1>4, <1>5, <2>1, <3>1
  <2>3. CASE ~passthrough
    <3>1. UNCHANGED <<firmware, unheard, passthrough>>
      BY <1>2, <1>9, <2>1, <2>3 DEF Mirror!Started, Mirror!toldVars, Flags
    <3> QED
      BY <1>1, <1>3, <1>5, <2>1, <3>1
  <2> QED
    BY <2>2, <2>3
<1>10. CASE Mirror!Told(c)
  <2>1. /\ callers[c].pc = "told" /\ Mirror!Go(c, "idle", "off", 0)
        /\ UNCHANGED <<wanted, link, process, starting, active, helpers, overtaken, passthrough,
                       firmware, unheard>>
    BY <1>10 DEF Mirror!Told, Mirror!engineVars, Mirror!toldVars
  <2> QED
    BY <1>1, <1>3, <1>5, <2>1
<1>11. CASE Mirror!Stopped(c)
  <2>1. /\ callers[c].pc \in {"stopping", "stopping, then telling", "stopping, then waiting"}
        /\ Mirror!Go(c, "idle", "off", 0)
        /\ UNCHANGED <<wanted, link, process, starting, active, helpers, overtaken, passthrough>>
    BY <1>11 DEF Mirror!Stopped, Mirror!engineVars
  <2>2. CASE \E on, ok \in BOOLEAN : Mirror!Tell(on, ok)
    <3>1. Flags' /\ FirmwareLeft(c)
      BY <1>2, <1>4, <2>1, <2>2 DEF Flags
    <3> QED
      BY <1>1, <1>5, <2>1, <3>1
  <2>3. CASE UNCHANGED <<firmware, unheard>> /\ callers[c].pc # "stopping, then telling"
    BY <1>1, <1>3, <1>5, <2>1, <2>3
  <2> QED
    BY <1>11, <2>2, <2>3 DEF Mirror!Stopped, Mirror!toldVars
<1> QED
  BY <1>6, <1>7, <1>8, <1>9, <1>10, <1>11

(* Calls that stop the engine, and what they do when it has stopped.       *)
LEMMA CallsKept ==
    ASSUME MirrorInv, NEW c \in Callers,
           \/ Mirror!Failed(c) \/ Mirror!CloseDevice(c) \/ Mirror!NoController(c)
           \/ Mirror!Noted(c) \/ Mirror!RouteChanged(c) \/ Mirror!StopGivesUp(c)
    PROVE  MirrorInv'
<1>1. /\ "off" \in Mirrored
      /\ {"idle", "stopping", "stopping, then waiting", "stopping, then noting", "updating"}
             \subseteq Elsewhere
  BY DEF Mirrored, Elsewhere
<1>2. Flags /\ starting \in Nat /\ wanted \in Mirrored /\ Engine /\ (process # 0 => active # "off")
  BY DEF MirrorInv, MirrorTypes, NamesSource
<1>3. ASSUME UNCHANGED <<passthrough, firmware, unheard>>, (wanted = "off") = (wanted' = "off"),
             callers[c].pc # "stopping, then telling"
      PROVE  Flags' /\ FirmwareLeft(c)
  <2>1. Sounds' = Sounds
    BY <1>3 DEF Sounds
  <2> QED
    BY <1>2, <1>3, <2>1, FirmwareStays DEF Flags
<1>4. CASE Mirror!Failed(c)
  <2>1. /\ callers[c].pc = "failed" /\ Mirror!Stop(c, "stopping, then waiting", "off")
        /\ UNCHANGED <<wanted, link, starting, active, passthrough, firmware, unheard, overtaken>>
    BY <1>4 DEF Mirror!Failed, Mirror!toldVars
  <2> QED
    BY <1>1, <1>3, <2>1, WaitersStay, CallStops
<1>5. ASSUME NEW then \in Elsewhere, Mirror!StopPolling(c, then),
             ~overtaken' => \A d \in Callers \ {c} :
                 callers[d].pc \in Waiting => callers[d].source = Mirror!Target'
      PROVE  MirrorInv'
  <2>1. /\ callers[c].pc = "idle" /\ passthrough' = FALSE /\ unheard' = (unheard \/ passthrough)
        /\ Mirror!Stop(c, then, "off") /\ UNCHANGED <<wanted, starting, active, firmware>>
    BY <1>5 DEF Mirror!StopPolling, Mirror!Free, Mirror!Busy
  <2>2. unheard' \in BOOLEAN /\ (unheard => unheard') /\ (~unheard' => ~passthrough)
    BY <1>2, <2>1 DEF Flags
  <2>3. ~unheard' => Sounds' = Sounds
    BY <2>1, <2>2 DEF Sounds
  <2>4. Flags' /\ FirmwareLeft(c)
    BY <2>1, <2>2, <2>3, FirmwareStays
  <2> QED
    BY <1>2, <1>5, <2>1, <2>4, CallStops
<1>6. CASE Mirror!CloseDevice(c)
  <2>1. link' = "none" /\ Mirror!StopPolling(c, "stopping") /\ Mirror!Overtakes(c, "off")
    BY <1>6 DEF Mirror!CloseDevice
  <2>2. Mirror!Target' = "off"
    BY <2>1 DEF Mirror!Target
  <2> QED
    BY <1>1, <1>5, <2>1, <2>2, NotOvertaken
<1>7. CASE Mirror!NoController(c)
  <2>1. /\ Mirror!StopPolling(c, "stopping, then noting") /\ UNCHANGED <<wanted, link, overtaken>>
    BY <1>7 DEF Mirror!NoController, Mirror!StopPolling
  <2> QED
    BY <1>1, <1>5, <2>1, WaitersStay
<1>8. CASE Mirror!Noted(c)
  <2>1. /\ callers[c].pc = "stopping, then noting" /\ Mirror!Go(c, "idle", "off", 0)
        /\ overtaken' = (overtaken \/ process # 0
                         \/ \E d \in Callers : callers[d].pc \in {"restarting", "joining"})
        /\ UNCHANGED <<wanted, process, starting, active, helpers, passthrough, firmware, unheard>>
    BY <1>8 DEF Mirror!Noted, Mirror!engineVars, Mirror!toldVars, Mirror!Waits
  <2>2. Flags' /\ FirmwareLeft(c)
    BY <1>3, <2>1
  <2>3. EngineLeft(c, "idle")
    BY <2>1 DEF EngineLeft, Waiting
  <2>4. Engine' /\ starting' \in Nat /\ wanted' \in Mirrored /\ (process' # 0 => active' # "off")
    BY <1>2, <2>1 DEF Engine
  <2>5. "idle" \in Steps \ Waiting
    BY DEF Steps, Waiting, Elsewhere
  <2> QED
    BY <1>1, <2>1, <2>2, <2>3, <2>4, <2>5, MirrorGone
<1>9. CASE Mirror!RouteChanged(c)
  <2> DEFINE w == IF link = "ready" THEN wanted' ELSE "off"
  <2>1. /\ callers[c].pc = "idle" /\ Mirror!Stop(c, "updating", "off")
        /\ UNCHANGED <<link, starting, active, passthrough, firmware, unheard>>
    BY <1>9 DEF Mirror!RouteChanged, Mirror!Free, Mirror!Busy, Mirror!toldVars
  <2>2. CASE UNCHANGED <<wanted, overtaken>>
    BY <1>1, <1>3, <2>1, <2>2, WaitersStay, CallStops
  <2>3. CASE /\ wanted' \in (IF wanted # "off" THEN Sources ELSE {"off"})
             /\ Mirror!Overtakes(c, w)
    <3>1. wanted' \in Mirrored
      BY <2>3 DEF Mirrored
    <3>2. w \in Mirrored /\ w = Mirror!Target'
      BY <2>1, <3>1, TargetFollows
    <3>3. ~overtaken' => \A d \in Callers \ {c} :
              callers[d].pc \in Waiting => callers[d].source = w
      BY <2>3, <3>2, NotOvertaken
    <3>4. (wanted = "off") = (wanted' = "off")
      BY <2>3, SourcesNamed
    <3> QED
      BY <1>1, <1>3, <2>1, <3>1, <3>2, <3>3, <3>4, CallStops
  <2> QED
    BY <1>9, <2>2, <2>3 DEF Mirror!RouteChanged, Mirror!Desired
<1>10. CASE Mirror!StopGivesUp(c)
  <2>1. /\ callers' = [callers EXCEPT ![c].helper = 0]
        /\ UNCHANGED <<wanted, link, process, starting, active, helpers, passthrough, firmware,
                       unheard, overtaken>>
    BY <1>10 DEF Mirror!StopGivesUp, Mirror!engineVars, Mirror!toldVars
  <2>2. callers[c] \in CallerRecords /\ callers \in [Callers -> CallerRecords]
    BY CallerRecord DEF MirrorInv, MirrorTypes
  <2>3. /\ [callers[c] EXCEPT !.helper = 0] \in CallerRecords
        /\ [callers[c] EXCEPT !.helper = 0].pc = callers[c].pc
        /\ [callers[c] EXCEPT !.helper = 0].source = callers[c].source
    BY <2>2 DEF CallerRecords
  <2>4. /\ callers' \in [Callers -> CallerRecords]
        /\ \A d \in Callers : callers'[d].pc = callers[d].pc /\ callers'[d].source = callers[d].source
    BY <2>1, <2>2, <2>3
  <2>5. MirrorTypes' /\ Engine'
    BY <1>2, <2>1, <2>4 DEF MirrorTypes, Engine, Flags
  <2>6. NamesSource'
    BY <2>1, <2>4 DEF MirrorInv, NamesSource
  <2>7. Mirror!Target' = Mirror!Target
    BY <2>1 DEF Mirror!Target
  <2>8. WantedStarts'
    BY <2>1, <2>4, <2>7 DEF MirrorInv, WantedStarts
  <2>9. FirmwareTold'
    BY <2>1, <2>4 DEF MirrorInv, FirmwareTold, Sounds
  <2> QED
    BY <2>5, <2>6, <2>8, <2>9 DEF MirrorInv
<1> QED
  BY <1>4, <1>6, <1>7, <1>8, <1>9, <1>10

LEMMA FoundKept ==
    ASSUME MirrorInv, Mirror!Found
    PROVE  MirrorInv'
<1>1. /\ link # "ready" /\ firmware' \in {firmware, firmware /\ link # "none"}
      /\ unheard' = (unheard \/ (passthrough /\ firmware' # firmware))
      /\ UNCHANGED <<wanted, process, starting, active, helpers, callers, passthrough, overtaken>>
  BY DEF Mirror!Found, Mirror!engineVars
<1>2. Flags /\ Engine /\ wanted \in Mirrored /\ (process # 0 => active # "off")
  BY DEF MirrorInv, MirrorTypes, NamesSource
<1>3. Mirror!Target = "off"
  BY <1>1 DEF Mirror!Target
<1>4. ~overtaken' =>
          /\ process' # 0 => \E c \in Callers : callers[c].pc = "updating"
          /\ \A c \in Callers : callers[c].pc \notin Waiting
  BY <1>1, <1>2, <1>3 DEF MirrorInv, WantedStarts, NamesSource
<1>5. Engine' /\ Flags'
  BY <1>1, <1>2 DEF Engine, Flags
<1>6. \/ unheard' \/ firmware' = Sounds'
      \/ \E c \in Callers : callers[c].pc = "stopping, then telling"
  <2>1. CASE firmware' = firmware
    <3>1. Sounds' = Sounds
      BY <1>1 DEF Sounds
    <3> QED
      BY <1>1, <1>2, <2>1, <3>1 DEF MirrorInv, FirmwareTold, Flags
  <2>2. CASE firmware' # firmware
    <3>1. firmware /\ ~firmware'
      BY <1>1, <1>2, <2>2 DEF Flags
    <3>2. firmware = Sounds => passthrough
      BY <3>1 DEF Sounds
    <3> QED
      BY <1>1, <1>2, <2>2, <3>2 DEF MirrorInv, FirmwareTold, Flags
  <2> QED
    BY <2>1, <2>2
<1> QED
  BY <1>1, <1>2, <1>4, <1>5, <1>6, CallersStay

LEMMA HelpersKept ==
    ASSUME MirrorInv, NEW h \in DOMAIN helpers,
           Mirror!Recording(h) \/ Mirror!Unavailable(h) \/ Mirror!Bypassed(h) \/ Mirror!Exit(h)
    PROVE  MirrorInv'
<1>1. /\ Flags /\ Engine
      /\ helpers \in Seq(HelperRecords) /\ h \in 1..Len(helpers) /\ Len(helpers) \in Nat
      /\ helpers[h] \in HelperRecords
  BY DEF MirrorInv, MirrorTypes, Engine
<1>2. CASE Mirror!Recording(h)
  <2> DEFINE new == [helpers[h] EXCEPT !.start = "done"]
  <2>1. helpers' = [helpers EXCEPT ![h] = new] /\ passthrough' = FALSE
        /\ UNCHANGED <<wanted, link, process, starting, active, callers, overtaken>>
    BY <1>2 DEF Mirror!Recording
  <2>2. /\ new \in HelperRecords /\ new.killed = helpers[h].killed /\ new.state = helpers[h].state
        /\ new.source = helpers[h].source
    BY <1>1, HelperFields
  <2>3. \/ \E on, ok \in BOOLEAN : Mirror!Tell(on, ok)
        \/ UNCHANGED <<passthrough, firmware, unheard>>
    BY <1>1, <1>2 DEF Mirror!Recording, Mirror!toldVars, Mirror!Desired, Flags
  <2> HIDE DEF new
  <2>4. /\ helpers' \in Seq(HelperRecords) /\ Len(helpers') = Len(helpers)
        /\ \A g \in 1..Len(helpers) : /\ helpers'[g].killed = helpers[g].killed
                                      /\ helpers'[g].state = helpers[g].state
                                      /\ helpers'[g].source = helpers[g].source
    BY <1>1, <2>1, <2>2
  <2>5. Engine'
    BY <1>1, <2>1, <2>4 DEF Engine
  <2>6. /\ Flags'
        /\ unheard' \/ firmware' = Sounds' \/ UNCHANGED <<passthrough, firmware, unheard>>
    <3>1. CASE \E on, ok \in BOOLEAN : Mirror!Tell(on, ok)
      BY <2>1, <3>1, Commanded
    <3>2. CASE UNCHANGED <<passthrough, firmware, unheard>>
      BY <1>1, <3>2 DEF Flags
    <3> QED
      BY <2>3, <3>1, <3>2
  <2> QED
    BY <2>1, <2>5, <2>6, HelperChanges
<1>3. CASE Mirror!Unavailable(h)
  <2> DEFINE fail == [helpers[h] EXCEPT !.start = "failed"]
             new == [fail EXCEPT !.killed = TRUE]
  <2>1. /\ helpers' = [helpers EXCEPT ![h] = new]
        /\ UNCHANGED <<wanted, link, process, starting, active, callers, passthrough, firmware,
                       unheard, overtaken>>
    BY <1>1, <1>3 DEF Mirror!Unavailable, Mirror!Kill, Mirror!toldVars
  <2>2. fail \in HelperRecords /\ fail.source = helpers[h].source
    BY <1>1, HelperFields
  <2> HIDE DEF fail
  <2>3. new \in HelperRecords /\ new.killed /\ new.source = helpers[h].source
    BY <2>2, HelperFields
  <2> HIDE DEF new
  <2>4. /\ helpers' \in Seq(HelperRecords) /\ Len(helpers') = Len(helpers)
        /\ helpers'[h] = new
        /\ \A g \in 1..Len(helpers) : g # h => helpers'[g] = helpers[g]
    BY <1>1, <2>1, <2>3
  <2>5. Engine'
    BY <1>1, <2>1, <2>3, <2>4 DEF Engine
  <2> QED
    BY <1>1, <2>1, <2>5, HelperChanges DEF Flags
<1>4. CASE Mirror!Bypassed(h)
  <2>1. /\ passthrough' = TRUE /\ \E on, ok \in BOOLEAN : Mirror!Tell(on, ok)
        /\ UNCHANGED <<wanted, link, process, starting, active, helpers, callers, overtaken>>
    BY <1>4 DEF Mirror!Bypassed, Mirror!engineVars, Mirror!Desired
  <2>2. Flags' /\ (unheard' \/ firmware' = Sounds')
    BY <2>1, Commanded
  <2>3. Engine'
    BY <1>1, <2>1 DEF Engine
  <2> QED
    BY <2>1, <2>2, <2>3, HelperChanges
<1>5. CASE Mirror!Exit(h)
  <2> DEFINE s == IF helpers[h].start = "waits" THEN "failed" ELSE helpers[h].start
             new == [helpers[h] EXCEPT !.state = "gone", !.start = s]
  <2>1. /\ helpers' = [helpers EXCEPT ![h] = new]
        /\ process' = Mirror!ProcessAfterExit(h)
        /\ UNCHANGED <<wanted, link, starting, active, callers, passthrough, firmware, unheard,
                       overtaken>>
    BY <1>1, <1>5 DEF Mirror!Exit, Mirror!toldVars
  <2>2. s \in {"waits", "done", "failed"}
    BY <1>1, HelperFields
  <2> HIDE DEF s
  <2>3. new \in HelperRecords /\ new.state = "gone" /\ new.source = helpers[h].source
    BY <1>1, <2>2 DEF HelperRecords
  <2> HIDE DEF new
  <2>4. /\ helpers' \in Seq(HelperRecords) /\ Len(helpers') = Len(helpers)
        /\ helpers'[h] = new
        /\ \A g \in 1..Len(helpers) : g # h => helpers'[g] = helpers[g]
    BY <1>1, <2>1, <2>3
  <2>5. process' = IF process = h THEN 0 ELSE process
    BY <2>1 DEF Mirror!ProcessAfterExit
  <2>6. Engine'
    BY <1>1, <2>1, <2>3, <2>4, <2>5 DEF Engine
  <2> QED
    BY <1>1, <2>1, <2>5, <2>6, HelperChanges DEF Flags
<1> QED
  BY <1>2, <1>3, <1>4, <1>5

LEMMA MirrorNext == MirrorInv /\ [Mirror!Next]_Mirror!vars => MirrorInv'
<1> SUFFICES ASSUME MirrorInv, [Mirror!Next]_Mirror!vars PROVE MirrorInv'
  OBVIOUS
<1>1. ASSUME NEW c \in Callers,
             \/ Mirror!Configure(c) \/ Mirror!Store(c) \/ Mirror!Toggle(c) \/ Mirror!Reapply(c)
             \/ Mirror!Reapplied(c) \/ Mirror!CloseDevice(c) \/ Mirror!NoController(c)
             \/ Mirror!Noted(c) \/ Mirror!RouteChanged(c) \/ Mirror!UpdateAgain(c)
             \/ Mirror!StopGivesUp(c) \/ Mirror!Restart(c) \/ Mirror!Begun(c)
             \/ Mirror!Started(c) \/ Mirror!Told(c) \/ Mirror!Failed(c) \/ Mirror!Stopped(c)
      PROVE  MirrorInv'
  <2>1. CASE Mirror!Restart(c)
    BY <2>1, WaiterStarts DEF Mirror!Restart, Mirror!toldVars, Waiting
  <2> QED
    BY <1>1, <2>1, StoreKept, ToggleKept, UpdateAgainKept, BegunKept, CommandsKept, CallsKept
<1>2. CASE UNCHANGED Mirror!vars
  <2>1. UNCHANGED <<wanted, link, process, starting, active, helpers, callers, passthrough, firmware,
                    unheard, overtaken>>
    BY <1>2 DEF Mirror!vars, Mirror!engineVars, Mirror!toldVars
  <2>2. Engine' /\ Flags'
    BY <2>1 DEF MirrorInv, MirrorTypes, Engine, Flags
  <2> QED
    BY <2>1, <2>2, HelperChanges
<1> QED
  BY <1>1, <1>2, FoundKept, HelpersKept DEF Mirror!Next, Mirror!Helpers

LEMMA MirrorInvariance == Mirror!Spec => []MirrorInv
<1>1. Mirror!Init => MirrorInv
  <2> SUFFICES ASSUME Mirror!Init PROVE MirrorInv
    OBVIOUS
  <2>1. /\ wanted = "off" /\ process = 0 /\ starting = 0 /\ active = "off" /\ helpers = <<>>
        /\ callers = [c \in Callers |-> Mirror!Idle]
        /\ passthrough = FALSE /\ firmware = FALSE /\ unheard = FALSE
    BY DEF Mirror!Init
  <2>2. /\ Mirror!Idle \in CallerRecords /\ Mirror!Idle.pc = "idle"
        /\ "off" \in Mirrored /\ <<>> \in Seq(HelperRecords) /\ "idle" \notin Waiting
    BY DEF Mirror!Idle, CallerRecords, Mirrored, Steps, Waiting, Elsewhere
  <2>3. MirrorTypes
    BY <2>1, <2>2 DEF MirrorTypes, Flags
  <2>4. NamesSource /\ WantedStarts
    BY <2>1, <2>2 DEF NamesSource, WantedStarts
  <2>5. Engine
    <3>1. Len(helpers) = 0 /\ 1..Len(helpers) = {}
      BY <2>1
    <3>2. helpers \in Seq(HelperRecords) /\ active \in Mirrored
      BY <2>1, <2>2, Zenon
    <3> QED
      BY <2>1, <3>1, <3>2 DEF Engine
  <2>6. FirmwareTold
    BY <2>1 DEF FirmwareTold, Sounds
  <2> QED
    BY <2>3, <2>4, <2>5, <2>6 DEF MirrorInv
<1> QED
  BY <1>1, MirrorNext, PTL DEF Mirror!Spec

(* One helper plays at a time, whatever starts, stops and ends.  When the  *)
(* calls are over it plays what is wanted and can be played, unless a call *)
(* overtook one for another source, and the firmware plays the sound       *)
(* exactly while flag and settings say so, unless a command was not taken, *)
(* not given or named old settings (SystemAudioHapticsEngine,              *)
(* updateSystemAudioHapticsEngine, handleSystemAudioHapticsStatus).        *)
THEOREM MirrorCorrect == Mirror!Spec => []MirrorMatches
<1>1. ASSUME MirrorInv PROVE MirrorMatches
  <2>1. Engine /\ DOMAIN helpers = 1..Len(helpers) /\ Len(helpers) \in Nat
    BY <1>1 DEF MirrorInv, Engine
  <2>2. Mirror!Playing \subseteq {process}
    BY <2>1 DEF Mirror!Playing, Mirror!Helpers, Engine
  <2>3. Mirror!OneMirror
    BY <2>2 DEF Mirror!OneMirror
  <2>4. ASSUME Mirror!AllIdle
        PROVE  /\ overtaken \/ \A h \in Mirror!Playing : /\ h = process
                                                         /\ helpers[h].source = Mirror!Target
               /\ unheard \/ firmware = (passthrough /\ Mirror!Desired)
    <3>1. \A c \in Callers : callers[c].pc = "idle"
      BY <2>4 DEF Mirror!AllIdle, Mirror!Busy
    <3>2. unheard \/ firmware = (passthrough /\ Mirror!Desired)
      BY <1>1, <3>1 DEF MirrorInv, FirmwareTold, Sounds, Mirror!Desired
    <3>3. \A h \in Mirror!Playing : h = process /\ process # 0
      BY <2>1, <2>2 DEF Mirror!Playing, Mirror!Helpers
    <3>4. ~overtaken /\ process # 0 => active = Mirror!Target
      BY <1>1, <3>1 DEF MirrorInv, WantedStarts
    <3>5. overtaken \/ \A h \in Mirror!Playing : /\ h = process
                                                 /\ helpers[h].source = Mirror!Target
      BY <2>1, <3>3, <3>4 DEF Engine
    <3> QED
      BY <3>2, <3>5
  <2> QED
    BY <2>3, <2>4 DEF MirrorMatches, Mirror!MirrorMatches
<1> QED
  BY <1>1, MirrorInvariance, PTL

(***************************************************************************)
(* Updates.  The files: whatever holds the old program is the one that is  *)
(* started, and no download writes it.                                     *)
(***************************************************************************)
DiskRecords == [target : 0..2, temp : 0..3]
ContentRecords == [holds : {Old, New, "empty", "part"}, by : {0, 1, 2}]
StartRecords == [pc : {"idle", "downloading", "verifying", "hashed", "failing"}, file : 0..2]
StoredRecords == [hash : {"", "hash1", "hash2"}, skipped : BOOLEAN, setupSkipped : BOOLEAN]

FileTypes ==
    /\ disk \in DiskRecords /\ disk.temp # disk.target
    /\ content \in [0..2 -> ContentRecords]
    /\ starts \in [{1, 2} -> StartRecords]

OldAlone == \A f \in 0..2 : content[f].holds = Old =>
    /\ f = disk.target
    /\ \A t \in {1, 2} : starts[t].pc # "idle" => starts[t].file # f

OneStart == ~overlapped =>
    /\ \A t, u \in {1, 2} : starts[t].pc # "idle" /\ starts[u].pc # "idle" => t = u
    /\ content[disk.target].holds \in {Old, New}
    /\ \A t \in {1, 2} : starts[t].pc = "hashed" /\ disk.temp # 3 => content[disk.temp].holds = New

NoDowngrade ==
    /\ running \in {Old, New}
    /\ running = New => content[disk.target].holds # Old

FilesSafe == FileTypes /\ OldAlone /\ OneStart /\ NoDowngrade

(* What is recorded of the module's sources is not ahead of the program.   *)
RecordSafe ==
    /\ stored \in StoredRecords
    /\ running = Old /\ changed => stored.hash # "hash2"
    /\ Update!DriverCurrent

UpdateInv == FilesSafe /\ RecordSafe

(* Forget keeps what is started, and of the old program only what a path   *)
(* or a start leads to.                                                    *)
ForgetsOnly(c, d, s, new) ==
    /\ new \in [0..2 -> ContentRecords]
    /\ new[d.target] = c[d.target]
    /\ \A f \in 0..2 : new[f].holds = Old =>
           /\ c[f].holds = Old
           /\ \/ f \in {d.target, d.temp}
              \/ \E t \in {1, 2} : s[t].pc # "idle" /\ s[t].file = f

LEMMA Forgotten ==
    ASSUME NEW c \in [0..2 -> ContentRecords], NEW d \in DiskRecords,
           NEW s \in [{1, 2} -> StartRecords]
    PROVE  ForgetsOnly(c, d, s, Update!Forget(c, d, s))
<1> DEFINE new == Update!Forget(c, d, s)
           none == [holds |-> "empty", by |-> 0]
           kept(f) == f \in {d.target, d.temp} \/ \E t \in {1, 2} : s[t].pc # "idle" /\ s[t].file = f
<1>1. none \in ContentRecords /\ none.holds # Old
  BY VersionsDiffer DEF ContentRecords
<1>2. new = [f \in 0..2 |-> IF kept(f) THEN c[f] ELSE none]
  BY DEF Update!Forget, Update!Files, Update!Starts
<1>3. d.target \in 0..2 /\ d.temp \in 0..3
  BY DEF DiskRecords
<1> HIDE DEF new, none
<1>4. \A f \in 0..2 : new[f] = IF kept(f) THEN c[f] ELSE none
  BY <1>2
<1>5. new \in [0..2 -> ContentRecords]
  BY <1>1, <1>2
<1>6. new[d.target] = c[d.target]
  BY <1>3, <1>4
<1>7. ASSUME NEW f \in 0..2, new[f].holds = Old
      PROVE  c[f].holds = Old /\ kept(f)
  BY <1>1, <1>4, <1>7
<1>8. ForgetsOnly(c, d, s, new)
  BY <1>5, <1>6, <1>7 DEF ForgetsOnly
<1> QED
  BY <1>8 DEF new

(* CheckBegins and Fails remove the file at the temporary path.            *)
LEMMA TempRemoved ==
    ASSUME FilesSafe,
           starts' \in [{1, 2} -> StartRecords],
           \A t \in {1, 2} : starts'[t] = starts[t] \/ starts'[t].pc = "idle",
           disk' = [disk EXCEPT !.temp = 3],
           content' \in [0..2 -> ContentRecords],
           content'[disk.target] = content[disk.target],
           \A f \in 0..2 : content'[f].holds = Old => content[f].holds = Old,
           UNCHANGED <<running, overlapped>>
    PROVE  FilesSafe'
<1>1. disk \in DiskRecords
  BY DEF FilesSafe, FileTypes
<1>2. disk' \in DiskRecords /\ disk'.target = disk.target /\ disk'.temp = 3 /\ disk.target \in 0..2
  BY <1>1 DEF DiskRecords
<1>4. FileTypes'
  BY <1>2 DEF FileTypes
<1>5. OldAlone'
  BY <1>2 DEF FilesSafe, OldAlone
<1>6. OneStart'
  BY <1>2 DEF FilesSafe, OneStart
<1>7. NoDowngrade'
  BY <1>2 DEF FilesSafe, NoDowngrade
<1> QED
  BY <1>4, <1>5, <1>6, <1>7 DEF FilesSafe

LEMMA BeginKept ==
    ASSUME FilesSafe, NEW t \in {1, 2}, Update!Begin(t)
    PROVE  FilesSafe'
<1> DEFINE free(g) == /\ g # disk.target
                      /\ \A u \in {1, 2} : starts[u].pc # "idle" => starts[u].file # g
           f == IF disk.temp = 3 THEN CHOOSE g \in 0..2 : free(g) ELSE disk.temp
           part == [holds |-> "part", by |-> t]
           begun == [pc |-> "downloading", file |-> f]
<1>1. /\ disk \in DiskRecords /\ content \in [0..2 -> ContentRecords]
      /\ starts \in [{1, 2} -> StartRecords] /\ disk.temp # disk.target
  BY DEF FilesSafe, FileTypes
<1>2. /\ starts[t].pc = "idle"
      /\ disk' = [disk EXCEPT !.temp = f]
      /\ starts' = [starts EXCEPT ![t] = begun]
      /\ content' = Update!Forget([content EXCEPT ![f] = part], disk', starts')
      /\ overlapped' = (overlapped \/ \E u \in {1, 2} \ {t} : starts[u].pc # "idle")
      /\ running' = running
  BY DEF Update!Begin, Update!Active, Update!None, Update!Files, Update!Starts, Update!Unowned
<1>3. disk.target \in 0..2 /\ disk.temp \in 0..3 /\ \A u \in {1, 2} : starts[u].file \in 0..2
  BY <1>1 DEF DiskRecords, StartRecords
<1>4. \E g \in 0..2 : free(g)
  <2>1. PICK u \in {1, 2} : u # t
    BY SMT
  <2>2. \A v \in {1, 2} : v = u \/ v = t
    BY <2>1
  <2>3. PICK g \in 0..2 : g # disk.target /\ g # starts[u].file
    BY <1>3
  <2>4. free(g)
    BY <1>2, <2>2, <2>3
  <2> QED
    BY <2>4
<1>5. f \in 0..2 /\ f # disk.target
  <2>1. CASE disk.temp = 3
    <3>1. (CHOOSE g \in 0..2 : free(g)) \in 0..2 /\ free(CHOOSE g \in 0..2 : free(g))
      BY <1>4, Zenon
    <3> QED
      BY <2>1, <3>1
  <2>2. CASE disk.temp # 3
    BY <1>1, <1>3, <2>2
  <2> QED
    BY <2>1, <2>2
<1> HIDE DEF f
<1>6. part \in ContentRecords /\ part.holds \notin {Old, New}
  BY VersionsDiffer DEF ContentRecords
<1>7. begun \in StartRecords /\ begun.pc # "idle" /\ begun.pc # "hashed" /\ begun.file = f
  BY <1>5 DEF StartRecords
<1> HIDE DEF part, begun
<1>8. disk' \in DiskRecords /\ disk'.target = disk.target /\ disk'.temp = f
  BY <1>1, <1>2, <1>5 DEF DiskRecords
<1>9. starts' \in [{1, 2} -> StartRecords] /\ starts'[t] = begun
      /\ \A u \in {1, 2} \ {t} : starts'[u] = starts[u]
  BY <1>1, <1>2, <1>7
<1>10. /\ [content EXCEPT ![f] = part] \in [0..2 -> ContentRecords]
       /\ \A g \in 0..2 \ {f} : [content EXCEPT ![f] = part][g] = content[g]
       /\ [content EXCEPT ![f] = part][f] = part
  BY <1>1, <1>5, <1>6
<1>11. /\ content' \in [0..2 -> ContentRecords]
       /\ content'[disk.target] = content[disk.target]
       /\ \A g \in 0..2 : content'[g].holds = Old => content[g].holds = Old /\ g # f
  <2> DEFINE old == [content EXCEPT ![f] = part]
  <2> HIDE DEF old
  <2>1. old \in [0..2 -> ContentRecords]
    BY <1>10 DEF old
  <2>2. ForgetsOnly(old, disk', starts', Update!Forget(old, disk', starts'))
    BY <1>8, <1>9, <2>1, Forgotten
  <2>3. content' = Update!Forget(old, disk', starts')
    BY <1>2 DEF old
  <2>4. old[f] = part /\ \A g \in 0..2 \ {f} : old[g] = content[g]
    BY <1>10 DEF old
  <2> QED
    BY <1>3, <1>5, <1>6, <1>8, <2>2, <2>3, <2>4 DEF ForgetsOnly
<1>12. FileTypes'
  BY <1>5, <1>8, <1>9, <1>11 DEF FileTypes
<1>13. OldAlone'
  BY <1>7, <1>8, <1>9, <1>11 DEF FilesSafe, OldAlone
<1>14. OneStart'
  <2> SUFFICES ASSUME ~overlapped' PROVE OneStart'
    BY DEF OneStart
  <2>1. ~overlapped /\ \A u \in {1, 2} \ {t} : starts'[u].pc = "idle"
    BY <1>2, <1>9
  <2>2. \A u \in {1, 2} : starts'[u].pc # "idle" => u = t
    BY <2>1
  <2>3. \A u \in {1, 2} : starts'[u].pc # "hashed"
    BY <1>7, <1>9, <2>1
  <2> QED
    BY <1>8, <1>11, <2>1, <2>2, <2>3 DEF FilesSafe, OneStart
<1>15. NoDowngrade'
  BY <1>2, <1>8, <1>11 DEF FilesSafe, NoDowngrade
<1> QED
  BY <1>12, <1>13, <1>14, <1>15 DEF FilesSafe

LEMMA FailsKept ==
    ASSUME FilesSafe, NEW t \in {1, 2}, Update!Fails(t)
    PROVE  FilesSafe'
<1>1. /\ disk \in DiskRecords /\ content \in [0..2 -> ContentRecords]
      /\ starts \in [{1, 2} -> StartRecords]
  BY DEF FilesSafe, FileTypes
<1>2. /\ disk' = [disk EXCEPT !.temp = 3]
      /\ starts' = [starts EXCEPT ![t] = Update!Idle]
      /\ content' = Update!Forget(content, disk', starts')
      /\ UNCHANGED <<running, overlapped>>
  BY DEF Update!Fails, Update!None, Update!Unowned
<1>3. Update!Idle \in StartRecords /\ Update!Idle.pc = "idle"
  BY DEF Update!Idle, StartRecords
<1>4. disk' \in DiskRecords /\ disk'.target = disk.target
  BY <1>1, <1>2 DEF DiskRecords
<1>5. /\ starts' \in [{1, 2} -> StartRecords]
      /\ \A u \in {1, 2} : starts'[u] = starts[u] \/ starts'[u].pc = "idle"
  BY <1>1, <1>2, <1>3
<1>6. /\ content' \in [0..2 -> ContentRecords]
      /\ content'[disk.target] = content[disk.target]
      /\ \A f \in 0..2 : content'[f].holds = Old => content[f].holds = Old
  <2>1. ForgetsOnly(content, disk', starts', Update!Forget(content, disk', starts'))
    BY <1>1, <1>4, <1>5, Forgotten
  <2> QED
    BY <1>2, <1>4, <2>1 DEF ForgetsOnly
<1> QED
  BY <1>2, <1>5, <1>6, TempRemoved

LEMMA CheckBeginsKept ==
    ASSUME FilesSafe, Update!CheckBegins
    PROVE  FilesSafe'
<1>1. /\ disk \in DiskRecords /\ content \in [0..2 -> ContentRecords]
      /\ starts \in [{1, 2} -> StartRecords]
  BY DEF FilesSafe, FileTypes
<1>2. /\ disk' = [disk EXCEPT !.temp = 3]
      /\ content' = Update!Forget(content, disk', starts)
      /\ UNCHANGED <<starts, running, overlapped>>
  BY DEF Update!CheckBegins, Update!None, Update!Unowned
<1>3. disk' \in DiskRecords /\ disk'.target = disk.target
  BY <1>1, <1>2 DEF DiskRecords
<1>4. /\ content' \in [0..2 -> ContentRecords]
      /\ content'[disk.target] = content[disk.target]
      /\ \A f \in 0..2 : content'[f].holds = Old => content[f].holds = Old
  <2>1. ForgetsOnly(content, disk', starts, Update!Forget(content, disk', starts))
    BY <1>1, <1>3, Forgotten
  <2> QED
    BY <1>2, <1>3, <2>1 DEF ForgetsOnly
<1>5. /\ starts' \in [{1, 2} -> StartRecords]
      /\ \A u \in {1, 2} : starts'[u] = starts[u] \/ starts'[u].pc = "idle"
  BY <1>1, <1>2
<1> QED
  BY <1>2, <1>4, <1>5, TempRemoved

LEMMA DownloadedKept ==
    ASSUME FilesSafe, NEW t \in {1, 2}, Update!Downloaded(t)
    PROVE  FilesSafe'
<1> DEFINE f == starts[t].file
           pc == [starts[t] EXCEPT !.pc = "verifying"]
           whole == [content[f] EXCEPT !.holds = New]
<1>1. /\ disk \in DiskRecords /\ content \in [0..2 -> ContentRecords]
      /\ starts \in [{1, 2} -> StartRecords] /\ disk.temp # disk.target
      /\ f \in 0..2 /\ starts[t] \in StartRecords /\ content[f] \in ContentRecords
  BY DEF FilesSafe, FileTypes, StartRecords
<1>2. /\ starts[t].pc = "downloading"
      /\ starts' = [starts EXCEPT ![t] = pc]
      /\ \/ content' = [content EXCEPT ![f] = whole]
         \/ content' = content
      /\ UNCHANGED <<disk, running, overlapped>>
  BY DEF Update!Downloaded, Update!Unowned
<1>3. pc \in StartRecords /\ pc.pc = "verifying" /\ pc.file = f
  BY <1>1 DEF StartRecords
<1>4. whole \in ContentRecords /\ whole.holds = New
  BY <1>1 DEF ContentRecords
<1>5. disk.target \in 0..2 /\ disk.temp \in 0..3
  BY <1>1 DEF DiskRecords
<1> HIDE DEF pc, whole
<1>6. /\ starts' \in [{1, 2} -> StartRecords] /\ starts'[t] = pc
      /\ \A u \in {1, 2} \ {t} : starts'[u] = starts[u]
  BY <1>1, <1>2, <1>3
<1>7. /\ content' \in [0..2 -> ContentRecords]
      /\ \A g \in 0..2 : content'[g] = content[g] \/ content'[g].holds = New
  BY <1>1, <1>2, <1>4
<1>8. \A g \in 0..2 : content'[g].holds = Old => content[g].holds = Old
  BY <1>7, VersionsDiffer
<1>9. FileTypes'
  BY <1>1, <1>2, <1>6, <1>7 DEF FileTypes
<1>10. OldAlone'
  BY <1>2, <1>3, <1>6, <1>8 DEF FilesSafe, OldAlone
<1>11. OneStart'
  <2> SUFFICES ASSUME ~overlapped' PROVE OneStart'
    BY DEF OneStart
  <2>1. \A u \in {1, 2} : starts[u].pc # "idle" => u = t
    BY <1>2 DEF FilesSafe, OneStart
  <2>2. \A u \in {1, 2} : starts'[u].pc # "idle" => u = t
    BY <1>6, <2>1
  <2>3. \A u \in {1, 2} : starts'[u].pc # "hashed"
    BY <1>3, <1>6, <2>1
  <2>4. content'[disk'.target].holds \in {Old, New}
    BY <1>2, <1>5, <1>7 DEF FilesSafe, OneStart
  <2> QED
    BY <2>2, <2>3, <2>4 DEF OneStart
<1>12. NoDowngrade'
  BY <1>2, <1>5, <1>8 DEF FilesSafe, NoDowngrade
<1> QED
  BY <1>9, <1>10, <1>11, <1>12 DEF FilesSafe

LEMMA VerifiedKept ==
    ASSUME FilesSafe, NEW t \in {1, 2}, Update!Verified(t)
    PROVE  FilesSafe'
<1> DEFINE h == Update!Hashed(t)
           pc == [starts[t] EXCEPT !.pc = h]
<1>1. /\ starts \in [{1, 2} -> StartRecords] /\ starts[t] \in StartRecords
  BY DEF FilesSafe, FileTypes
<1>2. /\ starts[t].pc = "verifying"
      /\ starts' = [starts EXCEPT ![t] = pc]
      /\ UNCHANGED <<disk, content, running, overlapped>>
  BY DEF Update!Verified, Update!Unowned
<1>3. /\ h \in {"hashed", "failing"}
      /\ h = "hashed" => content[disk.temp].holds = New
  BY DEF Update!Hashed, Update!None
<1> HIDE DEF h
<1>4. pc \in StartRecords /\ pc.pc = h /\ pc.file = starts[t].file
  BY <1>1, <1>3 DEF StartRecords
<1> HIDE DEF pc
<1>5. /\ starts' \in [{1, 2} -> StartRecords] /\ starts'[t] = pc
      /\ \A u \in {1, 2} \ {t} : starts'[u] = starts[u]
  BY <1>1, <1>2, <1>4
<1>6. FileTypes'
  BY <1>2, <1>5 DEF FilesSafe, FileTypes
<1>7. OldAlone'
  BY <1>2, <1>4, <1>5 DEF FilesSafe, OldAlone
<1>8. OneStart'
  BY <1>2, <1>3, <1>4, <1>5 DEF FilesSafe, OneStart
<1>9. NoDowngrade'
  BY <1>2 DEF FilesSafe, NoDowngrade
<1> QED
  BY <1>6, <1>7, <1>8, <1>9 DEF FilesSafe

LEMMA SwapKept ==
    ASSUME FilesSafe, NEW t \in {1, 2}, Update!Swap(t)
    PROVE  FilesSafe'
<1>1. /\ disk \in DiskRecords /\ content \in [0..2 -> ContentRecords]
      /\ starts \in [{1, 2} -> StartRecords] /\ disk.temp # disk.target
  BY DEF FilesSafe, FileTypes
<1>2. /\ starts[t].pc = "hashed"
      /\ starts' = [starts EXCEPT ![t] = Update!Idle]
      /\ disk' = IF disk.temp = 3 THEN disk ELSE [target |-> disk.temp, temp |-> 3]
      /\ content' = Update!Forget(content, disk', starts')
      /\ UNCHANGED <<running, overlapped>>
  BY DEF Update!Swap, Update!None, Update!Unowned
<1>3. Update!Idle \in StartRecords /\ Update!Idle.pc = "idle"
  BY DEF Update!Idle, StartRecords
<1>4. disk.target \in 0..2 /\ disk.temp \in 0..3
  BY <1>1 DEF DiskRecords
<1>5. /\ disk' \in DiskRecords /\ disk'.temp = 3
      /\ disk'.target = IF disk.temp = 3 THEN disk.target ELSE disk.temp
  BY <1>1, <1>2, <1>4 DEF DiskRecords
<1>6. /\ starts' \in [{1, 2} -> StartRecords] /\ starts'[t].pc = "idle"
      /\ \A u \in {1, 2} \ {t} : starts'[u] = starts[u]
  BY <1>1, <1>2, <1>3
<1>7. /\ content' \in [0..2 -> ContentRecords]
      /\ content'[disk'.target] = content[disk'.target]
      /\ \A f \in 0..2 : content'[f].holds = Old =>
             /\ content[f].holds = Old
             /\ \/ f \in {disk'.target, disk'.temp}
                \/ \E u \in {1, 2} : starts'[u].pc # "idle" /\ starts'[u].file = f
  <2>1. ForgetsOnly(content, disk', starts', Update!Forget(content, disk', starts'))
    BY <1>1, <1>5, <1>6, Forgotten
  <2> QED
    BY <1>2, <2>1 DEF ForgetsOnly
<1>8. FileTypes'
  BY <1>4, <1>5, <1>6, <1>7 DEF FileTypes
<1>9. \A f \in 0..2 : content[f].holds = Old =>
          /\ f = disk.target
          /\ \A u \in {1, 2} : starts[u].pc # "idle" => starts[u].file # f
  BY DEF FilesSafe, OldAlone
<1>10. \A f \in 0..2 : content'[f].holds = Old => f = disk'.target
  BY <1>4, <1>5, <1>6, <1>7, <1>9
<1>11. OldAlone'
  BY <1>6, <1>7, <1>9, <1>10 DEF OldAlone
<1>12. OneStart'
  <2> SUFFICES ASSUME ~overlapped' PROVE OneStart'
    BY DEF OneStart
  <2>1. \A u \in {1, 2} : starts'[u].pc = "idle"
    BY <1>2, <1>6 DEF FilesSafe, OneStart
  <2>2. content[disk'.target].holds \in {Old, New}
    BY <1>2, <1>5 DEF FilesSafe, OneStart
  <2> QED
    BY <1>7, <2>1, <2>2 DEF OneStart
<1>13. NoDowngrade'
  <2>1. disk.temp # 3 => content[disk.temp].holds # Old
    BY <1>1, <1>4, <1>9
  <2> QED
    BY <1>2, <1>5, <1>7, <2>1 DEF FilesSafe, NoDowngrade
<1> QED
  BY <1>8, <1>11, <1>12, <1>13 DEF FilesSafe

(* A new process runs what the path holds, and no start of the old one.    *)
LEMMA LaunchKept ==
    ASSUME FilesSafe, Update!Launch
    PROVE  /\ FilesSafe'
           /\ running' = Old => running = Old
<1>1. /\ disk \in DiskRecords /\ content \in [0..2 -> ContentRecords]
      /\ disk.temp # disk.target /\ disk.target \in 0..2
  BY DEF FilesSafe, FileTypes, DiskRecords
<1>2. /\ content[disk.target].holds \in {Old, New}
      /\ running' = content[disk.target].holds
      /\ starts' = [u \in {1, 2} |-> Update!Idle]
      /\ content' = Update!Forget(content, disk, starts')
      /\ overlapped' = FALSE
      /\ disk' = disk
  BY DEF Update!Launch, Update!Whole, Update!Starts
<1>3. Update!Idle \in StartRecords /\ Update!Idle.pc = "idle"
  BY DEF Update!Idle, StartRecords
<1>4. starts' \in [{1, 2} -> StartRecords] /\ \A u \in {1, 2} : starts'[u].pc = "idle"
  BY <1>2, <1>3
<1>5. /\ content' \in [0..2 -> ContentRecords]
      /\ content'[disk.target] = content[disk.target]
      /\ \A f \in 0..2 : content'[f].holds = Old => content[f].holds = Old
  <2>1. ForgetsOnly(content, disk, starts', Update!Forget(content, disk, starts'))
    BY <1>1, <1>4, Forgotten
  <2> QED
    BY <1>2, <2>1 DEF ForgetsOnly
<1>6. FileTypes'
  BY <1>1, <1>2, <1>4, <1>5 DEF FileTypes
<1>7. OldAlone'
  BY <1>2, <1>4, <1>5 DEF FilesSafe, OldAlone
<1>8. OneStart'
  BY <1>2, <1>4, <1>5 DEF OneStart
<1>9. NoDowngrade'
  BY <1>2, <1>5, VersionsDiffer DEF NoDowngrade
<1>10. running' = Old => running = Old
  BY <1>2 DEF FilesSafe, NoDowngrade
<1> QED
  BY <1>6, <1>7, <1>8, <1>9, <1>10 DEF FilesSafe

LEMMA FilesUntouched ==
    ASSUME FilesSafe, UNCHANGED <<disk, content, starts, overlapped, running>>
    PROVE  FilesSafe'
BY DEF FilesSafe, FileTypes, OldAlone, OneStart, NoDowngrade

(* What is recorded stays, and an installer puts in what runs, or nothing. *)
LEMMA RecordStays ==
    ASSUME RecordSafe, stored' \in StoredRecords, stored'.hash = stored.hash,
           driver' \in {driver, running}, UNCHANGED <<running, changed>>
    PROVE  RecordSafe'
BY DEF RecordSafe, Update!DriverCurrent, Update!Hash

(* What is recorded is the hash of what is installed.                      *)
LEMMA Recorded ==
    ASSUME RecordSafe, stored' = [stored EXCEPT !.hash = Update!Hash(running)],
           driver' = running, UNCHANGED <<running, changed>>
    PROVE  RecordSafe'
<1>1. /\ Update!Hash(running) \in {"hash1", "hash2"}
      /\ running = Old /\ changed => Update!Hash(running) # "hash2"
  BY VersionsDiffer DEF Update!Hash
<1>2. /\ stored' \in StoredRecords /\ stored'.hash = Update!Hash(running)
  <2> DEFINE h == Update!Hash(running)
  <2>1. h \in {"", "hash1", "hash2"} /\ stored \in StoredRecords
    BY <1>1 DEF RecordSafe
  <2>2. stored' = [stored EXCEPT !.hash = h]
    OBVIOUS
  <2> HIDE DEF h
  <2>3. stored' \in StoredRecords /\ stored'.hash = h
    BY <2>1, <2>2 DEF StoredRecords
  <2> QED
    BY <2>3 DEF h
<1> QED
  BY <1>1, <1>2 DEF RecordSafe, Update!DriverCurrent, Update!Hash

LEMMA RebuildKept ==
    ASSUME RecordSafe, NEW who, NEW recorded, NEW then,
           Update!RebuildIfNeeded(who, recorded, then),
           UNCHANGED <<driver, running, changed>>
    PROVE  RecordSafe'
<1>1. CASE stored' = stored
  <2>1. stored' \in StoredRecords /\ stored'.hash = stored.hash /\ driver' \in {driver, running}
    BY <1>1 DEF RecordSafe
  <2> QED
    BY <2>1, RecordStays
<1>2. CASE stored' # stored
  <2>1. /\ Update!Rebuild(recorded) = "adopt"
        /\ stored' = [stored EXCEPT !.hash = Update!Hash(running)]
    BY <1>2 DEF Update!RebuildIfNeeded
  <2>2. driver = running
    BY <2>1 DEF Update!Rebuild
  <2> QED
    BY <2>1, <2>2, Recorded
<1> QED
  BY <1>1, <1>2

LEMMA RebuildEndsKept ==
    ASSUME RecordSafe, NEW who, NEW ok \in BOOLEAN, Update!RebuildEnds(who, ok)
    PROVE  RecordSafe'
<1>1. UNCHANGED <<running, changed>>
  BY DEF Update!RebuildEnds, Update!Unowned
<1>2. CASE ok
  BY <1>1, <1>2, Recorded DEF Update!RebuildEnds, Update!Exit, Update!Records
<1>3. CASE ~ok
  <2>1. stored' = stored /\ driver' \in {driver, running}
    BY <1>3 DEF Update!RebuildEnds, Update!Exit, Update!Records
  <2>2. stored' \in StoredRecords
    BY <2>1 DEF RecordSafe
  <2> QED
    BY <1>1, <2>1, <2>2, RecordStays
<1> QED
  BY <1>2, <1>3

(* An installer that outlives its program put in what that program was.    *)
LEMMA LaunchRecords ==
    ASSUME UpdateInv, Update!Launch
    PROVE  RecordSafe'
<1>1. /\ stored' = stored /\ changed' = changed
      /\ driver' \in {driver, running}
      /\ running' \in {Old, New}
      /\ running' = Old => running = Old
      /\ running \in {Old, New}
  BY LaunchKept DEF UpdateInv, Update!Launch, Update!Whole, FilesSafe, NoDowngrade
<1>2. stored \in StoredRecords
  BY DEF UpdateInv, RecordSafe
<1>3. running' = Old /\ changed' => stored'.hash # "hash2"
  BY <1>1 DEF UpdateInv, RecordSafe
<1>4. Update!DriverCurrent'
  <2> SUFFICES ASSUME stored'.hash = Update!Hash(running)', driver' # "none"
               PROVE  Update!Hash(driver)' = Update!Hash(running)'
    BY DEF Update!DriverCurrent
  <2>1. CASE running' = running
    BY <1>1, <2>1 DEF UpdateInv, RecordSafe, Update!DriverCurrent, Update!Hash
  <2>2. CASE running' # running
    <3>1. running = Old /\ running' = New
      BY <1>1, <2>2
    <3>2. ~changed
      BY <1>1, <3>1 DEF UpdateInv, RecordSafe, Update!Hash
    <3> QED
      BY <1>1, <3>2 DEF Update!Hash
  <2> QED
    BY <2>1, <2>2
<1> QED
  BY <1>1, <1>2, <1>3, <1>4 DEF RecordSafe

LEMMA WizardKept ==
    ASSUME RecordSafe,
           \/ Update!Review \/ Update!StartInstall \/ Update!Skip \/ Update!Finish \/ Update!Dismiss
           \/ \E ok \in BOOLEAN : Update!WizardInstallEnds(ok)
           \/ Update!Shown \/ Update!SkipVersion \/ Update!RemindLater \/ Update!CheckEnds
    PROVE  RecordSafe' /\ UNCHANGED <<disk, content, starts, overlapped, running>>
<1>1. UNCHANGED <<disk, content, starts, overlapped, running, changed>>
  BY DEF Update!Review, Update!StartInstall, Update!Skip, Update!Finish, Update!Dismiss,
         Update!WizardInstallEnds, Update!Shown, Update!SkipVersion, Update!RemindLater,
         Update!CheckEnds, Update!Close, Update!Downloads, Update!Unowned
<1>2. driver' \in {driver, running}
  BY DEF Update!Review, Update!StartInstall, Update!Skip, Update!Finish, Update!Dismiss,
         Update!WizardInstallEnds, Update!Shown, Update!SkipVersion, Update!RemindLater,
         Update!CheckEnds, Update!Close, Update!Exit, Update!Wizards
<1>3. \/ stored' = stored
      \/ \E skipped \in {TRUE, FALSE, stored.setupSkipped} :
             stored' = [stored EXCEPT !.setupSkipped = skipped]
      \/ stored' = [stored EXCEPT !.skipped = TRUE]
  BY DEF Update!Review, Update!StartInstall, Update!Skip, Update!Finish, Update!Dismiss,
         Update!WizardInstallEnds, Update!Shown, Update!SkipVersion, Update!RemindLater,
         Update!CheckEnds, Update!Close
<1>4. stored' \in StoredRecords /\ stored'.hash = stored.hash
  <2>1. stored \in StoredRecords /\ stored.setupSkipped \in BOOLEAN
    BY DEF RecordSafe, StoredRecords
  <2>2. ASSUME NEW b \in BOOLEAN
        PROVE  /\ [stored EXCEPT !.setupSkipped = b] \in StoredRecords
               /\ [stored EXCEPT !.setupSkipped = b].hash = stored.hash
               /\ [stored EXCEPT !.skipped = b] \in StoredRecords
               /\ [stored EXCEPT !.skipped = b].hash = stored.hash
    BY <2>1 DEF StoredRecords
  <2> QED
    BY <1>3, <2>1, <2>2
<1> QED
  BY <1>1, <1>2, <1>4, RecordStays

LEMMA UpdateNext == UpdateInv /\ [Update!Next]_Update!vars => UpdateInv'
<1> SUFFICES ASSUME UpdateInv, [Update!Next]_Update!vars PROVE UpdateInv'
  OBVIOUS
<1>1. FilesSafe /\ RecordSafe
  BY DEF UpdateInv
<1>2. CASE \/ Update!Review \/ Update!StartInstall \/ Update!Skip \/ Update!Finish \/ Update!Dismiss
           \/ \E ok \in BOOLEAN : Update!WizardInstallEnds(ok)
           \/ Update!Shown \/ Update!SkipVersion \/ Update!RemindLater \/ Update!CheckEnds
  BY <1>1, <1>2, WizardKept, FilesUntouched DEF UpdateInv
<1>3. ASSUME NEW ok \in BOOLEAN, NEW who, Update!RebuildEnds(who, ok)
      PROVE  UpdateInv'
  <2>1. UNCHANGED <<disk, content, starts, overlapped, running>>
    BY <1>3 DEF Update!RebuildEnds, Update!Downloads, Update!Unowned
  <2> QED
    BY <1>1, <1>3, <2>1, RebuildEndsKept, FilesUntouched DEF UpdateInv
<1>4. CASE Update!CheckBegins
  <2>1. /\ Update!RebuildIfNeeded("check", stored.hash, "fetching")
        /\ UNCHANGED <<driver, running, changed>>
    BY <1>4 DEF Update!CheckBegins, Update!Unowned
  <2> QED
    BY <1>1, <1>4, <2>1, CheckBeginsKept, RebuildKept DEF UpdateInv
<1>5. CASE Update!TryRebuild
  <2>1. /\ Update!RebuildIfNeeded("retry", "", check)
        /\ UNCHANGED <<driver, running, changed>>
        /\ UNCHANGED <<disk, content, starts, overlapped, running>>
    BY <1>5 DEF Update!TryRebuild, Update!Unowned, Update!Downloads
  <2> QED
    BY <1>1, <2>1, FilesUntouched, RebuildKept DEF UpdateInv
<1>6. ASSUME NEW t \in {1, 2},
             \/ Update!Begin(t) \/ Update!Downloaded(t) \/ Update!Verified(t) \/ Update!Swap(t)
             \/ Update!Fails(t)
      PROVE  UpdateInv'
  <2>1. UNCHANGED <<stored, driver, running, changed>>
    BY <1>6 DEF Update!Begin, Update!Downloaded, Update!Verified, Update!Swap, Update!Fails,
                Update!Wizards, Update!Unowned
  <2>2. RecordSafe'
    BY <1>1, <2>1 DEF RecordSafe, Update!DriverCurrent, Update!Hash
  <2> QED
    BY <1>1, <1>6, <2>2, BeginKept, DownloadedKept, VerifiedKept, SwapKept, FailsKept DEF UpdateInv
<1>7. CASE Update!Launch
  BY <1>1, <1>7, LaunchKept, LaunchRecords DEF UpdateInv
<1>8. CASE UNCHANGED Update!vars
  <2>1. /\ UNCHANGED <<disk, content, starts, overlapped, running>>
        /\ UNCHANGED <<stored, driver, changed>>
    BY <1>8 DEF Update!vars
  <2>2. RecordSafe'
    BY <1>1, <2>1 DEF RecordSafe, Update!DriverCurrent, Update!Hash
  <2> QED
    BY <1>1, <2>1, <2>2, FilesUntouched DEF UpdateInv
<1> QED
  BY <1>2, <1>3, <1>4, <1>5, <1>6, <1>7, <1>8 DEF Update!Next, Update!Starts

LEMMA UpdateInvariance == Update!Spec => []UpdateInv
<1>1. Update!Init => UpdateInv
  <2> SUFFICES ASSUME Update!Init PROVE UpdateInv
    OBVIOUS
  <2> DEFINE first == [holds |-> Old, by |-> 0]
             empty == [holds |-> "empty", by |-> 0]
  <2>1. /\ disk = [target |-> 0, temp |-> 3]
        /\ content = [f \in 0..2 |-> [holds |-> IF f = 0 THEN Old ELSE "empty", by |-> 0]]
        /\ starts = [t \in {1, 2} |-> Update!Idle]
        /\ running = Old /\ overlapped = FALSE /\ driver \in {Old, "none"}
        /\ \E h \in {"", "hash1"} : stored = [hash |-> h, skipped |-> FALSE, setupSkipped |-> FALSE]
    BY DEF Update!Init, Update!None, Update!Files, Update!Starts
  <2>2. disk \in DiskRecords /\ disk.target = 0 /\ disk.temp = 3
    <3>1. disk = [target |-> 0, temp |-> 3]
      BY <2>1
    <3> QED
      BY <3>1 DEF DiskRecords
  <2>3. Update!Idle \in StartRecords /\ Update!Idle.pc = "idle"
    BY DEF Update!Idle, StartRecords
  <2>4. starts \in [{1, 2} -> StartRecords] /\ \A t \in {1, 2} : starts[t].pc = "idle"
    BY <2>1, <2>3
  <2>5. /\ first \in ContentRecords /\ first.holds = Old
        /\ empty \in ContentRecords /\ empty.holds # Old
    BY VersionsDiffer DEF ContentRecords
  <2>6. content = [f \in 0..2 |-> IF f = 0 THEN first ELSE empty]
    BY <2>1
  <2> HIDE DEF first, empty
  <2>7. /\ content \in [0..2 -> ContentRecords] /\ content[0].holds = Old
        /\ \A f \in 0..2 : content[f].holds = Old => f = 0
    BY <2>5, <2>6
  <2>8. FilesSafe
    <3>1. running = Old
      BY <2>1
    <3>2. FileTypes
      BY <2>2, <2>4, <2>7 DEF FileTypes
    <3>3. OldAlone /\ OneStart
      BY <2>2, <2>4, <2>7 DEF OldAlone, OneStart
    <3>4. NoDowngrade
      BY <3>1, VersionsDiffer DEF NoDowngrade
    <3> QED
      BY <3>2, <3>3, <3>4 DEF FilesSafe
  <2>9. stored \in StoredRecords /\ stored.hash \in {"", "hash1"}
    <3>1. PICK h \in {"", "hash1"} : stored = [hash |-> h, skipped |-> FALSE, setupSkipped |-> FALSE]
      BY <2>1
    <3>2. [hash |-> h, skipped |-> FALSE, setupSkipped |-> FALSE] \in StoredRecords
      BY DEF StoredRecords
    <3> QED
      BY <3>1, <3>2
  <2>10. RecordSafe
    BY <2>1, <2>9 DEF RecordSafe, Update!DriverCurrent, Update!Hash
  <2> QED
    BY <2>8, <2>10 DEF UpdateInv
<1> QED
  BY <1>1, UpdateNext, PTL DEF Update!Spec

(* Whatever fails, is killed or is repeated, the program can be started,   *)
(* unless two starts wrote one file; and a recorded hash of the sources    *)
(* means that the installed module was built from them (update-service.ts  *)
(* start and rebuildIfNeeded, appimage-updater.ts swapInPlace).            *)
THEOREM UpdateCorrect == Update!Spec => []UpdateSafe
<1>1. UpdateInv => UpdateSafe
  BY DEF UpdateInv, FilesSafe, OneStart, RecordSafe, UpdateSafe, Update!UpdateSafe,
         Update!TargetWhole, Update!Whole
<1> QED
  BY <1>1, UpdateInvariance, PTL

(***************************************************************************)
(* The switch of persona.                                                  *)
(***************************************************************************)
Shown == HostPersonas \cup {"none"}
UsbRecords == [persona : HostPersonas, wants : HostPersonas, present : BOOLEAN, controller : BOOLEAN]
StatusRecords == [persona : Shown, connected : BOOLEAN]
TransitionRecords == [from : Shown, to : Shown, completed : BOOLEAN]
RestoreRecords == [to : Shown, of : Nat, late : BOOLEAN]
PollRecords == [pc : {"idle", "reading", "shown", "restoring"}, status : StatusRecords,
                masked : BOOLEAN, restore : RestoreRecords]
SwitchRecords == [pc : {"idle", "checking", "sending", "stopping"}, to : Shown, from : Shown,
                  moves : BOOLEAN]

PersonaTypes ==
    /\ usb \in UsbRecords
    /\ setting \in HostPersonas
    /\ output \in BOOLEAN /\ device \in BOOLEAN /\ closing \in BOOLEAN
    /\ status \in StatusRecords
    /\ transition \in TransitionRecords
    /\ restore \in RestoreRecords
    /\ poll \in PollRecords
    /\ switching \in [Callers -> SwitchRecords]
    /\ \A c \in Callers : switching[c].pc # "idle" => switching[c].to \in HostPersonas
    /\ connected \in {"unknown", "yes", "no"}
    /\ switches \in Nat /\ losses \in Nat /\ toasts \in Nat

(* The device was told the persona that is stored.                         *)
WantsSetting == "mask" \notin excused =>
    /\ usb.wants = setting
    /\ transition # Persona!NoTransition => transition.to = setting

Plain == "stale" \notin excused /\ "mask" \notin excused /\ "late" \notin excused

Hides == transition # Persona!NoTransition /\ ~transition.completed

(* A device on its way to another persona is hidden by a transition.       *)
LeavingHides == Plain /\ usb.wants # usb.persona => Hides

(* While every loss was shown, a controller that is shown is there, unless *)
(* a transition hides that it is not.                                      *)
Even == toasts = losses
Here == usb.controller /\ (usb.present \/ usb.wants # usb.persona)
LossesShown == Plain =>
    /\ toasts <= losses
    /\ Even /\ connected = "yes"
       => Here /\ (poll.pc = "reading" => poll.status.connected)
    /\ Even /\ poll.pc = "reading" /\ poll.status.connected /\ device => Here
    /\ Even /\ connected = "yes" /\ closing /\ ~device => Hides

(* The output is there or waits for the persona the device was told.       *)
OutputReturns == "output" \notin excused =>
    /\ output \/ restore # Persona!NoRestore
    /\ usb.wants # usb.persona => restore # Persona!NoRestore
    /\ restore # Persona!NoRestore => restore.to = usb.wants
    /\ poll.pc # "idle" /\ restore = Persona!NoRestore => poll.status.persona = usb.persona
    /\ poll.pc # "idle" /\ restore # Persona!NoRestore /\ poll.status.persona = restore.to
       => usb.persona = usb.wants
    /\ poll.pc = "restoring" =>
          /\ restore # Persona!NoRestore
          /\ poll.restore.to = restore.to /\ poll.status.persona = restore.to

PersonaInv == PersonaTypes /\ WantsSetting /\ LeavingHides /\ LossesShown /\ OutputReturns

LEMMA UsbFields ==
    ASSUME NEW u \in UsbRecords
    PROVE  /\ u.persona \in HostPersonas /\ u.wants \in HostPersonas
           /\ u.present \in BOOLEAN /\ u.controller \in BOOLEAN
BY DEF UsbRecords

LEMMA UsbPresent ==
    ASSUME NEW u \in UsbRecords, NEW b \in BOOLEAN
    PROVE  /\ [u EXCEPT !.present = b] \in UsbRecords
           /\ [u EXCEPT !.present = b].present = b
           /\ [u EXCEPT !.present = b].persona = u.persona
           /\ [u EXCEPT !.present = b].wants = u.wants
           /\ [u EXCEPT !.present = b].controller = u.controller
BY DEF UsbRecords

LEMMA UsbController ==
    ASSUME NEW u \in UsbRecords, NEW b \in BOOLEAN
    PROVE  /\ [u EXCEPT !.controller = b] \in UsbRecords
           /\ [u EXCEPT !.controller = b].controller = b
           /\ [u EXCEPT !.controller = b].persona = u.persona
           /\ [u EXCEPT !.controller = b].wants = u.wants
           /\ [u EXCEPT !.controller = b].present = u.present
BY DEF UsbRecords

LEMMA UsbWants ==
    ASSUME NEW u \in UsbRecords, NEW p \in HostPersonas
    PROVE  /\ [u EXCEPT !.wants = p] \in UsbRecords
           /\ [u EXCEPT !.wants = p].wants = p
           /\ [u EXCEPT !.wants = p].persona = u.persona
           /\ [u EXCEPT !.wants = p].present = u.present
           /\ [u EXCEPT !.wants = p].controller = u.controller
BY DEF UsbRecords

LEMMA PersonaRecords ==
    /\ Persona!NoStatus \in StatusRecords
    /\ Persona!NoTransition \in TransitionRecords /\ Persona!NoTransition.to = "none"
    /\ Persona!NoRestore \in RestoreRecords
    /\ Persona!NoRestore.to = "none" /\ Persona!NoRestore.late = FALSE
    /\ Persona!IdlePoll \in PollRecords /\ Persona!IdlePoll.pc = "idle"
    /\ Persona!IdleCall \in SwitchRecords /\ Persona!IdleCall.pc = "idle"
<1>1. FALSE \in BOOLEAN /\ "none" \in Shown /\ 0 \in Nat
  BY DEF Shown
<1>2. Persona!NoStatus \in StatusRecords
  BY <1>1 DEF Persona!NoStatus, StatusRecords
<1>3. Persona!NoTransition \in TransitionRecords /\ Persona!NoTransition.to = "none"
  BY <1>1 DEF Persona!NoTransition, TransitionRecords
<1>4. /\ Persona!NoRestore \in RestoreRecords
      /\ Persona!NoRestore.to = "none" /\ Persona!NoRestore.late = FALSE
  BY <1>1 DEF Persona!NoRestore, RestoreRecords
<1>5. Persona!IdlePoll \in PollRecords /\ Persona!IdlePoll.pc = "idle"
  BY <1>1, <1>2, <1>4 DEF Persona!IdlePoll, PollRecords
<1>6. Persona!IdleCall \in SwitchRecords /\ Persona!IdleCall.pc = "idle"
  BY <1>1 DEF Persona!IdleCall, SwitchRecords
<1> QED
  BY <1>2, <1>3, <1>4, <1>5, <1>6

(* What the parts of the invariant look at.                                *)
LEMMA SeenUnchanged ==
    ASSUME PersonaInv
    PROVE  /\ UNCHANGED <<usb, setting, transition, excused>> => WantsSetting' /\ LeavingHides'
           /\ UNCHANGED <<usb, transition, excused, toasts, losses, connected, poll, device,
                          closing>> => LossesShown'
           /\ UNCHANGED <<usb, output, restore, poll, excused>> => OutputReturns'
<1>1. UNCHANGED <<usb, setting, transition, excused>> => WantsSetting' /\ LeavingHides'
  BY DEF PersonaInv, WantsSetting, LeavingHides, Plain, Hides
<1>2. UNCHANGED <<usb, transition, excused, toasts, losses, connected, poll, device, closing>>
      => LossesShown'
  BY DEF PersonaInv, LossesShown, Plain, Hides, Here, Even
<1>3. UNCHANGED <<usb, output, restore, poll, excused>> => OutputReturns'
  BY DEF PersonaInv, OutputReturns
<1> QED
  BY <1>1, <1>2, <1>3

LEMMA DeviceComesAndGoes ==
    ASSUME PersonaInv,
           Persona!Leaves \/ Persona!Returns \/ Persona!Unplugged \/ Persona!ControllerChanges
    PROVE  PersonaInv'
<1>1. PersonaTypes /\ usb \in UsbRecords /\ losses \in Nat /\ toasts \in Nat
  BY DEF PersonaInv, PersonaTypes
<1>2. /\ usb.persona \in HostPersonas /\ usb.wants \in HostPersonas
      /\ usb.present \in BOOLEAN /\ usb.controller \in BOOLEAN
      /\ TRUE \in BOOLEAN /\ FALSE \in BOOLEAN /\ (~usb.controller) \in BOOLEAN
  BY <1>1, UsbFields
<1>3. UNCHANGED <<device, setting, status, connected, toasts, transition, restore, poll, closing,
                  switching, switches>>
  BY DEF Persona!Leaves, Persona!Returns, Persona!Unplugged, Persona!ControllerChanges,
         Persona!shownVars
<1>4. CASE Persona!Leaves
  <2>1. /\ usb.present /\ usb.wants # usb.persona
        /\ usb' = [usb EXCEPT !.present = FALSE] /\ output' = FALSE
        /\ UNCHANGED <<losses, excused>>
    BY <1>4 DEF Persona!Leaves
  <2>2. /\ usb' \in UsbRecords /\ usb'.persona = usb.persona /\ usb'.wants = usb.wants
        /\ usb'.controller = usb.controller
    BY <1>1, <1>2, <2>1, UsbPresent
  <2>3. PersonaTypes'
    BY <1>1, <1>3, <2>1, <2>2 DEF PersonaTypes
  <2>4. WantsSetting' /\ LeavingHides'
    BY <1>3, <2>1, <2>2 DEF PersonaInv, WantsSetting, LeavingHides, Plain, Hides
  <2>5. LossesShown'
    BY <1>3, <2>1, <2>2 DEF PersonaInv, LossesShown, Plain, Hides, Here, Even
  <2>6. OutputReturns'
    BY <1>3, <2>1, <2>2 DEF PersonaInv, OutputReturns
  <2> QED
    BY <2>3, <2>4, <2>5, <2>6 DEF PersonaInv
<1>5. CASE Persona!Returns
  <2>1. /\ ~usb.present
        /\ usb' = [usb EXCEPT !.present = TRUE, !.persona = usb.wants]
        /\ UNCHANGED <<losses, excused, output>>
    BY <1>5 DEF Persona!Returns
  <2>2. /\ usb' \in UsbRecords /\ usb'.persona = usb.wants /\ usb'.wants = usb.wants
        /\ usb'.controller = usb.controller /\ usb'.present
    <3> DEFINE b == TRUE
               new == [usb EXCEPT !.present = b, !.persona = usb.wants]
    <3>1. usb' = new
      BY <2>1
    <3>4. usb \in UsbRecords /\ usb.wants \in HostPersonas /\ b \in BOOLEAN
      BY <1>1, <1>2
    <3> HIDE DEF b
    <3>2. /\ new \in UsbRecords /\ new.present = b /\ new.persona = usb.wants
          /\ new.wants = usb.wants /\ new.controller = usb.controller
      BY <3>4 DEF UsbRecords
    <3> QED
      BY <3>1, <3>2 DEF b
  <2>3. PersonaTypes'
    BY <1>1, <1>3, <2>1, <2>2 DEF PersonaTypes
  <2>4. WantsSetting' /\ LeavingHides'
    BY <1>3, <2>1, <2>2 DEF PersonaInv, WantsSetting, LeavingHides, Plain, Hides
  <2>5. LossesShown'
    BY <1>3, <2>1, <2>2 DEF PersonaInv, LossesShown, Plain, Hides, Here, Even
  <2>6. OutputReturns'
    BY <1>3, <2>1, <2>2 DEF PersonaInv, OutputReturns
  <2> QED
    BY <2>3, <2>4, <2>5, <2>6 DEF PersonaInv
<1>6. CASE Persona!Unplugged
  <2>1. /\ usb' = [usb EXCEPT !.present = FALSE] /\ output' = FALSE /\ losses' = losses + 1
        /\ excused' = IF output THEN excused \cup {"output"} ELSE excused
    BY <1>6 DEF Persona!Unplugged
  <2>2. /\ usb' \in UsbRecords /\ usb'.persona = usb.persona /\ usb'.wants = usb.wants
        /\ usb'.controller = usb.controller
    BY <1>1, <1>2, <2>1, UsbPresent
  <2>3. PersonaTypes'
    <3>1. losses' \in Nat
      BY <1>1, <2>1
    <3>2. output' \in BOOLEAN
      BY <2>1, Zenon
    <3> QED
      BY <1>1, <1>3, <2>2, <3>1, <3>2 DEF PersonaTypes
  <2>4. WantsSetting' /\ LeavingHides'
    BY <1>3, <2>1, <2>2 DEF PersonaInv, WantsSetting, LeavingHides, Plain, Hides
  <2>5. Plain => toasts <= losses
    BY DEF PersonaInv, LossesShown
  <2>6. Plain' => Plain /\ toasts' < losses' /\ ~Even'
    BY <1>1, <1>3, <2>1, <2>5 DEF Plain, Even
  <2>7. LossesShown'
    BY <1>1, <1>3, <2>1, <2>6 DEF LossesShown
  <2>8. OutputReturns'
    BY <1>3, <2>1, <2>2 DEF PersonaInv, OutputReturns
  <2> QED
    BY <2>3, <2>4, <2>7, <2>8 DEF PersonaInv
<1>7. CASE Persona!ControllerChanges
  <2>1. /\ usb' = [usb EXCEPT !.controller = ~usb.controller]
        /\ losses' = IF usb.controller THEN losses + 1 ELSE losses
        /\ UNCHANGED <<excused, output>>
    BY <1>7 DEF Persona!ControllerChanges
  <2> DEFINE b == ~usb.controller
             new == [usb EXCEPT !.controller = b]
  <2>9. usb' = new /\ b \in BOOLEAN
    BY <2>1
  <2> HIDE DEF b
  <2>10. /\ new \in UsbRecords /\ new.persona = usb.persona /\ new.wants = usb.wants
         /\ new.present = usb.present /\ new.controller = b
    BY <1>1, <2>9, UsbController
  <2> HIDE DEF new
  <2>2. /\ usb' \in UsbRecords /\ usb'.persona = usb.persona /\ usb'.wants = usb.wants
        /\ usb'.present = usb.present
    BY <2>9, <2>10
  <2>3. usb'.controller = b
    BY <2>9, <2>10
  <2>4. PersonaTypes'
    BY <1>1, <1>3, <2>1, <2>2 DEF PersonaTypes
  <2>5. WantsSetting' /\ LeavingHides'
    BY <1>3, <2>1, <2>2 DEF PersonaInv, WantsSetting, LeavingHides, Plain, Hides
  <2>6. LossesShown'
    <3>1. CASE usb.controller
      <4>1. Plain' => Plain /\ toasts' < losses' /\ ~Even'
        BY <1>1, <1>3, <2>1, <3>1 DEF PersonaInv, LossesShown, Plain, Even
      <4> QED
        BY <1>1, <1>3, <2>1, <4>1 DEF LossesShown
    <3>2. CASE ~usb.controller
      <4>1. losses' = losses /\ usb'.controller
        BY <2>1, <2>3, <3>2 DEF b
      <4> QED
        BY <1>3, <2>1, <2>2, <3>2, <4>1 DEF PersonaInv, LossesShown, Plain, Hides, Here, Even
    <3> QED
      BY <3>1, <3>2
  <2>7. OutputReturns'
    BY <1>3, <2>1, <2>2 DEF PersonaInv, OutputReturns
  <2> QED
    BY <2>4, <2>5, <2>6, <2>7 DEF PersonaInv
<1> QED
  BY <1>4, <1>5, <1>6, <1>7

LEMMA DeadlinesPass ==
    ASSUME PersonaInv, Persona!DeadlinePasses \/ Persona!RestoreDeadlinePasses
    PROVE  PersonaInv'
<1>1. PersonaTypes /\ restore \in RestoreRecords
  BY DEF PersonaInv, PersonaTypes
<1>2. CASE Persona!DeadlinePasses
  <2>1. /\ transition' = Persona!NoTransition
        /\ excused' = IF transition.completed THEN excused ELSE excused \cup {"late"}
        /\ UNCHANGED <<usb, output, losses, device, setting, status, connected, toasts, restore,
                       poll, closing, switching, switches>>
    BY <1>2 DEF Persona!DeadlinePasses, Persona!deviceVars, Persona!shownVars
  <2>2. PersonaTypes'
    BY <1>1, <2>1, PersonaRecords DEF PersonaTypes
  <2>3. WantsSetting'
    BY <2>1 DEF PersonaInv, WantsSetting
  <2>4. Plain' => Plain /\ ~Hides
    BY <2>1 DEF Plain, Hides
  <2>5. LeavingHides'
    BY <2>1, <2>4 DEF PersonaInv, LeavingHides
  <2>6. LossesShown'
    BY <2>1, <2>4 DEF PersonaInv, LossesShown, Here, Even
  <2>7. OutputReturns'
    BY <2>1 DEF PersonaInv, OutputReturns
  <2> QED
    BY <2>2, <2>3, <2>5, <2>6, <2>7 DEF PersonaInv
<1>3. CASE Persona!RestoreDeadlinePasses
  <2>1. /\ restore # Persona!NoRestore
        /\ restore' = [restore EXCEPT !.late = TRUE]
        /\ UNCHANGED <<usb, output, losses, device, setting, status, connected, toasts, transition,
                       poll, closing, switching, switches, excused>>
    BY <1>3 DEF Persona!RestoreDeadlinePasses, Persona!deviceVars, Persona!shownVars
  <2>2. restore' \in RestoreRecords /\ restore'.to = restore.to /\ restore'.late = TRUE
    BY <1>1, <2>1 DEF RestoreRecords
  <2>3. restore' # Persona!NoRestore
    BY <2>2, PersonaRecords
  <2>4. PersonaTypes'
    BY <1>1, <2>1, <2>2 DEF PersonaTypes
  <2>5. OutputReturns'
    BY <2>1, <2>2, <2>3 DEF PersonaInv, OutputReturns
  <2> QED
    BY <2>1, <2>4, <2>5, SeenUnchanged DEF PersonaInv
<1> QED
  BY <1>2, <1>3

(* A bridge that is away is shown once, and not while a transition hides it. *)
LEMMA Marked ==
    ASSUME PersonaTypes, Persona!MarkUnavailable
    PROVE  /\ status' \in StatusRecords
           /\ connected' \in {"unknown", "yes", "no"} /\ toasts' \in Nat
           /\ \/ transition # Persona!NoTransition /\ UNCHANGED <<connected, toasts>>
              \/ /\ transition = Persona!NoTransition /\ connected' = "no"
                 /\ toasts' = IF connected = "yes" THEN toasts + 1 ELSE toasts
<1>1. /\ status \in StatusRecords /\ toasts \in Nat
      /\ connected \in {"unknown", "yes", "no"} /\ Persona!NoStatus \in StatusRecords
  BY PersonaRecords DEF PersonaTypes
<1> QED
  BY <1>1 DEF Persona!MarkUnavailable, Persona!Masked, Persona!NoteControllerUnavailable

LEMMA BridgeGivenUp ==
    ASSUME PersonaInv,
           Persona!PublishError \/ Persona!TransportCloses \/ Persona!CloseListed
           \/ Persona!PollUnavailable
    PROVE  PersonaInv'
<1>1. PersonaTypes /\ losses \in Nat /\ toasts \in Nat /\ device \in BOOLEAN
  BY DEF PersonaInv, PersonaTypes
<1>2. UNCHANGED <<usb, output, losses, setting, transition, restore, poll, switching, switches>>
  BY DEF Persona!PublishError, Persona!TransportCloses, Persona!CloseListed,
         Persona!PollUnavailable, Persona!deviceVars
<1>3. CASE Persona!PublishError
  <2>1. UNCHANGED <<device, status, connected, toasts, closing, excused>>
    BY <1>3 DEF Persona!PublishError
  <2>2. PersonaTypes'
    BY <1>1, <1>2, <2>1 DEF PersonaTypes
  <2> QED
    BY <1>2, <2>1, <2>2, SeenUnchanged DEF PersonaInv
<1>4. CASE Persona!TransportCloses
  <2>1. /\ ~usb.present /\ ~closing /\ device' = FALSE /\ closing' = TRUE
        /\ UNCHANGED <<status, connected, toasts, excused>>
    BY <1>4 DEF Persona!TransportCloses, Persona!shownVars
  <2>2. PersonaTypes'
    BY <1>1, <1>2, <2>1 DEF PersonaTypes
  <2>3. LossesShown'
    BY <1>2, <2>1 DEF PersonaInv, LossesShown, LeavingHides, Plain, Hides, Here, Even
  <2> QED
    BY <1>2, <2>1, <2>2, <2>3, SeenUnchanged DEF PersonaInv
<1>5. CASE Persona!CloseListed
  <2>1. /\ closing /\ closing' = FALSE /\ device' = device
        /\ Persona!MarkUnavailable
        /\ excused' = IF device THEN excused \cup {"stale"} ELSE excused
    BY <1>5 DEF Persona!CloseListed
  <2>2. PersonaTypes'
    BY <1>1, <1>2, <2>1, Marked DEF PersonaTypes
  <2>3. WantsSetting' /\ OutputReturns'
    BY <1>2, <2>1 DEF PersonaInv, WantsSetting, OutputReturns
  <2>4. Plain' => Plain /\ ~device
    BY <2>1 DEF Plain
  <2>5. LeavingHides'
    BY <1>2, <2>4 DEF PersonaInv, LeavingHides, Hides
  <2>6. LossesShown'
    <3> SUFFICES ASSUME Plain' PROVE LossesShown'
      BY DEF LossesShown
    <3>1. Plain /\ ~device /\ ~device'
      BY <2>1, <2>4
    <3>2. CASE UNCHANGED <<connected, toasts>>
      BY <1>2, <2>1, <3>1, <3>2 DEF PersonaInv, LossesShown, Here, Hides, Even
    <3>3. CASE /\ transition = Persona!NoTransition /\ connected' = "no"
               /\ toasts' = IF connected = "yes" THEN toasts + 1 ELSE toasts
      <4>1. toasts <= losses /\ (connected = "yes" => toasts # losses)
        BY <2>1, <3>1, <3>3 DEF PersonaInv, LossesShown, Hides, Even
      <4>2. toasts' <= losses'
        BY <1>1, <1>2, <3>3, <4>1
      <4> QED
        BY <3>1, <3>3, <4>2 DEF LossesShown
    <3> QED
      BY <1>1, <2>1, <3>2, <3>3, Marked
  <2> QED
    BY <2>2, <2>3, <2>5, <2>6 DEF PersonaInv
<1>6. CASE Persona!PollUnavailable
  <2>1. /\ poll.pc = "idle" /\ ~usb.present /\ device' = FALSE
        /\ Persona!MarkUnavailable
        /\ UNCHANGED <<closing, excused>>
    BY <1>6 DEF Persona!PollUnavailable
  <2>2. PersonaTypes'
    BY <1>1, <1>2, <2>1, Marked DEF PersonaTypes
  <2>3. LossesShown'
    <3> SUFFICES ASSUME Plain' PROVE LossesShown'
      BY DEF LossesShown
    <3>1. Plain
      BY <2>1 DEF Plain
    <3>2. toasts <= losses /\ (toasts = losses /\ connected = "yes" => Hides)
      BY <2>1, <3>1 DEF PersonaInv, LossesShown, LeavingHides, Here, Even
    <3>3. CASE UNCHANGED <<connected, toasts>>
      BY <1>2, <2>1, <3>1, <3>2, <3>3 DEF PersonaInv, LossesShown, Here, Hides, Even
    <3>4. CASE /\ transition = Persona!NoTransition /\ connected' = "no"
               /\ toasts' = IF connected = "yes" THEN toasts + 1 ELSE toasts
      <4>1. toasts' <= losses'
        BY <1>1, <1>2, <3>2, <3>4 DEF Hides
      <4> QED
        BY <1>2, <2>1, <3>4, <4>1 DEF LossesShown
    <3> QED
      BY <1>1, <2>1, <3>3, <3>4, Marked
  <2> QED
    BY <1>2, <2>1, <2>2, <2>3, SeenUnchanged DEF PersonaInv
<1> QED
  BY <1>3, <1>4, <1>5, <1>6

(* The poll under way and what it has read.                                *)
LEMMA PollRecord ==
    ASSUME NEW p \in PollRecords, NEW s \in {"idle", "reading", "shown", "restoring"},
           NEW r \in RestoreRecords
    PROVE  /\ p.status \in StatusRecords /\ p.status.persona \in Shown
           /\ p.status.connected \in BOOLEAN /\ p.restore \in RestoreRecords
           /\ [p EXCEPT !.pc = s] \in PollRecords
           /\ [p EXCEPT !.pc = s].pc = s
           /\ [p EXCEPT !.pc = s].status = p.status
           /\ [p EXCEPT !.pc = s].restore = p.restore
           /\ [p EXCEPT !.pc = s, !.restore = r] \in PollRecords
           /\ [p EXCEPT !.pc = s, !.restore = r].pc = s
           /\ [p EXCEPT !.pc = s, !.restore = r].status = p.status
           /\ [p EXCEPT !.pc = s, !.restore = r].restore = r
BY DEF PollRecords, StatusRecords

(* A poll that is done leaves the shown state as it is.                    *)
LEMMA PollLeaves ==
    ASSUME PersonaInv, poll' \in PollRecords, poll'.pc # "reading",
           UNCHANGED <<usb, setting, transition, toasts, losses, connected, device, closing>>,
           excused' = excused \/ excused' = excused \cup {"output"}
    PROVE  WantsSetting' /\ LeavingHides' /\ LossesShown'
<1>1. /\ "mask" \notin excused' => "mask" \notin excused
      /\ Plain' => Plain
  BY DEF Plain
<1>2. WantsSetting'
  BY <1>1 DEF PersonaInv, WantsSetting
<1>3. LeavingHides'
  BY <1>1 DEF PersonaInv, LeavingHides, Hides
<1>4. LossesShown'
  BY <1>1 DEF PersonaInv, LossesShown, Hides, Here, Even
<1> QED
  BY <1>2, <1>3, <1>4

LEMMA StatusIsRead ==
    ASSUME PersonaInv, Persona!PollReads
    PROVE  PersonaInv'
<1> DEFINE seen == [persona |-> usb.persona, connected |-> usb.controller]
           arrived == transition # Persona!NoTransition /\ transition.to = seen.persona
           hid == transition # Persona!NoTransition /\ ~arrived /\ ~transition.completed
<1>1. PersonaTypes /\ usb \in UsbRecords /\ transition \in TransitionRecords
  BY DEF PersonaInv, PersonaTypes
<1>2. usb.persona \in HostPersonas /\ usb.controller \in BOOLEAN
  BY <1>1, UsbFields
<1>3. /\ usb.present /\ device' = TRUE
      /\ transition' = IF arrived THEN [transition EXCEPT !.completed = TRUE] ELSE transition
      /\ poll' = [pc |-> "reading", status |-> seen, restore |-> Persona!NoRestore, masked |-> hid]
      /\ UNCHANGED <<usb, output, losses, setting, status, connected, toasts, restore, closing,
                     switching, switches, excused>>
  BY DEF Persona!PollReads, Persona!Masked, Persona!deviceVars, Persona!shownVars
<1>4. hid \in BOOLEAN /\ seen \in StatusRecords
  <2>1. hid \in BOOLEAN
    BY Zenon
  <2>2. usb.persona \in Shown
    BY <1>2 DEF Shown
  <2> QED
    BY <1>2, <2>1, <2>2 DEF StatusRecords
<1>5. seen.persona = usb.persona /\ seen.connected = usb.controller
  OBVIOUS
<1>6. arrived <=> transition # Persona!NoTransition /\ transition.to = usb.persona
  BY <1>5
<1> HIDE DEF seen, hid, arrived
<1>7. /\ poll' \in PollRecords /\ poll'.pc = "reading" /\ poll'.status = seen
  BY <1>3, <1>4, PersonaRecords DEF PollRecords
<1>8. /\ transition' \in TransitionRecords /\ transition'.to = transition.to
      /\ ~arrived => transition' = transition
  BY <1>1, <1>3 DEF TransitionRecords
<1>9. PersonaTypes'
  <2>1. device' \in BOOLEAN
    BY <1>3, Zenon
  <2> QED
    BY <1>1, <1>3, <1>7, <1>8, <2>1 DEF PersonaTypes
<1>10. WantsSetting'
  BY <1>3, <1>6, <1>8 DEF PersonaInv, WantsSetting
<1>11. LeavingHides'
  BY <1>3, <1>6, <1>8 DEF PersonaInv, WantsSetting, LeavingHides, Plain, Hides
<1>12. LossesShown'
  BY <1>2, <1>3, <1>5, <1>7 DEF PersonaInv, LossesShown, Plain, Here, Even
<1>13. OutputReturns'
  BY <1>3, <1>5, <1>7 DEF PersonaInv, OutputReturns
<1> QED
  BY <1>9, <1>10, <1>11, <1>12, <1>13 DEF PersonaInv

LEMMA StatusIsShown ==
    ASSUME PersonaInv, Persona!PollShows
    PROVE  PersonaInv'
<1>1. /\ PersonaTypes /\ poll \in PollRecords /\ toasts \in Nat /\ losses \in Nat
      /\ restore \in RestoreRecords
  BY DEF PersonaInv, PersonaTypes
<1>2. /\ poll.pc = "reading" /\ poll' = [poll EXCEPT !.pc = "shown"]
      /\ status' = poll.status
      /\ connected' = IF poll.status.connected THEN "yes" ELSE "no"
      /\ toasts' = IF connected = "yes" /\ ~poll.status.connected THEN toasts + 1 ELSE toasts
      /\ excused' = IF device THEN excused ELSE excused \cup {"stale"}
      /\ UNCHANGED <<usb, output, losses, device, setting, transition, restore, closing,
                     switching, switches>>
  BY DEF Persona!PollShows, Persona!deviceVars
<1>3. /\ poll' \in PollRecords /\ poll'.pc = "shown" /\ poll'.status = poll.status
      /\ poll.status \in StatusRecords /\ poll.status.connected \in BOOLEAN
  BY <1>1, <1>2, PollRecord
<1>4. PersonaTypes'
  <2>1. toasts' \in Nat
    BY <1>1, <1>2
  <2>2. connected' \in {"unknown", "yes", "no"}
    BY <1>2
  <2> QED
    BY <1>1, <1>2, <1>3, <2>1, <2>2 DEF PersonaTypes
<1>5. /\ "mask" \notin excused' => "mask" \notin excused
      /\ "output" \notin excused' => "output" \notin excused
      /\ Plain' => Plain /\ device
  BY <1>2 DEF Plain
<1>6. WantsSetting' /\ LeavingHides'
  BY <1>2, <1>5 DEF PersonaInv, WantsSetting, LeavingHides, Hides
<1>7. LossesShown'
  <2> SUFFICES ASSUME Plain' PROVE LossesShown'
    BY DEF LossesShown
  <2>1. /\ device /\ toasts <= losses
        /\ toasts = losses /\ connected = "yes" => poll.status.connected
        /\ toasts = losses /\ poll.status.connected => Here
    BY <1>2, <1>5 DEF PersonaInv, LossesShown, Even
  <2>2. toasts' <= losses'
    BY <1>1, <1>2, <2>1
  <2>3. Here' <=> Here
    BY <1>2 DEF Here
  <2>4. connected' = "yes" => poll.status.connected /\ toasts' = toasts
    BY <1>2
  <2> QED
    BY <1>2, <1>3, <2>1, <2>2, <2>3, <2>4 DEF LossesShown, Even
<1>8. OutputReturns'
  BY <1>2, <1>3, <1>5 DEF PersonaInv, OutputReturns
<1> QED
  BY <1>4, <1>6, <1>7, <1>8 DEF PersonaInv

LEMMA RestorationBegins ==
    ASSUME PersonaInv, Persona!PollEnds
    PROVE  PersonaInv'
<1>1. /\ PersonaTypes /\ poll \in PollRecords /\ restore \in RestoreRecords
  BY DEF PersonaInv, PersonaTypes
<1>2. UNCHANGED <<usb, output, losses, device, setting, status, connected, toasts, transition,
                  closing, switching, switches>>
  BY DEF Persona!PollEnds, Persona!deviceVars, Persona!shownVars
<1>3. CASE poll' = Persona!IdlePoll /\ UNCHANGED <<restore, excused>>
  <2>1. poll' \in PollRecords /\ poll'.pc = "idle"
    BY <1>3, PersonaRecords
  <2>2. PersonaTypes'
    BY <1>1, <1>2, <1>3, <2>1 DEF PersonaTypes
  <2>3. OutputReturns'
    BY <1>2, <1>3, <2>1 DEF PersonaInv, OutputReturns
  <2> QED
    BY <1>2, <1>3, <2>1, <2>2, <2>3, PollLeaves DEF PersonaInv
<1>4. CASE /\ poll' = Persona!IdlePoll /\ restore' = Persona!NoRestore
           /\ excused' = excused \cup {"output"}
  <2>1. poll' \in PollRecords /\ poll'.pc = "idle"
    BY <1>4, PersonaRecords
  <2>2. PersonaTypes'
    BY <1>1, <1>2, <1>4, <2>1, PersonaRecords DEF PersonaTypes
  <2>3. OutputReturns'
    BY <1>4 DEF OutputReturns
  <2> QED
    BY <1>2, <1>4, <2>1, <2>2, <2>3, PollLeaves DEF PersonaInv
<1>5. CASE /\ Persona!RestoreReady
           /\ poll' = [poll EXCEPT !.pc = "restoring", !.restore = restore]
           /\ UNCHANGED <<restore, excused>>
  <2>1. /\ poll' \in PollRecords /\ poll'.pc = "restoring"
        /\ poll'.status = poll.status /\ poll'.restore = restore
    <3>1. "restoring" \in {"idle", "reading", "shown", "restoring"}
      OBVIOUS
    <3> DEFINE r == restore
    <3>2. r \in RestoreRecords /\ poll' = [poll EXCEPT !.pc = "restoring", !.restore = r]
      BY <1>1, <1>5
    <3> HIDE DEF r
    <3>3. /\ poll' \in PollRecords /\ poll'.pc = "restoring"
          /\ poll'.status = poll.status /\ poll'.restore = r
      BY <1>1, <3>1, <3>2 DEF PollRecords
    <3> QED
      BY <3>3 DEF r
  <2>2. poll.pc # "idle"
    BY DEF Persona!PollEnds
  <2>3. PersonaTypes'
    BY <1>1, <1>2, <1>5, <2>1 DEF PersonaTypes
  <2>4. restore # Persona!NoRestore /\ poll.status.persona = restore.to
    BY <1>5 DEF Persona!RestoreReady
  <2>5. OutputReturns'
    BY <1>2, <1>5, <2>1, <2>2, <2>4 DEF PersonaInv, OutputReturns
  <2> QED
    BY <1>2, <1>5, <2>1, <2>3, <2>5, PollLeaves DEF PersonaInv
<1> QED
  BY <1>3, <1>4, <1>5 DEF Persona!PollEnds

LEMMA OutputIsRestored ==
    ASSUME PersonaInv, Persona!RestoreEnds
    PROVE  PersonaInv'
<1>1. PersonaTypes
  BY DEF PersonaInv
<1>2. /\ poll.pc = "restoring" /\ poll' = Persona!IdlePoll
      /\ UNCHANGED <<usb, losses, device, setting, status, connected, toasts, transition, closing,
                     switching, switches>>
  BY DEF Persona!RestoreEnds, Persona!shownVars
<1>3. poll' \in PollRecords /\ poll'.pc = "idle"
  BY <1>2, PersonaRecords
<1>4. CASE /\ output' = (poll.restore.to = usb.persona) /\ restore' = Persona!NoRestore
           /\ excused' = IF restore.of # poll.restore.of THEN excused \cup {"output"} ELSE excused
  <2>1. PersonaTypes'
    <3>1. output' \in BOOLEAN
      BY <1>4, Zenon
    <3> QED
      BY <1>1, <1>2, <1>3, <1>4, <3>1, PersonaRecords DEF PersonaTypes
  <2>2. excused' = excused \/ excused' = excused \cup {"output"}
    BY <1>4
  <2>3. ASSUME "output" \notin excused'
        PROVE  output' /\ usb'.wants = usb'.persona
    <3>1. "output" \notin excused
      BY <2>2, <2>3
    <3>2. /\ restore # Persona!NoRestore /\ poll.restore.to = restore.to
          /\ poll.status.persona = restore.to /\ restore.to = usb.wants
          /\ usb.persona = usb.wants
      BY <1>2, <3>1 DEF PersonaInv, OutputReturns
    <3> QED
      BY <1>2, <1>4, <3>2
  <2>4. OutputReturns'
    BY <1>3, <1>4, <2>3 DEF OutputReturns
  <2> QED
    BY <1>2, <1>3, <2>1, <2>2, <2>4, PollLeaves DEF PersonaInv
<1>5. CASE UNCHANGED <<output, restore, excused>>
  <2>1. PersonaTypes'
    BY <1>1, <1>2, <1>3, <1>5 DEF PersonaTypes
  <2>2. OutputReturns'
    BY <1>2, <1>3, <1>5 DEF PersonaInv, OutputReturns
  <2> QED
    BY <1>2, <1>3, <1>5, <2>1, <2>2, PollLeaves DEF PersonaInv
<1> QED
  BY <1>4, <1>5 DEF Persona!RestoreEnds

(* The calls have their types after a step, too.                           *)
CallsStay ==
    /\ switching' \in [Callers -> SwitchRecords]
    /\ \A d \in Callers : switching'[d].pc # "idle" => switching'[d].to \in HostPersonas

LEMMA CallGoes ==
    ASSUME PersonaTypes, NEW c \in Callers, NEW r \in SwitchRecords,
           switching' = [switching EXCEPT ![c] = r],
           r.pc # "idle" => r.to \in HostPersonas
    PROVE  CallsStay
BY DEF PersonaTypes, CallsStay

LEMMA CallIdles ==
    ASSUME PersonaTypes, NEW c \in Callers,
           switching' = [switching EXCEPT ![c] = Persona!IdleCall]
    PROVE  CallsStay
BY PersonaRecords, CallGoes

LEMMA SwitchBegins ==
    ASSUME PersonaInv, NEW c \in Callers, NEW p \in HostPersonas, Persona!Switch(c, p)
    PROVE  PersonaInv'
<1> DEFINE new == [pc |-> IF Persona!Previous # p THEN "checking" ELSE "sending",
                   to |-> p, from |-> Persona!Previous, moves |-> FALSE]
<1>1. PersonaTypes /\ switches \in Nat /\ setting \in HostPersonas /\ status \in StatusRecords
  BY DEF PersonaInv, PersonaTypes
<1>2. /\ switches' = switches + 1 /\ switching' = [switching EXCEPT ![c] = new]
      /\ UNCHANGED <<usb, output, losses, device, setting, status, connected, toasts, transition,
                     restore, poll, closing, excused>>
  BY DEF Persona!Switch, Persona!deviceVars, Persona!shownVars
<1>3. Persona!Previous \in Shown
  <2>1. status.persona \in Shown /\ setting \in Shown
    BY <1>1 DEF StatusRecords, Shown
  <2> QED
    BY <2>1 DEF Persona!Previous
<1>4. new \in SwitchRecords /\ new.to = p
  <2>1. p \in Shown /\ FALSE \in BOOLEAN
    BY DEF Shown
  <2> QED
    BY <1>3, <2>1 DEF SwitchRecords
<1> HIDE DEF new
<1>5. CallsStay
  BY <1>1, <1>2, <1>4, CallGoes
<1>6. PersonaTypes'
  <2>1. switches' \in Nat
    BY <1>1, <1>2
  <2> QED
    BY <1>1, <1>2, <1>5, <2>1 DEF PersonaTypes, CallsStay
<1> QED
  BY <1>2, <1>6, SeenUnchanged DEF PersonaInv

LEMMA OutputIsChecked ==
    ASSUME PersonaInv, NEW c \in Callers, NEW works \in BOOLEAN, Persona!Checked(c, works)
    PROVE  PersonaInv'
<1> DEFINE moves == output /\ works
           new == [switching[c] EXCEPT !.pc = "sending", !.moves = moves]
<1>1. /\ PersonaTypes /\ switching \in [Callers -> SwitchRecords] /\ switching[c] \in SwitchRecords
      /\ switching[c].pc # "idle" => switching[c].to \in HostPersonas
  BY DEF PersonaInv, PersonaTypes
<1>2. /\ switching[c].pc = "checking"
      /\ switching' = [switching EXCEPT ![c] = new]
      /\ excused' = IF output /\ ~works THEN excused \cup {"output"} ELSE excused
      /\ UNCHANGED <<usb, output, losses, device, setting, status, connected, toasts, transition,
                     restore, poll, closing, switches>>
  BY <1>1 DEF Persona!Checked, Persona!deviceVars, Persona!shownVars
<1>3. moves \in BOOLEAN /\ "sending" \in {"idle", "checking", "sending", "stopping"}
  BY DEF PersonaInv, PersonaTypes
<1> HIDE DEF moves
<1>4. new \in SwitchRecords /\ new.to = switching[c].to
  BY <1>1, <1>3 DEF SwitchRecords
<1> HIDE DEF new
<1>5. CallsStay
  BY <1>1, <1>2, <1>4, CallGoes
<1>6. PersonaTypes'
  BY <1>1, <1>2, <1>5 DEF PersonaTypes, CallsStay
<1>7. excused' = excused \/ excused' = excused \cup {"output"}
  BY <1>2
<1>8. WantsSetting' /\ LeavingHides' /\ LossesShown'
  <2>1. ("mask" \notin excused' => "mask" \notin excused) /\ (Plain' => Plain)
    BY <1>7 DEF Plain
  <2> QED
    BY <1>2, <2>1 DEF PersonaInv, WantsSetting, LeavingHides, LossesShown, Hides, Here, Even
<1>9. OutputReturns'
  <2>1. "output" \notin excused' => "output" \notin excused
    BY <1>7
  <2> QED
    BY <1>2, <2>1 DEF PersonaInv, OutputReturns
<1> QED
  BY <1>6, <1>8, <1>9 DEF PersonaInv

LEMMA CommandEnds ==
    ASSUME PersonaInv, NEW c \in Callers, Persona!CommandFails(c) \/ Persona!Stopped(c)
    PROVE  PersonaInv'
<1>1. /\ PersonaTypes /\ usb \in UsbRecords /\ losses \in Nat
      /\ switching[c].pc # "idle" => switching[c].to \in HostPersonas
  BY DEF PersonaInv, PersonaTypes
<1>2. /\ switching' = [switching EXCEPT ![c] = Persona!IdleCall]
      /\ UNCHANGED <<output, device, setting, status, connected, toasts, transition, restore, poll,
                     closing, switches>>
  BY DEF Persona!CommandFails, Persona!Stopped, Persona!deviceVars, Persona!shownVars
<1>3. CallsStay
  BY <1>1, <1>2, CallIdles
<1>4. CASE UNCHANGED <<usb, losses, excused>>
  <2>1. PersonaTypes'
    BY <1>1, <1>2, <1>3, <1>4 DEF PersonaTypes, CallsStay
  <2> QED
    BY <1>2, <1>4, <2>1, SeenUnchanged DEF PersonaInv
<1>5. CASE /\ switching[c].pc = "sending" /\ losses' = losses + 1
           /\ usb' = [usb EXCEPT !.wants = switching[c].to]
           /\ excused' = excused \cup {"mask", "output"}
  <2>1. usb' \in UsbRecords
    BY <1>1, <1>5, UsbWants
  <2>2. losses' \in Nat
    BY <1>1, <1>5
  <2>3. PersonaTypes'
    BY <1>1, <1>2, <1>3, <2>1, <2>2 DEF PersonaTypes, CallsStay
  <2>4. "mask" \in excused' /\ "output" \in excused'
    BY <1>5
  <2> QED
    BY <2>3, <2>4
    DEF PersonaInv, WantsSetting, LeavingHides, LossesShown, OutputReturns, Plain
<1> QED
  BY <1>4, <1>5 DEF Persona!CommandFails, Persona!Stopped, Persona!deviceVars

(* The device acknowledges the persona that is shown already.              *)
LEMMA SameAcknowledged ==
    ASSUME PersonaInv, NEW c \in Callers, Persona!Acknowledged(c),
           switching[c].from = switching[c].to
    PROVE  PersonaInv'
<1>1. /\ PersonaTypes /\ usb \in UsbRecords
      /\ switching[c].pc # "idle" => switching[c].to \in HostPersonas
  BY DEF PersonaInv, PersonaTypes
<1>2. /\ switching[c].pc = "sending" /\ usb.present
      /\ usb' = [usb EXCEPT !.wants = switching[c].to] /\ setting' = switching[c].to
      /\ switching' = [switching EXCEPT ![c] = Persona!IdleCall]
      /\ excused' = IF usb.wants = switching[c].to THEN excused
                    ELSE excused \cup {"mask", "output"}
      /\ UNCHANGED <<restore, transition, output, device, status, connected, toasts, poll, closing,
                     switches, losses>>
  BY DEF Persona!Acknowledged, Persona!shownVars
<1>3. /\ usb' \in UsbRecords /\ usb'.wants = switching[c].to /\ usb'.persona = usb.persona
      /\ usb'.present = usb.present /\ usb'.controller = usb.controller
      /\ setting' \in HostPersonas
  BY <1>1, <1>2, UsbWants
<1>4. CallsStay
  BY <1>1, <1>2, CallIdles
<1>5. PersonaTypes'
  BY <1>1, <1>2, <1>3, <1>4 DEF PersonaTypes, CallsStay
<1>6. CASE usb.wants = switching[c].to
  <2>1. excused' = excused /\ usb'.wants = usb.wants
    BY <1>2, <1>3, <1>6
  <2>2. WantsSetting'
    BY <1>2, <1>6, <2>1 DEF PersonaInv, WantsSetting
  <2>3. LeavingHides' /\ LossesShown'
    BY <1>2, <1>3, <2>1 DEF PersonaInv, LeavingHides, LossesShown, Plain, Hides, Here, Even
  <2>4. OutputReturns'
    BY <1>2, <1>3, <2>1 DEF PersonaInv, OutputReturns
  <2> QED
    BY <1>5, <2>2, <2>3, <2>4 DEF PersonaInv
<1>7. CASE usb.wants # switching[c].to
  <2>1. "mask" \in excused' /\ "output" \in excused'
    BY <1>2, <1>7
  <2> QED
    BY <1>5, <2>1
    DEF PersonaInv, WantsSetting, LeavingHides, LossesShown, OutputReturns, Plain
<1> QED
  BY <1>6, <1>7

(* The device acknowledges another persona, and a transition begins.       *)
LEMMA TransitionBegins ==
    ASSUME PersonaInv, NEW c \in Callers, Persona!Acknowledged(c),
           switching[c].from # switching[c].to
    PROVE  PersonaInv'
<1> DEFINE p == switching[c].to
           new == [switching[c] EXCEPT !.pc = "stopping"]
           moved == [to |-> p, of |-> switches, late |-> FALSE]
           begun == [from |-> switching[c].from, to |-> p, completed |-> FALSE]
<1>1. /\ PersonaTypes /\ usb \in UsbRecords /\ switches \in Nat
      /\ switching[c] \in SwitchRecords
      /\ switching[c].pc # "idle" => switching[c].to \in HostPersonas
  BY DEF PersonaInv, PersonaTypes
<1>2. /\ switching[c].pc = "sending" /\ usb.present
      /\ usb' = [usb EXCEPT !.wants = p] /\ setting' = p
      /\ switching' = [switching EXCEPT ![c] = new]
      /\ restore' = IF switching[c].moves THEN moved ELSE Persona!NoRestore
      /\ transition' = begun
      /\ excused' = IF restore # Persona!NoRestore \/ (~switching[c].moves /\ output)
                    THEN excused \cup {"output"} ELSE excused
      /\ UNCHANGED <<output, device, status, connected, toasts, poll, closing, switches, losses>>
  BY DEF Persona!Acknowledged, Persona!shownVars
<1>3. p \in HostPersonas /\ p \in Shown /\ p # "none" /\ switching[c].from \in Shown
  BY <1>1, <1>2, PersonasNamed DEF Shown, SwitchRecords
<1>4. new \in SwitchRecords /\ new.to = p
  BY <1>1 DEF SwitchRecords
<1>5. moved \in RestoreRecords /\ moved.to = p
  <2>1. FALSE \in BOOLEAN
    OBVIOUS
  <2> QED
    BY <1>1, <1>3, <2>1 DEF RestoreRecords
<1>6. begun \in TransitionRecords /\ begun.to = p /\ begun.completed = FALSE
  <2>1. FALSE \in BOOLEAN
    OBVIOUS
  <2> QED
    BY <1>3, <2>1 DEF TransitionRecords
<1> HIDE DEF new, moved, begun, p
<1>7. CallsStay
  BY <1>1, <1>2, <1>3, <1>4, CallGoes
<1>8. /\ usb' \in UsbRecords /\ usb'.wants = p /\ usb'.persona = usb.persona
      /\ usb'.present = usb.present /\ usb'.controller = usb.controller
  BY <1>1, <1>2, <1>3, UsbWants
<1>9. restore' \in RestoreRecords
  BY <1>2, <1>5, PersonaRecords
<1>10. PersonaTypes'
  BY <1>1, <1>2, <1>3, <1>6, <1>7, <1>8, <1>9 DEF PersonaTypes, CallsStay
<1>11. /\ "mask" \notin excused' => "mask" \notin excused
       /\ Plain' => Plain
  BY <1>2 DEF Plain
<1>12. Hides'
  BY <1>2, <1>3, <1>6, PersonaRecords DEF Hides
<1>13. WantsSetting'
  BY <1>2, <1>6, <1>8 DEF WantsSetting
<1>14. LeavingHides'
  BY <1>12 DEF LeavingHides
<1>15. LossesShown'
  <2>1. Here => Here'
    BY <1>2, <1>8 DEF Here
  <2> QED
    BY <1>2, <1>11, <1>12, <2>1 DEF PersonaInv, LossesShown, Even
<1>16. OutputReturns'
  <2> SUFFICES ASSUME "output" \notin excused' PROVE OutputReturns'
    BY DEF OutputReturns
  <2>1. /\ "output" \notin excused /\ restore = Persona!NoRestore
        /\ switching[c].moves \/ ~output
    BY <1>2
  <2>2. /\ output
        /\ poll.pc # "idle" => poll.status.persona = usb.persona
        /\ poll.pc # "restoring"
    BY <2>1 DEF PersonaInv, OutputReturns
  <2>3. restore' = moved /\ restore' # Persona!NoRestore /\ restore'.to = p
    BY <1>2, <1>3, <1>5, <2>1, <2>2, PersonaRecords
  <2> QED
    BY <1>2, <1>8, <2>2, <2>3 DEF OutputReturns
<1> QED
  BY <1>10, <1>13, <1>14, <1>15, <1>16 DEF PersonaInv

LEMMA PersonaNext ==
    ASSUME PersonaInv, [Persona!Next]_Persona!vars
    PROVE  PersonaInv'
<1>1. CASE UNCHANGED Persona!vars
  BY <1>1, SeenUnchanged
  DEF PersonaInv, PersonaTypes, Persona!vars, Persona!deviceVars, Persona!shownVars
<1>2. CASE Persona!Leaves \/ Persona!Returns \/ Persona!Unplugged \/ Persona!ControllerChanges
  BY <1>2, DeviceComesAndGoes
<1>3. CASE Persona!DeadlinePasses \/ Persona!RestoreDeadlinePasses
  BY <1>3, DeadlinesPass
<1>4. CASE Persona!PublishError \/ Persona!TransportCloses \/ Persona!CloseListed
           \/ Persona!PollUnavailable
  BY <1>4, BridgeGivenUp
<1>5. CASE Persona!PollReads
  BY <1>5, StatusIsRead
<1>6. CASE Persona!PollShows
  BY <1>6, StatusIsShown
<1>7. CASE Persona!PollEnds
  BY <1>7, RestorationBegins
<1>8. CASE Persona!RestoreEnds
  BY <1>8, OutputIsRestored
<1>9. ASSUME NEW c \in Callers,
             \/ \E to \in HostPersonas : Persona!Switch(c, to)
             \/ Persona!Checked(c, TRUE) \/ Persona!Checked(c, FALSE)
             \/ Persona!Acknowledged(c) \/ Persona!CommandFails(c) \/ Persona!Stopped(c)
      PROVE  PersonaInv'
  <2>1. CASE \E to \in HostPersonas : Persona!Switch(c, to)
    BY <2>1, SwitchBegins
  <2>2. CASE Persona!Checked(c, TRUE)
    BY <2>2, TRUE \in BOOLEAN, OutputIsChecked
  <2>3. CASE Persona!Checked(c, FALSE)
    BY <2>3, FALSE \in BOOLEAN, OutputIsChecked
  <2>4. CASE Persona!Acknowledged(c)
    BY <2>4, SameAcknowledged, TransitionBegins
  <2>5. CASE Persona!CommandFails(c) \/ Persona!Stopped(c)
    BY <2>5, CommandEnds
  <2> QED
    BY <1>9, <2>1, <2>2, <2>3, <2>4, <2>5
<1> QED
  BY <1>1, <1>2, <1>3, <1>4, <1>5, <1>6, <1>7, <1>8, <1>9 DEF Persona!Next

LEMMA PersonaStarts ==
    ASSUME Persona!Init
    PROVE  PersonaInv
<1>1. /\ setting \in HostPersonas /\ output \in BOOLEAN
      /\ usb = [persona |-> setting, wants |-> setting, present |-> TRUE, controller |-> TRUE]
      /\ device = FALSE /\ status = Persona!NoStatus /\ transition = Persona!NoTransition
      /\ restore = Persona!NoRestore /\ connected = "unknown" /\ poll = Persona!IdlePoll
      /\ closing = FALSE /\ switching = [c \in Callers |-> Persona!IdleCall]
      /\ switches = 0 /\ losses = 0 /\ toasts = 0
      /\ excused = IF output THEN {} ELSE {"output"}
  BY DEF Persona!Init
<1>2. TRUE \in BOOLEAN /\ FALSE \in BOOLEAN
  OBVIOUS
<1>3. usb \in UsbRecords /\ usb.wants = setting /\ usb.persona = setting
  BY <1>1, <1>2 DEF UsbRecords
<1>4. /\ switching \in [Callers -> SwitchRecords]
      /\ \A c \in Callers : switching[c].pc = "idle"
  BY <1>1, PersonaRecords
<1>5. device \in BOOLEAN /\ closing \in BOOLEAN
  BY <1>1, <1>2
<1>6. PersonaTypes
  BY <1>1, <1>3, <1>4, <1>5, PersonaRecords DEF PersonaTypes
<1>7. WantsSetting /\ LeavingHides
  BY <1>1, <1>3 DEF WantsSetting, LeavingHides
<1>8. LossesShown
  BY <1>1, PersonaRecords DEF LossesShown
<1>9. OutputReturns
  BY <1>1, <1>3, PersonaRecords DEF OutputReturns
<1> QED
  BY <1>6, <1>7, <1>8, <1>9 DEF PersonaInv

THEOREM PersonaInvariance == Persona!Spec => []PersonaInv
<1>1. Persona!Init => PersonaInv
  BY PersonaStarts
<1>2. PersonaInv /\ [Persona!Next]_Persona!vars => PersonaInv'
  BY PersonaNext
<1> QED
  BY <1>1, <1>2, PTL DEF Persona!Spec

(* Whatever callers switch the persona, and however the device, the polls  *)
(* and the deadlines interleave with them, no more losses of the           *)
(* controller are shown than there were, the transition leads to the       *)
(* persona stored last, and the host's default output is the bridge or its *)
(* restoration waits, but for the excuses recorded (bridge-service.ts      *)
(* setHostPersonaMode, applyHostPersonaTransitionSnapshot,                 *)
(* restoreHostPersonaDefaultRenderIfReady).                                *)
THEOREM SwitchCorrect == Persona!Spec => []SwitchIsInvisible
<1>1. PersonaInv => SwitchIsInvisible
  <2> SUFFICES ASSUME PersonaInv PROVE SwitchIsInvisible
    OBVIOUS
  <2>1. \/ toasts <= losses
        \/ "stale" \in excused \/ "mask" \in excused \/ "late" \in excused
    BY DEF PersonaInv, LossesShown, Plain
  <2>2. toasts <= losses \/ excused \cap {"stale", "mask", "late"} # {}
    BY <2>1
  <2>3. transition # Persona!NoTransition => transition.to = setting \/ "mask" \in excused
    BY DEF PersonaInv, WantsSetting
  <2>4. output \/ restore # Persona!NoRestore \/ "output" \in excused
    BY DEF PersonaInv, OutputReturns
  <2> QED
    BY <2>2, <2>3, <2>4 DEF SwitchIsInvisible, Persona!SwitchIsInvisible
<1> QED
  BY <1>1, PersonaInvariance, PTL

(***************************************************************************)
(* The shortcuts.                                                          *)
(***************************************************************************)
ShortcutProof == INSTANCE ShortcutProofs WITH
    running <- stepping, Starters <- PadStarters, Buttons <- PadButtons, ChordLists <- Bindings,
    Functions <- ShortcutFunctions, Gated <- Switched, Shortcuts <- FirmwareEvents,
    KindOf <- KeyKinds, Start <- FirstLevel, Top <- TopLevel, MaxEvents <- MaxPending

(* Whatever the chords, the functions, the polls and the edits of the list *)
(* are, a shortcut pressed is in one place, is run once, in order and as   *)
(* it was meant when it was pressed, and keeps its button from the game    *)
(* (vds_companion.cc companion_translate_input; bridge-service.ts          *)
(* pollShortcutEvent, enqueueShortcutEvent, dispatchInputShortcutAction).  *)
(* ShortcutProofs proves it of its own instance of ShortcutFlow, which has *)
(* the same definitions: expanded, the two are one formula.                *)
THEOREM ShortcutsCorrect == Shortcut!Spec => []ShortcutsMatch
<1>1. ShortcutProof!ConstantsOK
  BY ShortcutConstants, Zenon DEF Shortcut!ConstantsOK, ShortcutProof!ConstantsOK,
     Shortcut!Kinds, ShortcutProof!Kinds
<1>2. ShortcutProof!Spec => []ShortcutProof!ShortcutsMatch
  BY <1>1, ShortcutProof!ShortcutsMatchTheorem
<1>3. Shortcut!Init => ShortcutProof!Init
  BY Zenon DEF
     Shortcut!Nothing, ShortcutProof!Nothing, Shortcut!Idle, ShortcutProof!Idle,
     Shortcut!NotRunning, ShortcutProof!NotRunning, Shortcut!NoProcess, ShortcutProof!NoProcess,
     Shortcut!Versioned, ShortcutProof!Versioned, Shortcut!Init, ShortcutProof!Init
<1>4. [Shortcut!Next]_Shortcut!vars => [ShortcutProof!Next]_ShortcutProof!vars
  BY Zenon DEF Shortcut!ToSet, ShortcutProof!ToSet, Shortcut!Cardinality,
     ShortcutProof!Cardinality,
     Shortcut!controllerVars, ShortcutProof!controllerVars, Shortcut!listVars,
     ShortcutProof!listVars, Shortcut!pollVars, ShortcutProof!pollVars, Shortcut!actionVars,
     ShortcutProof!actionVars, Shortcut!vars, ShortcutProof!vars, Shortcut!Nothing,
     ShortcutProof!Nothing, Shortcut!Idle, ShortcutProof!Idle, Shortcut!NotRunning,
     ShortcutProof!NotRunning, Shortcut!Versioned, ShortcutProof!Versioned, Shortcut!Struck,
     ShortcutProof!Struck, Shortcut!Covered, ShortcutProof!Covered, Shortcut!Ordered,
     ShortcutProof!Ordered, Shortcut!Enqueue, ShortcutProof!Enqueue, Shortcut!Strike,
     ShortcutProof!Strike, Shortcut!TranslateInput, ShortcutProof!TranslateInput, Shortcut!Input,
     ShortcutProof!Input, Shortcut!FirmwareShortcut, ShortcutProof!FirmwareShortcut,
     Shortcut!BindingsArrive, ShortcutProof!BindingsArrive, Shortcut!BindingsFail,
     ShortcutProof!BindingsFail, Shortcut!SetChordAssignments, ShortcutProof!SetChordAssignments,
     Shortcut!ReapplyChordBindings, ShortcutProof!ReapplyChordBindings, Shortcut!Ask,
     ShortcutProof!Ask, Shortcut!Remaining, ShortcutProof!Remaining, Shortcut!Serve,
     ShortcutProof!Serve, Shortcut!Receive, ShortcutProof!Receive, Shortcut!PollFails,
     ShortcutProof!PollFails, Shortcut!RetryDue, ShortcutProof!RetryDue, Shortcut!Arguments,
     ShortcutProof!Arguments, Shortcut!LoneMediaKey, ShortcutProof!LoneMediaKey,
     Shortcut!Typable, ShortcutProof!Typable, Shortcut!Media, ShortcutProof!Media,
     Shortcut!ProcessFor, ShortcutProof!ProcessFor, Shortcut!Clamp, ShortcutProof!Clamp,
     Shortcut!Runs, ShortcutProof!Runs, Shortcut!Ended, ShortcutProof!Ended, Shortcut!Begun,
     ShortcutProof!Begun, Shortcut!DispatchNothing, ShortcutProof!DispatchNothing,
     Shortcut!DispatchKeys, ShortcutProof!DispatchKeys, Shortcut!DispatchMedia,
     ShortcutProof!DispatchMedia, Shortcut!DispatchStep, ShortcutProof!DispatchStep,
     Shortcut!DispatchCommand, ShortcutProof!DispatchCommand, Shortcut!DispatchMark,
     ShortcutProof!DispatchMark, Shortcut!Execute, ShortcutProof!Execute, Shortcut!Dispatch,
     ShortcutProof!Dispatch, Shortcut!ExecuteEnds, ShortcutProof!ExecuteEnds, Shortcut!Next,
     ShortcutProof!Next
<1>5. ShortcutProof!ShortcutsMatch => ShortcutsMatch
  BY Zenon DEF ShortcutsMatch,
     Shortcut!Clamp, ShortcutProof!Clamp, Shortcut!Effect, ShortcutProof!Effect, Shortcut!At,
     ShortcutProof!At, Shortcut!Places, ShortcutProof!Places, Shortcut!Before,
     ShortcutProof!Before, Shortcut!ShortcutsMatch, ShortcutProof!ShortcutsMatch
<1> QED
  BY <1>2, <1>3, <1>4, <1>5, PTL DEF Shortcut!Spec, ShortcutProof!Spec
=============================================================================
