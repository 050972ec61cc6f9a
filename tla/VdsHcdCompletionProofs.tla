----------------------- MODULE VdsHcdCompletionProofs -----------------------
(***************************************************************************)
(* How the URBs of VdsHcd complete: when, in which order and as what.      *)
(***************************************************************************)
EXTENDS VdsHcdService, VdsHcdProofs

(* What the invariants of this module are about, the steps of handlers and *)
(* the connection apart.                                                   *)
orderVars == <<ctx, request, ready_time, report, unlinked, born, epoch,
               listVars, input_packets, written, pacingVars>>

(* A handler goes on without touching any of it.                           *)
HandlerGoesOn(u) ==
    \/ pc'[u] = pc[u]
    \/ /\ pc[u] \notin {"none", "queue"} /\ pc'[u] # "handle"
       /\ pc'[u] = "defer" => pc[u] = "handle"

OrderQuiet ==
    /\ UNCHANGED orderVars
    /\ "CONNECTION" \in port_status' => "CONNECTION" \in port_status
    /\ \A u \in Urbs : HandlerGoesOn(u)

LEMMA OrderSteps ==
    ASSUME IInv, [Next]_vars
    PROVE  \/ OrderQuiet
           \/ \E u \in Urbs, r \in Requests : Submit(u, r)
           \/ \E u \in Urbs :
                 \/ HandleHidIn(u) \/ DeferFeatureGet(u) \/ ScheduleIsoOut(u)
                 \/ ScheduleIsoIn(u) \/ QueueResult(u) \/ Unlink(u)
           \/ TakeCompleted \/ GivebackUrb
           \/ \E s \in Sessions :
                 \/ WriteInput(s) \/ CompleteReply(s) \/ Connect(s)
                 \/ Disconnect(s) \/ ReleaseDisconnects(s)
           \/ StopHcd
<1>0. pc \in [Urbs -> Steps]
  BY DEF IInv, TypeOK, ContextTypes
<1>1. ASSUME NEW u \in Urbs,
             \/ HandleOther(u) \/ HandleHidOut(u) \/ HandleFeatureSet(u)
             \/ HandleFeatureGet(u) \/ RequestFeature(u)
             \/ HandleSetConfiguration(u) \/ SetConfiguredStatus(u)
             \/ ClearAudioStatus(u) \/ HandleSetInterface(u)
             \/ SetAudioStatus(u) \/ EnqueueInterfaceEvent(u)
             \/ HandleOtherInterface(u)
      PROVE  OrderQuiet
  <2>1. UNCHANGED orderVars /\ port_status' = port_status
    BY <1>1
    DEF HandleOther, HandleHidOut, HandleFeatureSet, HandleFeatureGet,
        RequestFeature, HandleSetConfiguration, SetConfiguredStatus,
        ClearAudioStatus, HandleSetInterface, SetAudioStatus,
        EnqueueInterfaceEvent, HandleOtherInterface, orderVars, listVars,
        pacingVars, portVars, userVars
  <2>2. /\ pc[u] \notin {"none", "queue"}
        /\ \E step \in Steps \ {"handle"} :
               /\ pc' = [pc EXCEPT ![u] = step]
               /\ step = "defer" => pc[u] = "handle"
    BY <1>1
    DEF HandleOther, HandleHidOut, HandleFeatureSet, HandleFeatureGet,
        RequestFeature, HandleSetConfiguration, SetConfiguredStatus,
        ClearAudioStatus, HandleSetInterface, SetAudioStatus,
        EnqueueInterfaceEvent, HandleOtherInterface, Handling,
        HandlerReturns, Goto, Steps
  <2>3. \A v \in Urbs : HandlerGoesOn(v)
    BY <1>0, <2>2 DEF HandlerGoesOn
  <2> QED
    BY <2>1, <2>3 DEF OrderQuiet
<1>2. ASSUME \/ UNCHANGED vars \/ DeliverIsoOut \/ GivebackThreadExits \/ Tick
             \/ HubNoticesChange \/ HubEnumerates \/ BeginRemove
             \/ \E f \in PortClears : ClearPortFeature(f)
      PROVE  OrderQuiet
  BY <1>2
  DEF vars, DeliverIsoOut, GivebackThreadExits, Tick, HubNoticesChange,
      HubEnumerates, BeginRemove, ClearPortFeature, OrderQuiet, orderVars,
      HandlerGoesOn, contextVars, listVars, pacingVars, portVars, userVars
<1>3. ASSUME NEW s \in Sessions,
             \/ Open(s) \/ Read(s) \/ SetProfile(s) \/ ResetUsbDevice(s)
             \/ Release(s) \/ ReleaseAfterStop(s)
             \/ \E f \in FeatureIds : CacheReply(s, f)
      PROVE  OrderQuiet
  BY <1>3
  DEF Open, Read, SetProfile, ResetUsbDevice, Release, ReleaseAfterStop,
      CacheReply, OrderQuiet, orderVars, HandlerGoesOn, contextVars, listVars,
      pacingVars, portVars, userVars
<1> QED
  BY <1>1, <1>2, <1>3 DEF Next, HandlerStep, GivebackStep, UserStep, HostStep

(***************************************************************************)
(* URBs that wait, and the ready_time they do not have yet.                *)
(***************************************************************************)
Waiting == {"PENDING_HID_IN", "PENDING_FEATURE_GET"}
UntimedInv ==
    \A u \in Urbs :
        ctx[u] \in Waiting \cup {"UNUSED"} \/ pc[u] \in {"handle", "defer"}
        => ready_time[u] = 0
HidInInv ==
    \A u \in Urbs : ctx[u] = "PENDING_HID_IN" => request[u].kind = "hid_in"
WaitInv == UntimedInv /\ HidInInv

(* A step after which no URB waits that did not.                           *)
LEMMA WaitKept ==
    ASSUME WaitInv, request' = request,
           \A u \in Urbs :
               /\ ctx'[u] \in Waiting \cup {"UNUSED"} => ctx'[u] = ctx[u]
               /\ pc'[u] \in {"handle", "defer"} => pc[u] \in {"handle", "defer"}
               /\ \/ ready_time'[u] = ready_time[u] \/ ready_time'[u] = 0
                  \/ /\ ctx'[u] \notin Waiting \cup {"UNUSED"}
                     /\ pc'[u] \notin {"handle", "defer"}
    PROVE  WaitInv'
<1>1. UntimedInv'
  BY DEF WaitInv, UntimedInv
<1>2. HidInInv'
  BY DEF WaitInv, HidInInv, Waiting
<1> QED
  BY <1>1, <1>2 DEF WaitInv

LEMMA WaitHandlers ==
    ASSUME IInv, WaitInv, NEW u \in Urbs,
           \/ HandleHidIn(u) \/ DeferFeatureGet(u) \/ ScheduleIsoOut(u)
           \/ ScheduleIsoIn(u) \/ QueueResult(u) \/ Unlink(u)
    PROVE  WaitInv'
<1>0. /\ ctx \in [Urbs -> ContextStates] /\ pc \in [Urbs -> Steps]
      /\ ready_time \in [Urbs -> Nat]
  BY DEF IInv, TypeOK, ContextTypes
<1>1. CASE HandleHidIn(u)
  <2>1. /\ pc[u] = "handle" /\ ctx[u] = "ACTIVE" /\ request[u].kind = "hid_in"
        /\ request' = request
    BY <1>1 DEF HandleHidIn, Handling, IInv, CoreInv, ActiveInv, ActiveSteps
  <2>2. CASE input_packets # <<>>
    <3>1. /\ ctx' = ctx /\ pc' = [pc EXCEPT ![u] = "queue"]
          /\ \A v \in Urbs \ {u} : ready_time'[v] = ready_time[v]
      BY <1>0, <1>1, <2>2 DEF HandleHidIn, HandlerReturns
    <3> QED
      BY <1>0, <2>1, <3>1, WaitKept DEF Waiting
  <2>3. CASE input_packets = <<>>
    <3>1. /\ ctx' = [ctx EXCEPT ![u] = "PENDING_HID_IN"]
          /\ pc' = [pc EXCEPT ![u] = "none"] /\ ready_time' = ready_time
      BY <1>1, <2>3 DEF HandleHidIn, Goto
    <3> QED
      BY <1>0, <2>1, <3>1 DEF WaitInv, UntimedInv, HidInInv, Waiting
  <2> QED
    BY <2>2, <2>3
<1>2. CASE DeferFeatureGet(u)
  <2>1. /\ pc[u] = "defer" /\ UNCHANGED <<ready_time, request>>
        /\ \/ ctx' = ctx /\ pc' = [pc EXCEPT ![u] = "queue"]
           \/ /\ ctx' = [ctx EXCEPT ![u] = "PENDING_FEATURE_GET"]
              /\ pc' = [pc EXCEPT ![u] = "request"]
    BY <1>2 DEF DeferFeatureGet, HandlerReturns, Goto
  <2> QED
    BY <1>0, <2>1 DEF WaitInv, UntimedInv, HidInInv, Waiting
<1>3. CASE ScheduleIsoOut(u) \/ ScheduleIsoIn(u)
  <2>1. /\ pc[u] = "handle" /\ ctx[u] = "ACTIVE" /\ ctx' = ctx
        /\ pc' = [pc EXCEPT ![u] = "queue"] /\ request' = request
        /\ \A v \in Urbs \ {u} : ready_time'[v] = ready_time[v]
    BY <1>0, <1>3
    DEF ScheduleIsoOut, ScheduleIsoIn, Handling, HandlerReturns, IInv,
        CoreInv, ActiveInv, ActiveSteps
  <2> QED
    BY <1>0, <2>1, WaitKept DEF Waiting
<1>4. CASE QueueResult(u)
  <2>1. /\ pc' = [pc EXCEPT ![u] = "none"] /\ UNCHANGED <<ready_time, request>>
        /\ ctx' = ctx \/ ctx' = [ctx EXCEPT ![u] = "PENDING_GIVEBACK"]
    BY <1>4 DEF QueueResult, QueueGivebackLocked
  <2> QED
    BY <1>0, <2>1, WaitKept DEF Waiting
<1>5. CASE Unlink(u)
  <2>1. /\ UNCHANGED <<pc, request>>
        /\ ctx' = ctx \/ ctx' = [ctx EXCEPT ![u] = "PENDING_GIVEBACK"]
        /\ \/ ready_time' = ready_time
           \/ ready_time' = [ready_time EXCEPT ![u] = 0]
    BY <1>5 DEF Unlink, DequeueUrb, QueueGivebackLocked
  <2> QED
    BY <1>0, <2>1, WaitKept DEF Waiting
<1> QED
  BY <1>1, <1>2, <1>3, <1>4, <1>5

LEMMA WaitWriteInput ==
    ASSUME IInv, WaitInv, NEW s \in Sessions, WriteInput(s)
    PROVE  WaitInv'
<1>0. /\ ctx \in [Urbs -> ContextStates] /\ ready_time \in [Urbs -> Nat]
  BY DEF IInv, TypeOK, ContextTypes
<1>1. UNCHANGED <<pc, request>>
  BY DEF WriteInput
<1>2. CASE pending_hid_in = <<>>
  <2>1. UNCHANGED <<ctx, ready_time>>
    BY <1>2 DEF WriteInput
  <2> QED
    BY <1>1, <2>1, WaitKept
<1>3. CASE pending_hid_in # <<>>
  <2> DEFINE u == Head(pending_hid_in)
  <2>1. u \in Range(pending_hid_in) /\ u \in Urbs
    BY <1>3, PlaceFacts, TailMembers DEF IInv, CoreInv
  <2>2. ctx[u] = "PENDING_HID_IN"
    BY <2>1 DEF IInv, CoreInv, OnePlace, InState
  <2>3. pc[u] \notin {"handle", "defer"}
    BY <2>1, <2>2 DEF IInv, CoreInv, ActiveInv, ActiveSteps
  <2>4. /\ ctx' = [ctx EXCEPT ![u] = "PENDING_GIVEBACK"]
        /\ \A v \in Urbs \ {u} : ready_time'[v] = ready_time[v]
    BY <1>0, <1>3 DEF WriteInput
  <2> HIDE DEF u
  <2> QED
    BY <1>0, <1>1, <2>1, <2>3, <2>4, WaitKept DEF Waiting
<1> QED
  BY <1>2, <1>3

LEMMA WaitInductive ==
    ASSUME IInv, WaitInv, [Next]_vars
    PROVE  WaitInv'
<1>0. /\ ctx \in [Urbs -> ContextStates] /\ pc \in [Urbs -> Steps]
      /\ request \in [Urbs -> Request]
  BY DEF IInv, TypeOK, ContextTypes
<1>1. CASE OrderQuiet
  <2>1. /\ UNCHANGED <<ctx, request, ready_time>>
        /\ \A u \in Urbs : HandlerGoesOn(u)
    BY <1>1 DEF OrderQuiet, orderVars
  <2> QED
    BY <2>1, WaitKept DEF HandlerGoesOn
<1>2. ASSUME NEW u \in Urbs, NEW r \in Requests, Submit(u, r)
      PROVE  WaitInv'
  <2>1. /\ ctx[u] = "UNUSED" /\ ctx' = [ctx EXCEPT ![u] = "ACTIVE"]
        /\ pc' = [pc EXCEPT ![u] = "handle"] /\ ready_time' = ready_time
        /\ request' = [request EXCEPT ![u] = r]
    BY <1>2 DEF Submit
  <2> QED
    BY <1>0, <2>1 DEF WaitInv, UntimedInv, HidInInv, Waiting
<1>3. CASE TakeCompleted \/ GivebackUrb
  <2>1. /\ UNCHANGED <<pc, request, ready_time>>
        /\ \E state \in {"GIVING_BACK", "FREED"} :
               \E u : ctx' = [ctx EXCEPT ![u] = state]
    BY <1>3 DEF TakeCompleted, GivebackUrb
  <2> QED
    BY <1>0, <2>1, WaitKept DEF Waiting
<1>4. ASSUME NEW s \in Sessions, CompleteReply(s) PROVE WaitInv'
  <2>1. /\ UNCHANGED <<pc, request, ready_time>>
        /\ \A u \in Urbs : ctx'[u] = ctx[u] \/ ctx'[u] = "PENDING_GIVEBACK"
    BY <1>4 DEF CompleteReply
  <2> QED
    BY <2>1, WaitKept DEF Waiting
<1>5. ASSUME NEW s \in Sessions, Connect(s) PROVE WaitInv'
  BY <1>5, WaitKept DEF Connect, contextVars
<1>6. CASE \/ StopHcd
           \/ \E s \in Sessions : Disconnect(s) \/ ReleaseDisconnects(s)
  <2>1. /\ UNCHANGED <<pc, request, ready_time>>
        /\ \A u \in Urbs : ctx'[u] = ctx[u] \/ ctx'[u] = "PENDING_GIVEBACK"
    BY <1>6 DEF StopHcd, Disconnect, ReleaseDisconnects, DisconnectLocked,
                CancelPending
  <2> QED
    BY <2>1, WaitKept DEF Waiting
<1> QED
  BY <1>1, <1>2, <1>3, <1>4, <1>5, <1>6, WaitHandlers, WaitWriteInput,
     OrderSteps

LEMMA WaitInit == Init => WaitInv
BY DEF Init, WaitInv, UntimedInv, HidInInv, Waiting

(***************************************************************************)
(* NoReportWaits is inductive as it stands.                                *)
(***************************************************************************)
LEMMA ReportsKept ==
    ASSUME NoReportWaits, input_packets' = input_packets,
           pending_hid_in = <<>> => pending_hid_in' = <<>>
    PROVE  NoReportWaits'
BY DEF NoReportWaits

LEMMA ReportsHandleHidIn ==
    ASSUME IInv, NoReportWaits, NEW u \in Urbs, HandleHidIn(u)
    PROVE  NoReportWaits'
<1>1. input_packets \in Seq(Nat)
  BY DEF IInv, TypeOK, QueueTypes
<1>2. CASE input_packets # <<>>
  <2>1. input_packets' = Tail(input_packets) /\ pending_hid_in' = pending_hid_in
    BY <1>2 DEF HandleHidIn
  <2>2. Len(input_packets') = 0 /\ input_packets' \in Seq(Nat)
    <3> DEFINE n == Len(input_packets)
    <3>1. n \in Nat /\ n # 0
      BY <1>1, <1>2
    <3>2. n <= 1
      BY DEF NoReportWaits
    <3> HIDE DEF n
    <3>3. n = 1
      BY <3>1, <3>2
    <3>4. /\ Tail(input_packets) \in Seq(Nat)
          /\ Len(Tail(input_packets)) = n - 1
      BY <1>1, <1>2 DEF n
    <3> QED
      BY <2>1, <3>3, <3>4
  <2>3. input_packets' = <<>>
    BY <2>2
  <2> QED
    BY <2>2, <2>3 DEF NoReportWaits
<1>3. CASE input_packets = <<>>
  BY <1>3 DEF HandleHidIn, NoReportWaits
<1> QED
  BY <1>2, <1>3

LEMMA ReportsInductive ==
    ASSUME IInv, NoReportWaits, [Next]_vars
    PROVE  NoReportWaits'
<1>1. CASE \/ OrderQuiet \/ GivebackUrb \/ TakeCompleted
           \/ \E u \in Urbs, r \in Requests : Submit(u, r)
           \/ \E u \in Urbs :
                 DeferFeatureGet(u) \/ ScheduleIsoOut(u) \/ ScheduleIsoIn(u)
           \/ \E s \in Sessions : CompleteReply(s) \/ Connect(s)
  <2>1. UNCHANGED <<input_packets, pending_hid_in>>
    BY <1>1 DEF OrderQuiet, orderVars, listVars, GivebackUrb, TakeCompleted,
                Submit, DeferFeatureGet, ScheduleIsoOut, ScheduleIsoIn,
                CompleteReply, Connect
  <2> QED
    BY <2>1, ReportsKept
<1>2. ASSUME NEW u \in Urbs, QueueResult(u) \/ Unlink(u)
      PROVE  NoReportWaits'
  <2>1. /\ input_packets' = input_packets
        /\ \/ pending_hid_in' = pending_hid_in
           \/ pending_hid_in' = ListDel(pending_hid_in, u)
    BY <1>2 DEF QueueResult, Unlink, DequeueUrb, QueueGivebackLocked, listVars
  <2> QED
    BY <2>1, EmptyListDel, ReportsKept
<1>3. ASSUME NEW s \in Sessions, WriteInput(s) PROVE NoReportWaits'
  <2>1. pending_hid_in \in Seq(Urbs) /\ written \in Nat
    BY DEF IInv, TypeOK, ListTypes, UserTypes
  <2>2. CASE pending_hid_in = <<>>
    <3>1. input_packets' = <<written + 1>> /\ pending_hid_in' = <<>>
      BY <1>3, <2>2 DEF WriteInput, Buffered
    <3> QED
      BY <3>1 DEF NoReportWaits
  <2>3. CASE pending_hid_in # <<>>
    BY <1>3, <2>3 DEF WriteInput, NoReportWaits
  <2> QED
    BY <2>2, <2>3
<1>4. CASE \/ StopHcd
           \/ \E s \in Sessions : Disconnect(s) \/ ReleaseDisconnects(s)
  <2>1. input_packets' = <<>> /\ pending_hid_in' = <<>>
    BY <1>4 DEF StopHcd, Disconnect, ReleaseDisconnects, DisconnectLocked,
                CancelPending, FlushBufferedFrames
  <2> QED
    BY <2>1 DEF NoReportWaits
<1> QED
  BY <1>1, <1>2, <1>3, <1>4, ReportsHandleHidIn, OrderSteps

(* The driver never holds a snapshot back from a URB that waits for one,   *)
(* and never more than the newest, whichever of vds_interrupt_in_urb and   *)
(* vds_write_input_frame comes first.                                      *)
THEOREM ReportsCorrect == Spec => []NoReportWaits
<1>1. Init => NoReportWaits
  BY DEF Init, NoReportWaits
<1> QED
  BY <1>1, ReportsInductive, Invariance, PTL DEF Spec

(***************************************************************************)
(* CompletionOrder.                                                        *)
(***************************************************************************)
LEMMA OrderIsQueueOrder ==
    CompletionOrder <=> QueueOrder(completed_urbs, ready_time, unlinked)
BY DEF CompletionOrder, QueueOrder

(* A step that changes nothing about the URBs in the queue.                *)
LEMMA OrderKept ==
    ASSUME TypeOK, CompletionOrder, completed_urbs' = completed_urbs,
           \A u \in Range(completed_urbs) : ready_time'[u] = ready_time[u],
           unlinked \subseteq unlinked'
    PROVE  CompletionOrder'
<1>1. \A i \in 1..Len(completed_urbs) : completed_urbs[i] \in Range(completed_urbs)
  BY RangeMember DEF TypeOK, ListTypes
<1> QED
  BY <1>1 DEF CompletionOrder, TimedSorted

(* URBs that share a ready_time are queued.                                *)
LEMMA OrderQueued ==
    ASSUME TypeOK, TypeOK', CompletionOrder, NEW urbs \in Seq(Urbs),
           NEW time \in Nat,
           completed_urbs' = QueueGiveback(completed_urbs, ready_time, urbs, time),
           \A u \in Range(completed_urbs) : ready_time'[u] = ready_time[u],
           \A u \in Range(urbs) : ready_time'[u] = time,
           unlinked \subseteq unlinked'
    PROVE  CompletionOrder'
<1>1. /\ completed_urbs \in Seq(Urbs) /\ ready_time \in [Urbs -> Nat]
      /\ ready_time' \in [Urbs -> Nat]
  BY DEF TypeOK, ContextTypes, ListTypes
<1>2. QueueOrder(completed_urbs', ready_time', unlinked)
  BY <1>1, OrderIsQueueOrder, QueueGivebackOrder
<1> QED
  BY <1>2 DEF QueueOrder, CompletionOrder

LEMMA OrderQueueGivebackLocked ==
    ASSUME IInv, TypeOK', CompletionOrder, NEW u \in Urbs, NEW result,
           QueueGivebackLocked(u, result), ready_time' = ready_time,
           unlinked \subseteq unlinked'
    PROVE  CompletionOrder'
<1>1. CASE GivebackRefused(u)
  BY <1>1, OrderKept DEF QueueGivebackLocked, listVars, IInv
<1>2. CASE ~GivebackRefused(u)
  <2>1. /\ completed_urbs' = QueueGiveback(completed_urbs, ready_time, <<u>>,
                                           ready_time[u])
        /\ ready_time[u] \in Nat
    BY <1>2 DEF QueueGivebackLocked, IInv, TypeOK, ContextTypes
  <2>2. <<u>> \in Seq(Urbs) /\ Range(<<u>>) = {u}
    BY Singleton
  <2> QED
    BY <2>1, <2>2, OrderQueued DEF IInv
<1> QED
  BY <1>1, <1>2

LEMMA OrderUnlink ==
    ASSUME IInv, TypeOK', CompletionOrder, NEW u \in Urbs, Unlink(u)
    PROVE  CompletionOrder'
<1>1. unlinked' = unlinked \cup {u}
  BY DEF Unlink, DequeueUrb
<1>2. CASE ctx[u] = "PENDING_GIVEBACK"
  <2>1. /\ ready_time' = [ready_time EXCEPT ![u] = 0]
        /\ completed_urbs' = completed_urbs
    BY <1>2 DEF Unlink, DequeueUrb, listVars
  <2>2. completed_urbs \in Seq(Urbs) /\ ready_time \in [Urbs -> Nat]
    BY DEF IInv, TypeOK, ContextTypes, ListTypes
  <2>3. QueueOrder(completed_urbs', ready_time', unlinked')
    BY <1>1, <2>1, <2>2, OrderIsQueueOrder, QueueClearedOrder
  <2> QED
    BY <2>3 DEF QueueOrder, CompletionOrder
<1>3. CASE ctx[u] # "PENDING_GIVEBACK"
  <2>1. QueueGivebackLocked(u, "UNLINKED") /\ ready_time' = ready_time
    BY <1>3 DEF Unlink, DequeueUrb
  <2> QED
    BY <1>1, <2>1, OrderQueueGivebackLocked
<1> QED
  BY <1>2, <1>3

(* A handler gives its URB a ready_time before the URB is queued.          *)
LEMMA OrderHandlers ==
    ASSUME IInv, CompletionOrder, NEW u \in Urbs,
           HandleHidIn(u) \/ ScheduleIsoOut(u) \/ ScheduleIsoIn(u)
    PROVE  CompletionOrder'
<1>1. /\ pc[u] = "handle" /\ UNCHANGED <<completed_urbs, unlinked>>
      /\ \/ ready_time' = ready_time
         \/ \E ready : ready_time' = [ready_time EXCEPT ![u] = ready]
  BY DEF HandleHidIn, ScheduleIsoOut, ScheduleIsoIn, Handling, listVars
<1>2. ready_time \in [Urbs -> Nat]
  BY DEF IInv, TypeOK, ContextTypes
<1>3. u \notin Range(completed_urbs)
  BY <1>1 DEF IInv, CoreInv, ActiveInv, ActiveSteps, OnePlace, InState
<1>4. \A v \in Range(completed_urbs) : v \in Urbs
  BY DEF IInv, CoreInv, OnePlace, InState
<1>5. \A v \in Range(completed_urbs) : ready_time'[v] = ready_time[v]
  BY <1>1, <1>2, <1>3, <1>4
<1> QED
  BY <1>1, <1>5, OrderKept DEF IInv

LEMMA OrderWriteInput ==
    ASSUME IInv, TypeOK', CompletionOrder, NEW s \in Sessions, WriteInput(s)
    PROVE  CompletionOrder'
<1>1. CASE pending_hid_in = <<>>
  <2>1. UNCHANGED <<completed_urbs, ready_time, unlinked>>
    BY <1>1 DEF WriteInput
  <2> QED
    BY <2>1, OrderKept DEF IInv
<1>2. CASE pending_hid_in # <<>>
  <2> DEFINE u == Head(pending_hid_in)
             ready == NextReady(next_hid_in_ready, HidInterval)
  <2>1. u \in Range(pending_hid_in) /\ u \in Urbs
    BY <1>2, PlaceFacts, TailMembers DEF IInv, CoreInv
  <2>2. u \notin Range(completed_urbs)
    BY <2>1 DEF IInv, CoreInv, OnePlace, InState
  <2>3. /\ ready_time' = [ready_time EXCEPT ![u] = ready]
        /\ completed_urbs' = QueueGiveback(completed_urbs, ready_time, <<u>>,
                                           ready)
        /\ unlinked' = unlinked
    BY <1>2 DEF WriteInput
  <2>4. ready \in Nat /\ ready_time \in [Urbs -> Nat]
    BY NextReadyType, BoundsAssumption DEF IInv, TypeOK, ClockTypes, ContextTypes
  <2> HIDE DEF u, ready
  <2>5. <<u>> \in Seq(Urbs) /\ Range(<<u>>) = {u}
    BY <2>1, Singleton
  <2>6. \A v \in Range(completed_urbs) : v \in Urbs
    BY DEF IInv, CoreInv, OnePlace, InState
  <2>7. /\ \A v \in Range(completed_urbs) : ready_time'[v] = ready_time[v]
        /\ \A v \in Range(<<u>>) : ready_time'[v] = ready
    BY <2>1, <2>2, <2>3, <2>4, <2>5, <2>6
  <2> QED
    BY <2>3, <2>4, <2>5, <2>7, OrderQueued DEF IInv
<1> QED
  BY <1>1, <1>2

LEMMA OrderCompleteReply ==
    ASSUME IInv, TypeOK', WaitInv, CompletionOrder, NEW s \in Sessions,
           CompleteReply(s)
    PROVE  CompletionOrder'
<1>1. UNCHANGED <<ready_time, unlinked>>
  BY DEF CompleteReply
<1>2. CASE stopping
  BY <1>1, <1>2, OrderKept DEF CompleteReply, IInv
<1>3. CASE ~stopping
  <2>1. PICK done \in InListOrder(pending_feature_get, Answered(replying[s])) :
            completed_urbs' = QueueGiveback(completed_urbs, ready_time, done, 0)
    BY <1>3 DEF CompleteReply
  <2>2. /\ done \in Seq(Urbs)
        /\ Range(done) = Range(pending_feature_get) \cap Answered(replying[s])
    BY <2>1, PlaceFacts, InListOrderMembers DEF IInv, CoreInv
  <2>3. \A u \in Range(done) : ready_time[u] = 0
    BY <2>2 DEF WaitInv, UntimedInv, Waiting, IInv, CoreInv, OnePlace, InState
  <2> QED
    BY <1>1, <2>1, <2>2, <2>3, OrderQueued DEF IInv
<1> QED
  BY <1>2, <1>3

LEMMA OrderCancelPending ==
    ASSUME IInv, TypeOK', WaitInv, CompletionOrder, CancelPending,
           UNCHANGED <<ready_time, unlinked>>
    PROVE  CompletionOrder'
<1> DEFINE pending == pending_hid_in \o pending_feature_get
<1>1. completed_urbs' = QueueGiveback(completed_urbs, ready_time, pending, 0)
  BY DEF CancelPending
<1>2. /\ pending \in Seq(Urbs)
      /\ Range(pending) = InState("PENDING_HID_IN")
                              \cup InState("PENDING_FEATURE_GET")
  BY PlaceFacts, ConcatMembers DEF IInv, CoreInv, OnePlace
<1> HIDE DEF pending
<1>3. \A u \in Range(pending) : ready_time[u] = 0
  BY <1>2 DEF WaitInv, UntimedInv, Waiting, InState
<1> QED
  BY <1>1, <1>2, <1>3, OrderQueued DEF IInv

LEMMA OrderInductive ==
    ASSUME IInv, IInv', WaitInv, CompletionOrder, [Next]_vars
    PROVE  CompletionOrder'
<1>1. CASE \/ OrderQuiet \/ GivebackUrb
           \/ \E u \in Urbs, r \in Requests : Submit(u, r)
           \/ \E u \in Urbs : DeferFeatureGet(u)
           \/ \E s \in Sessions : Connect(s)
  <2>1. UNCHANGED <<completed_urbs, ready_time, unlinked>>
    BY <1>1 DEF OrderQuiet, orderVars, listVars, GivebackUrb, Submit,
                DeferFeatureGet, Connect, contextVars
  <2> QED
    BY <2>1, OrderKept DEF IInv
<1>2. ASSUME NEW u \in Urbs, QueueResult(u) PROVE CompletionOrder'
  BY <1>2, OrderQueueGivebackLocked DEF QueueResult, IInv
<1>3. CASE TakeCompleted
  <2>1. /\ completed_urbs # <<>> /\ completed_urbs' = Tail(completed_urbs)
        /\ UNCHANGED <<ready_time, unlinked>>
    BY <1>3 DEF TakeCompleted
  <2>2. completed_urbs \in Seq(Urbs)
    BY DEF IInv, TypeOK, ListTypes
  <2>3. QueueOrder(completed_urbs', ready_time', unlinked')
    BY <2>1, <2>2, OrderIsQueueOrder, QueueTailOrder
  <2> QED
    BY <2>3 DEF QueueOrder, CompletionOrder
<1>4. CASE \/ StopHcd
           \/ \E s \in Sessions : Disconnect(s) \/ ReleaseDisconnects(s)
  <2>1. CancelPending /\ UNCHANGED <<ready_time, unlinked>>
    BY <1>4 DEF StopHcd, Disconnect, ReleaseDisconnects, DisconnectLocked
  <2> QED
    BY <2>1, OrderCancelPending DEF IInv
<1> QED
  BY <1>1, <1>2, <1>3, <1>4, OrderUnlink, OrderHandlers, OrderWriteInput,
     OrderCompleteReply, OrderSteps DEF IInv

(* No control or interrupt URB completes behind a future audio completion, *)
(* and paced ones complete in order of their deadlines, whatever is        *)
(* queued, unlinked, answered and cancelled in between.                    *)
THEOREM OrderCorrect == Spec => []CompletionOrder
<1>1. Init => CompletionOrder
  BY DEF Init, CompletionOrder, TimedSorted
<1>2. IInv /\ IInv' /\ WaitInv /\ CompletionOrder /\ [Next]_vars
      => WaitInv' /\ CompletionOrder'
  BY WaitInductive, OrderInductive
<1> QED
  BY <1>1, <1>2, WaitInit, Invariance, PTL DEF Spec

(***************************************************************************)
(* Paced: no URB of a connection is due after the deadline its endpoint    *)
(* has reached, and the next one is due an interval later.                 *)
(***************************************************************************)
NextDue(kind) ==
    CASE kind = "hid_in" -> next_hid_in_ready
      [] kind = "iso_in" -> next_iso_in_ready
      [] OTHER           -> next_iso_out_ready
DueInv ==
    \A u \in Urbs :
        Current(u) /\ request[u].kind \in PeriodicKinds
        => ready_time[u] <= NextDue(request[u].kind)
PacedInv == DueInv /\ Paced

LEMMA NextDueType == TypeOK => \A kind : NextDue(kind) \in Nat
BY DEF TypeOK, ClockTypes, NextDue

LEMMA IntervalType == \A kind : Interval(kind) \in Nat /\ Interval(kind) # 0
BY BoundsAssumption DEF Interval

(* A step that gives no deadline, and makes no URB current that had one.   *)
LEMMA PacedKept ==
    ASSUME TypeOK, TypeOK', PacedInv, UNCHANGED pacingVars,
           \A u \in Urbs :
               \/ ready_time'[u] = 0
               \/ /\ ready_time'[u] = ready_time[u]
                  /\ request'[u] = request[u]
                  /\ Current(u)' => Current(u)
    PROVE  PacedInv'
<1>1. \A kind : NextDue(kind)' = NextDue(kind) /\ NextDue(kind) \in Nat
  BY NextDueType DEF NextDue, pacingVars
<1>2. ready_time \in [Urbs -> Nat] /\ ready_time' \in [Urbs -> Nat]
  BY DEF TypeOK, ContextTypes
<1>3. DueInv'
  BY <1>1, <1>2 DEF PacedInv, DueInv
<1>4. \A u, v \in Urbs :
          ready_time'[u] # 0 /\ ready_time'[u] <= ready_time'[v]
          => ready_time'[v] # 0
  BY <1>2
<1>5. Paced'
  BY <1>4 DEF PacedInv, Paced, Interval
<1> QED
  BY <1>3, <1>5 DEF PacedInv

(* A step that gives u a deadline beyond its endpoint's last one.          *)
LEMMA PacedTimed ==
    ASSUME TypeOK, TypeOK', PacedInv, NEW u \in Urbs, NEW ready \in Nat,
           request[u].kind \in PeriodicKinds,
           ready >= NextDue(request[u].kind) + Interval(request[u].kind),
           ready_time' = [ready_time EXCEPT ![u] = ready],
           \A kind \in PeriodicKinds :
               NextDue(kind)' = IF kind = request[u].kind
                                THEN ready ELSE NextDue(kind),
           UNCHANGED <<request, born, epoch, port_status>>
    PROVE  PacedInv'
<1>1. ready_time \in [Urbs -> Nat]
  BY DEF TypeOK, ContextTypes
<1>2. \A kind : /\ NextDue(kind) \in Nat /\ NextDue(kind)' \in Nat
                /\ Interval(kind) \in Nat /\ Interval(kind) # 0
  BY IntervalType DEF TypeOK, ClockTypes, NextDue
<1>3. \A v \in Urbs : Current(v)' <=> Current(v)
  BY DEF Current
<1>4. /\ ready_time'[u] = ready
      /\ \A v \in Urbs \ {u} : ready_time'[v] = ready_time[v]
  BY <1>1
<1>5. DueInv'
  <2> SUFFICES ASSUME NEW v \in Urbs, Current(v),
                      request[v].kind \in PeriodicKinds
               PROVE  ready_time'[v] <= NextDue(request[v].kind)'
    BY <1>3 DEF DueInv
  <2>1. v # u => ready_time[v] <= NextDue(request[v].kind)
    BY DEF PacedInv, DueInv
  <2>2. ready_time[v] \in Nat
    BY <1>1
  <2>3. CASE request[v].kind = request[u].kind
    BY <1>2, <1>4, <2>1, <2>2, <2>3
  <2>4. CASE request[v].kind # request[u].kind
    BY <1>4, <2>1, <2>4
  <2> QED
    BY <2>3, <2>4
<1>6. Paced'
  <2> SUFFICES ASSUME NEW v \in Urbs, NEW w \in Urbs, v # w,
                      request[v] = request[w],
                      request[v].kind \in PeriodicKinds,
                      Current(v), Current(w),
                      ready_time'[v] # 0, ready_time'[v] <= ready_time'[w]
               PROVE  ready_time'[w] - ready_time'[v]
                          >= Interval(request[v].kind)
    BY <1>3 DEF Paced, Interval
  <2>1. /\ ready_time[v] <= NextDue(request[v].kind) /\ ready_time[v] \in Nat
        /\ ready_time[w] <= NextDue(request[v].kind) /\ ready_time[w] \in Nat
    BY <1>1 DEF PacedInv, DueInv
  <2>2. CASE u \notin {v, w}
    BY <1>4, <2>2 DEF PacedInv, Paced
  <2>3. CASE w = u
    BY <1>2, <1>4, <2>1, <2>3
  <2>4. CASE v = u
    BY <1>2, <1>4, <2>1, <2>4
  <2> QED
    BY <2>2, <2>3, <2>4
<1> QED
  BY <1>5, <1>6 DEF PacedInv

LEMMA PacedNone ==
    ASSUME \A u \in Urbs : ~Current(u)'
    PROVE  PacedInv'
BY DEF PacedInv, DueInv, Paced

LEMMA NextReadyLater ==
    ASSUME NEW next \in Nat, NEW interval \in Nat, now \in Nat
    PROVE  /\ NextReady(next, interval) \in Nat
           /\ NextReady(next, interval) >= next + interval
BY DEF NextReady

LEMMA PacedHandlers ==
    ASSUME IInv, TypeOK', PacedInv, NEW u \in Urbs,
           HandleHidIn(u) \/ ScheduleIsoOut(u) \/ ScheduleIsoIn(u)
    PROVE  PacedInv'
<1>0. /\ now \in Nat /\ next_hid_in_ready \in Nat
      /\ next_iso_in_ready \in Nat /\ next_iso_out_ready \in Nat
      /\ HidInterval \in Nat /\ IsoDuration \in Nat
  BY BoundsAssumption DEF IInv, TypeOK, ClockTypes
<1>1. UNCHANGED <<request, born, epoch, port_status>>
  BY DEF HandleHidIn, ScheduleIsoOut, ScheduleIsoIn, portVars
<1>2. CASE HandleHidIn(u) /\ input_packets # <<>>
  <2> DEFINE ready == NextReady(next_hid_in_ready, HidInterval)
  <2>1. /\ request[u].kind = "hid_in"
        /\ ready_time' = [ready_time EXCEPT ![u] = ready]
        /\ next_hid_in_ready' = ready
        /\ UNCHANGED <<next_iso_in_ready, next_iso_out_ready>>
    BY <1>2 DEF HandleHidIn, Handling
  <2>2. ready \in Nat /\ ready >= next_hid_in_ready + HidInterval
    BY <1>0, NextReadyLater
  <2> HIDE DEF ready
  <2>3. /\ ready >= NextDue(request[u].kind) + Interval(request[u].kind)
        /\ request[u].kind \in PeriodicKinds
    BY <2>1, <2>2 DEF NextDue, Interval, PeriodicKinds
  <2>4. \A kind \in PeriodicKinds :
            NextDue(kind)' = IF kind = request[u].kind
                             THEN ready ELSE NextDue(kind)
    BY <2>1 DEF NextDue
  <2> QED
    BY <1>1, <2>1, <2>2, <2>3, <2>4, PacedTimed DEF IInv
<1>3. CASE HandleHidIn(u) /\ input_packets = <<>>
  <2>1. UNCHANGED pacingVars /\ ready_time' = ready_time
    BY <1>3 DEF HandleHidIn, pacingVars
  <2> QED
    BY <1>1, <2>1, PacedKept DEF IInv, Current
<1>4. CASE ScheduleIsoOut(u)
  <2> DEFINE ready == NextReady(next_iso_out_ready, IsoDuration)
  <2>1. /\ request[u].kind = "iso_out"
        /\ ready_time' = [ready_time EXCEPT ![u] = ready]
        /\ next_iso_out_ready' = ready
        /\ UNCHANGED <<next_hid_in_ready, next_iso_in_ready>>
    BY <1>4 DEF ScheduleIsoOut, Handling
  <2>2. ready \in Nat /\ ready >= next_iso_out_ready + IsoDuration
    BY <1>0, NextReadyLater
  <2> HIDE DEF ready
  <2>3. /\ ready >= NextDue(request[u].kind) + Interval(request[u].kind)
        /\ request[u].kind \in PeriodicKinds
    BY <2>1, <2>2 DEF NextDue, Interval, PeriodicKinds, IsoKinds
  <2>4. \A kind \in PeriodicKinds :
            NextDue(kind)' = IF kind = request[u].kind
                             THEN ready ELSE NextDue(kind)
    BY <2>1 DEF NextDue, PeriodicKinds, IsoKinds
  <2> QED
    BY <1>1, <2>1, <2>2, <2>3, <2>4, PacedTimed DEF IInv
<1>5. CASE ScheduleIsoIn(u)
  <2> DEFINE ready == NextReady(next_iso_in_ready, IsoDuration)
  <2>1. /\ request[u].kind = "iso_in"
        /\ ready_time' = [ready_time EXCEPT ![u] = ready]
        /\ next_iso_in_ready' = ready
        /\ UNCHANGED <<next_hid_in_ready, next_iso_out_ready>>
    BY <1>5 DEF ScheduleIsoIn, Handling
  <2>2. ready \in Nat /\ ready >= next_iso_in_ready + IsoDuration
    BY <1>0, NextReadyLater
  <2> HIDE DEF ready
  <2>3. /\ ready >= NextDue(request[u].kind) + Interval(request[u].kind)
        /\ request[u].kind \in PeriodicKinds
    BY <2>1, <2>2 DEF NextDue, Interval, PeriodicKinds, IsoKinds
  <2>4. \A kind \in PeriodicKinds :
            NextDue(kind)' = IF kind = request[u].kind
                             THEN ready ELSE NextDue(kind)
    BY <2>1 DEF NextDue, PeriodicKinds, IsoKinds
  <2> QED
    BY <1>1, <2>1, <2>2, <2>3, <2>4, PacedTimed DEF IInv
<1> QED
  BY <1>2, <1>3, <1>4, <1>5

LEMMA PacedWriteInput ==
    ASSUME IInv, TypeOK', WaitInv, PacedInv, NEW s \in Sessions, WriteInput(s)
    PROVE  PacedInv'
<1>0. /\ now \in Nat /\ next_hid_in_ready \in Nat /\ HidInterval \in Nat
  BY BoundsAssumption DEF IInv, TypeOK, ClockTypes
<1>1. /\ UNCHANGED <<request, born, epoch, port_status>>
      /\ UNCHANGED <<next_iso_in_ready, next_iso_out_ready>>
  BY DEF WriteInput, portVars
<1>2. CASE pending_hid_in = <<>>
  <2>1. UNCHANGED pacingVars /\ ready_time' = ready_time
    BY <1>1, <1>2 DEF WriteInput, pacingVars
  <2> QED
    BY <1>1, <2>1, PacedKept DEF IInv, Current
<1>3. CASE pending_hid_in # <<>>
  <2> DEFINE u == Head(pending_hid_in)
             ready == NextReady(next_hid_in_ready, HidInterval)
  <2>1. u \in Range(pending_hid_in) /\ u \in Urbs
    BY <1>3, PlaceFacts, TailMembers DEF IInv, CoreInv
  <2>2. request[u].kind = "hid_in"
    BY <2>1 DEF IInv, CoreInv, OnePlace, InState, WaitInv, HidInInv
  <2>3. /\ ready_time' = [ready_time EXCEPT ![u] = ready]
        /\ next_hid_in_ready' = ready
    BY <1>3 DEF WriteInput
  <2>4. ready \in Nat /\ ready >= next_hid_in_ready + HidInterval
    BY <1>0, NextReadyLater
  <2> HIDE DEF u, ready
  <2>5. /\ ready >= NextDue(request[u].kind) + Interval(request[u].kind)
        /\ request[u].kind \in PeriodicKinds
    BY <2>2, <2>4 DEF NextDue, Interval, PeriodicKinds
  <2>6. \A kind \in PeriodicKinds :
            NextDue(kind)' = IF kind = request[u].kind
                             THEN ready ELSE NextDue(kind)
    BY <1>1, <2>2, <2>3 DEF NextDue
  <2> QED
    BY <1>1, <2>1, <2>3, <2>4, <2>5, <2>6, PacedTimed DEF IInv
<1> QED
  BY <1>2, <1>3

LEMMA PacedInductive ==
    ASSUME IInv, IInv', WaitInv, LinkInv, PacedInv, [Next]_vars
    PROVE  PacedInv'
<1>0. /\ ready_time \in [Urbs -> Nat] /\ request \in [Urbs -> Request]
      /\ born \in [Urbs -> Nat] /\ epoch \in Nat
  BY DEF IInv, TypeOK, ContextTypes, HubTypes
<1>1. CASE OrderQuiet
  <2>1. /\ UNCHANGED <<ready_time, request, born, epoch, pacingVars>>
        /\ "CONNECTION" \in port_status' => "CONNECTION" \in port_status
    BY <1>1 DEF OrderQuiet, orderVars
  <2>2. \A u \in Urbs : Current(u)' => Current(u)
    BY <2>1 DEF Current
  <2> QED
    BY <2>1, <2>2, PacedKept DEF IInv
<1>2. ASSUME NEW u \in Urbs, NEW r \in Requests, Submit(u, r)
      PROVE  PacedInv'
  <2>1. /\ ctx[u] = "UNUSED" /\ UNCHANGED <<ready_time, epoch, pacingVars>>
        /\ request' = [request EXCEPT ![u] = r] /\ port_status' = port_status
        /\ born' = [born EXCEPT ![u] = epoch]
    BY <1>2 DEF Submit, portVars
  <2>2. ready_time'[u] = 0
    BY <2>1 DEF WaitInv, UntimedInv
  <2>3. \A v \in Urbs \ {u} :
            request'[v] = request[v] /\ (Current(v)' => Current(v))
    BY <1>0, <2>1 DEF Current
  <2> QED
    BY <2>1, <2>2, <2>3, PacedKept DEF IInv
<1>3. CASE \/ TakeCompleted \/ GivebackUrb \/ StopHcd
           \/ \E u \in Urbs : DeferFeatureGet(u) \/ QueueResult(u) \/ Unlink(u)
           \/ \E s \in Sessions : CompleteReply(s)
  <2>1. UNCHANGED <<request, born, epoch, port_status, pacingVars>>
    BY <1>3 DEF TakeCompleted, GivebackUrb, StopHcd, DeferFeatureGet,
                QueueResult, Unlink, DequeueUrb, CompleteReply, portVars
  <2>2. \/ ready_time' = ready_time
        \/ \E u \in Urbs : ready_time' = [ready_time EXCEPT ![u] = 0]
    BY <1>3 DEF TakeCompleted, GivebackUrb, StopHcd, DeferFeatureGet,
                QueueResult, Unlink, DequeueUrb, CompleteReply
  <2>3. \A u \in Urbs : ready_time'[u] = ready_time[u] \/ ready_time'[u] = 0
    BY <1>0, <2>2
  <2> QED
    BY <2>1, <2>3, PacedKept DEF IInv, Current
<1>4. ASSUME NEW s \in Sessions, Connect(s) PROVE PacedInv'
  <2>1. /\ UNCHANGED <<request, born, ready_time, pacingVars>>
        /\ IF "CONNECTION" \in port_status THEN epoch' = epoch
                                           ELSE epoch' = epoch + 1
    BY <1>4 DEF Connect, contextVars
  <2>2. \A u \in Urbs : Current(u)' => Current(u)
    BY <1>0, <2>1 DEF Current, LinkInv, BornInv
  <2> QED
    BY <2>1, <2>2, PacedKept DEF IInv
<1>5. ASSUME NEW s \in Sessions, Disconnect(s) \/ ReleaseDisconnects(s)
      PROVE  PacedInv'
  <2>1. "CONNECTION" \notin port_status'
    BY <1>5 DEF Disconnect, ReleaseDisconnects, DisconnectLocked,
                PortDisconnected
  <2> QED
    BY <2>1, PacedNone DEF Current
<1> QED
  BY <1>1, <1>2, <1>3, <1>4, <1>5, PacedHandlers, PacedWriteInput, OrderSteps
  DEF IInv

(* Two URBs of a paced endpoint are due at least its interval apart,       *)
(* whichever of the three paths gave them their deadline and whatever was  *)
(* unlinked or cancelled meanwhile.                                        *)
THEOREM PacedCorrect == Spec => []Paced
<1>1. Init => LinkInv /\ PacedInv
  BY DEF Init, LinkInv, BornInv, ConnectedInv, StoppedInv, PacedInv, DueInv,
         Paced, Current
<1>2. IInv /\ IInv' /\ WaitInv /\ LinkInv /\ PacedInv /\ [Next]_vars
      => WaitInv' /\ LinkInv' /\ PacedInv'
  BY WaitInductive, LinkInductive, PacedInductive
<1>3. PacedInv => Paced
  BY DEF PacedInv
<1> QED
  BY <1>1, <1>2, <1>3, WaitInit, Invariance, PTL DEF Spec

(***************************************************************************)
(* HidInInOrder.  A snapshot goes to a HID IN URB and is older than what   *)
(* is buffered; a URB that waits or has just been submitted has none, and  *)
(* while the handler that took one has not queued its URB yet, no URB      *)
(* waits and no newer snapshot is taken; a newer snapshot is due later.    *)
(***************************************************************************)
ReportOrigin ==
    \A u \in Urbs :
        /\ report[u] # 0 => request[u].kind = "hid_in"
        /\ report[u] <= written
        /\ \A i \in 1..Len(input_packets) :
               report[u] < input_packets[i] /\ input_packets[i] <= written
ReportPlace ==
    \A u \in Urbs : report[u] # 0 =>
        /\ ctx[u] \notin Waiting \cup {"UNUSED"} /\ pc[u] # "handle"
        /\ ctx[u] = "ACTIVE"
           => /\ pc[u] = "queue" /\ pending_hid_in = <<>>
              /\ \A v \in Urbs : report[v] <= report[u]
ReportTime ==
    \A u \in Urbs \ unlinked : report[u] # 0 =>
        /\ ready_time[u] # 0
        /\ \A v \in Urbs \ unlinked :
               Current(u) /\ Current(v) /\ report[u] < report[v]
               => ready_time[u] < ready_time[v]
ReportInv == ReportOrigin /\ ReportPlace /\ ReportTime /\ HidInInOrder

LEMMA ReportTypes ==
    TypeOK => report \in [Urbs -> Nat] /\ written \in Nat
              /\ ready_time \in [Urbs -> Nat] /\ input_packets \in Seq(Nat)
BY DEF TypeOK, ContextTypes, UserTypes, QueueTypes

(* A step that hands out no snapshot and gives no URB back.                *)
LEMMA ReportKept ==
    ASSUME ReportInv,
           UNCHANGED <<report, written>>, unlinked \subseteq unlinked',
           input_packets' = input_packets \/ input_packets' = <<>>,
           \/ pending_hid_in = <<>> => pending_hid_in' = <<>>
           \/ \A u \in Urbs : ctx[u] = "ACTIVE" => report[u] = 0,
           \A u \in Urbs : report[u] # 0 =>
               /\ request'[u] = request[u]
               /\ Current(u)' => Current(u)
               /\ u \notin unlinked' => ready_time'[u] = ready_time[u]
               /\ ctx'[u] \in Waiting \cup {"UNUSED"}
                  => ctx[u] \in Waiting \cup {"UNUSED"}
               /\ pc'[u] = "handle" => pc[u] = "handle",
           \A u \in Urbs : report[u] # 0 /\ ctx'[u] = "ACTIVE" =>
               ctx[u] = "ACTIVE" /\ (pc[u] = "queue" => pc'[u] = "queue"),
           \A u \in Urbs : report[u] # 0 =>
               /\ ctx'[u] \in {"GIVING_BACK", "FREED"}
                  => ctx[u] \in {"GIVING_BACK", "FREED"}
               /\ ctx[u] = "FREED" => ctx'[u] = "FREED",
           TypeOK
    PROVE  ReportInv'
<1>1. ReportOrigin'
  BY DEF ReportInv, ReportOrigin
<1>2. ReportPlace'
  <2> SUFFICES ASSUME NEW u \in Urbs, report[u] # 0
               PROVE  /\ ctx'[u] \notin Waiting \cup {"UNUSED"}
                      /\ pc'[u] # "handle"
                      /\ ctx'[u] = "ACTIVE"
                         => /\ pc'[u] = "queue" /\ pending_hid_in' = <<>>
                            /\ \A v \in Urbs : report[v] <= report[u]
    BY DEF ReportPlace
  <2>1. /\ ctx[u] \notin Waiting \cup {"UNUSED"} /\ pc[u] # "handle"
        /\ ctx[u] = "ACTIVE"
           => /\ pc[u] = "queue" /\ pending_hid_in = <<>>
              /\ \A v \in Urbs : report[v] <= report[u]
    BY DEF ReportInv, ReportPlace
  <2>2. ctx'[u] \notin Waiting \cup {"UNUSED"} /\ pc'[u] # "handle"
    BY <2>1
  <2>3. CASE ctx'[u] = "ACTIVE"
    <3>1. ctx[u] = "ACTIVE" /\ (pc[u] = "queue" => pc'[u] = "queue")
      BY <2>3
    <3> QED
      BY <2>1, <2>2, <3>1
  <2> QED
    BY <2>2, <2>3
<1>3. \A u, v \in Urbs : report[u] # 0 /\ report[u] < report[v]
                         => report[v] # 0
  BY ReportTypes
<1>4. ReportTime'
  BY <1>3 DEF ReportInv, ReportTime
<1>5. HidInInOrder'
  BY <1>3 DEF ReportInv, HidInInOrder
<1> QED
  BY <1>1, <1>2, <1>4, <1>5 DEF ReportInv

(* The newest snapshot goes to u, due after all that is due.               *)
LEMMA ReportGiven ==
    ASSUME TypeOK, DueInv, ReportInv, NEW u \in Urbs, NEW packet \in Nat,
           NEW ready \in Nat, ready > next_hid_in_ready,
           request[u].kind = "hid_in",
           \A v \in Urbs : report[v] < packet,
           packet <= written', written <= written', written' \in Nat,
           report' = [report EXCEPT ![u] = packet],
           ready_time' = [ready_time EXCEPT ![u] = ready],
           UNCHANGED <<request, born, epoch, port_status, unlinked>>,
           input_packets' = <<>>,
           \A v \in Urbs \ {u} :
               /\ ctx'[v] = ctx[v] /\ pc'[v] = pc[v]
               /\ ctx[v] = "ACTIVE" => report[v] = 0,
           \/ ctx'[u] = "ACTIVE" /\ pc'[u] = "queue" /\ pending_hid_in' = <<>>
           \/ ctx'[u] = "PENDING_GIVEBACK" /\ pc'[u] # "handle",
           ctx[u] # "FREED"
    PROVE  ReportInv'
<1>1. /\ report \in [Urbs -> Nat] /\ ready_time \in [Urbs -> Nat]
      /\ written \in Nat /\ next_hid_in_ready \in Nat
  BY ReportTypes DEF TypeOK, ClockTypes
<1>2. /\ report'[u] = packet /\ packet # 0 /\ ready_time'[u] = ready
      /\ \A v \in Urbs \ {u} :
             report'[v] = report[v] /\ ready_time'[v] = ready_time[v]
  BY <1>1
<1>3. \A v \in Urbs : /\ report'[v] \in Nat /\ report'[v] <= packet
                       /\ v # u => report'[v] < packet
  BY <1>1, <1>2
<1>4. ReportOrigin'
  <2>1. Len(input_packets') = 0
    OBVIOUS
  <2>2. \A v \in Urbs : report'[v] <= written'
    BY <1>1, <1>2, <1>3
  <2>3. \A v \in Urbs : report'[v] # 0 => request'[v].kind = "hid_in"
    BY <1>2 DEF ReportInv, ReportOrigin
  <2> QED
    BY <2>1, <2>2, <2>3 DEF ReportOrigin
<1>5. ReportPlace'
  <2> SUFFICES ASSUME NEW v \in Urbs, report'[v] # 0
               PROVE  /\ ctx'[v] \notin Waiting \cup {"UNUSED"}
                      /\ pc'[v] # "handle"
                      /\ ctx'[v] = "ACTIVE"
                         => /\ pc'[v] = "queue" /\ pending_hid_in' = <<>>
                            /\ \A w \in Urbs : report'[w] <= report'[v]
    BY DEF ReportPlace
  <2>1. CASE v = u
    BY <1>1, <1>2, <1>3, <2>1 DEF Waiting
  <2>2. CASE v # u
    <3>1. /\ report[v] # 0 /\ ctx'[v] = ctx[v] /\ pc'[v] = pc[v]
          /\ ctx[v] # "ACTIVE"
      BY <1>2, <2>2
    <3> QED
      BY <3>1 DEF ReportInv, ReportPlace
  <2> QED
    BY <2>1, <2>2
<1>6. ReportTime'
  <2>1. \A v \in Urbs \ unlinked : report'[v] # 0 => ready_time'[v] # 0
    BY <1>1, <1>2 DEF ReportInv, ReportTime
  <2>2. ASSUME NEW v \in Urbs \ unlinked, NEW w \in Urbs \ unlinked,
               report'[v] # 0, Current(v), Current(w), report'[v] < report'[w]
        PROVE  ready_time'[v] < ready_time'[w]
    <3>1. v # u
      <4>1. report'[v] \in Nat /\ report'[w] \in Nat /\ report'[w] <= packet
        BY <1>1, <1>3
      <4>2. report'[v] # packet
        BY <2>2, <4>1
      <4> QED
        BY <1>2, <4>2
    <3>2. CASE w = u
      <4>1. ready_time[v] <= next_hid_in_ready
        BY <1>2, <2>2, <3>1
        DEF ReportInv, ReportOrigin, DueInv, NextDue, PeriodicKinds
      <4> QED
        BY <1>1, <1>2, <3>1, <3>2, <4>1
    <3>3. CASE w # u
      BY <1>2, <2>2, <3>1, <3>3 DEF ReportInv, ReportTime
    <3> QED
      BY <3>2, <3>3
  <2>3. \A v \in Urbs : Current(v)' <=> Current(v)
    BY DEF Current
  <2> QED
    BY <2>1, <2>2, <2>3 DEF ReportTime
<1>7. HidInInOrder'
  <2>1. \A v \in Urbs : Current(v)' <=> Current(v)
    BY DEF Current
  <2> SUFFICES ASSUME NEW v \in Urbs, NEW w \in Urbs,
                      report'[v] # 0, report'[v] < report'[w],
                      Current(v), Current(w), {v, w} \cap unlinked = {},
                      ctx'[w] \in {"GIVING_BACK", "FREED"}
               PROVE  ctx'[v] = "FREED"
    BY <2>1 DEF HidInInOrder
  <2>2. w # u
    OBVIOUS
  <2>3. v # u
    <3>1. report'[v] \in Nat /\ report'[w] \in Nat /\ report'[w] <= packet
      BY <1>1, <1>3
    <3>2. report'[v] # packet
      BY <3>1
    <3> QED
      BY <1>2, <3>2
  <2> QED
    BY <1>2, <2>2, <2>3 DEF ReportInv, HidInInOrder
<1> QED
  BY <1>4, <1>5, <1>6, <1>7 DEF ReportInv

(* The handler that takes a snapshot, or waits for one, is the only one of *)
(* its endpoint.                                                           *)
LEMMA ReportHandleHidIn ==
    ASSUME IInv, IInv', HandlerInv, NoReportWaits, DueInv, ReportInv,
           NEW u \in Urbs, HandleHidIn(u)
    PROVE  ReportInv'
<1>1. /\ pc[u] = "handle" /\ ctx[u] = "ACTIVE" /\ request[u].kind = "hid_in"
  BY DEF HandleHidIn, Handling, IInv, CoreInv, ActiveInv, ActiveSteps
<1>2. \A v \in Urbs : ctx[v] = "ACTIVE" => report[v] = 0
  BY <1>1
  DEF ReportInv, ReportPlace, ReportOrigin, HandlerInv, SerialInv,
      PeriodicKinds
<1>3. /\ ctx \in [Urbs -> ContextStates] /\ pc \in [Urbs -> Steps]
      /\ now \in Nat /\ next_hid_in_ready \in Nat
      /\ HidInterval \in Nat /\ HidInterval # 0
  BY BoundsAssumption DEF IInv, TypeOK, ContextTypes, ClockTypes
<1>4. CASE input_packets = <<>>
  <2>1. /\ ctx' = [ctx EXCEPT ![u] = "PENDING_HID_IN"]
        /\ pc' = [pc EXCEPT ![u] = "none"]
        /\ UNCHANGED <<report, written, unlinked, input_packets, request,
                       ready_time, born, epoch, port_status>>
    BY <1>4 DEF HandleHidIn, Goto, userVars, portVars
  <2> QED
    BY <1>1, <1>2, <1>3, <2>1, ReportKept DEF IInv, Current
<1>5. CASE input_packets # <<>>
  <2> DEFINE packet == Head(input_packets)
             ready == NextReady(next_hid_in_ready, HidInterval)
  <2>1. /\ report' = [report EXCEPT ![u] = packet]
        /\ ready_time' = [ready_time EXCEPT ![u] = ready]
        /\ pc' = [pc EXCEPT ![u] = "queue"]
        /\ UNCHANGED <<ctx, pending_hid_in, request, born, epoch, port_status,
                       unlinked, written>>
    BY <1>5 DEF HandleHidIn, HandlerReturns, userVars, portVars
  <2>2. ready \in Nat /\ ready > next_hid_in_ready
    <3>1. ready \in Nat /\ ready >= next_hid_in_ready + HidInterval
      BY <1>3, NextReadyLater
    <3> HIDE DEF ready
    <3> QED
      BY <1>3, <3>1
  <2>3. /\ Len(input_packets) >= 1 /\ packet = input_packets[1]
        /\ packet \in Nat
    BY <1>5, ReportTypes DEF IInv
  <2>4. /\ \A v \in Urbs : report[v] < packet
        /\ packet <= written
    <3>1. 1 \in 1..Len(input_packets)
      BY <1>5, <2>3, ReportTypes DEF IInv
    <3> QED
      BY <2>3, <3>1 DEF ReportInv, ReportOrigin
  <2>5. input_packets' = <<>>
    <3>1. /\ input_packets' = Tail(input_packets)
          /\ Len(input_packets) <= 1
      BY <1>5 DEF HandleHidIn, NoReportWaits
    <3>2. /\ Len(Tail(input_packets)) = Len(input_packets) - 1
          /\ Tail(input_packets) \in Seq(Nat) /\ Len(input_packets) \in Nat
      BY <1>5, ReportTypes DEF IInv
    <3>3. Len(Tail(input_packets)) = 0
      BY <2>3, <3>1, <3>2
    <3> QED
      BY <3>1, <3>2, <3>3
  <2>6. pending_hid_in' = <<>>
    BY <1>5, <2>1 DEF NoReportWaits
  <2>7. written \in Nat /\ written' = written
    BY <2>1, ReportTypes DEF IInv
  <2> HIDE DEF packet, ready
  <2>8. /\ ctx'[u] = "ACTIVE" /\ pc'[u] = "queue" /\ ctx[u] # "FREED"
        /\ \A v \in Urbs \ {u} :
               /\ ctx'[v] = ctx[v] /\ pc'[v] = pc[v]
               /\ ctx[v] = "ACTIVE" => report[v] = 0
    BY <1>1, <1>2, <1>3, <2>1
  <2>9. /\ written' \in Nat /\ packet <= written' /\ written <= written'
    BY <2>4, <2>7
  <2>10. /\ UNCHANGED <<request, born, epoch, port_status, unlinked>>
         /\ request[u].kind = "hid_in"
    BY <1>1, <2>1
  <2>11. \A v \in Urbs : report[v] < packet
    BY <2>4
  <2> QED
    BY <2>1, <2>2, <2>3, <2>5, <2>6, <2>8, <2>9, <2>10, <2>11, ReportGiven
    DEF IInv
<1> QED
  BY <1>4, <1>5

LEMMA ReportWriteInput ==
    ASSUME IInv, IInv', WaitInv, NoReportWaits, DueInv, ReportInv,
           NEW s \in Sessions, WriteInput(s)
    PROVE  ReportInv'
<1>0. /\ ctx \in [Urbs -> ContextStates] /\ pc \in [Urbs -> Steps]
      /\ now \in Nat /\ next_hid_in_ready \in Nat
      /\ HidInterval \in Nat /\ HidInterval # 0
      /\ report \in [Urbs -> Nat] /\ written \in Nat
  BY BoundsAssumption, ReportTypes DEF IInv, TypeOK, ContextTypes, ClockTypes
<1>1. /\ UNCHANGED <<pc, request, born, epoch, port_status, unlinked>>
      /\ written' = written + 1
  BY DEF WriteInput, portVars
<1>2. \A u \in Urbs : report[u] <= written
  BY DEF ReportInv, ReportOrigin
<1>3. CASE pending_hid_in = <<>>
  <2>1. /\ UNCHANGED <<ctx, report, ready_time, pending_hid_in>>
        /\ input_packets' = <<written + 1>>
    BY <1>3 DEF WriteInput, Buffered
  <2>2. \A u \in Urbs : /\ report[u] \in Nat /\ report[u] < written + 1
                         /\ report[u] <= written'
    BY <1>0, <1>1, <1>2
  <2>3. ReportOrigin'
    BY <1>0, <1>1, <2>1, <2>2 DEF ReportInv, ReportOrigin
  <2>4. \A u \in Urbs : Current(u)' <=> Current(u)
    BY <1>1 DEF Current
  <2> QED
    BY <1>1, <2>1, <2>3, <2>4
    DEF ReportInv, ReportPlace, ReportTime, HidInInOrder
<1>4. CASE pending_hid_in # <<>>
  <2> DEFINE u == Head(pending_hid_in)
             ready == NextReady(next_hid_in_ready, HidInterval)
  <2>1. u \in Range(pending_hid_in) /\ u \in Urbs
    BY <1>4, PlaceFacts, TailMembers DEF IInv, CoreInv
  <2>2. ctx[u] = "PENDING_HID_IN" /\ request[u].kind = "hid_in"
    BY <2>1 DEF IInv, CoreInv, OnePlace, InState, WaitInv, HidInInv
  <2>3. pc[u] # "handle"
    BY <2>1, <2>2 DEF IInv, CoreInv, ActiveInv, ActiveSteps
  <2>4. /\ report' = [report EXCEPT ![u] = written + 1]
        /\ ready_time' = [ready_time EXCEPT ![u] = ready]
        /\ ctx' = [ctx EXCEPT ![u] = "PENDING_GIVEBACK"]
        /\ input_packets' = input_packets
    BY <1>4 DEF WriteInput
  <2>5. ready \in Nat /\ ready > next_hid_in_ready
    <3>1. ready \in Nat /\ ready >= next_hid_in_ready + HidInterval
      BY <1>0, NextReadyLater
    <3> HIDE DEF ready
    <3> QED
      BY <1>0, <3>1
  <2>6. input_packets' = <<>>
    BY <1>4, <2>4 DEF NoReportWaits
  <2>7. \A v \in Urbs : ctx[v] = "ACTIVE" => report[v] = 0
    BY <1>4 DEF ReportInv, ReportPlace
  <2>8. \A v \in Urbs : report[v] < written + 1
    BY <1>0, <1>2
  <2> HIDE DEF u, ready
  <2>9. /\ ctx'[u] = "PENDING_GIVEBACK" /\ pc'[u] # "handle"
        /\ ctx[u] # "FREED"
        /\ \A v \in Urbs \ {u} :
               /\ ctx'[v] = ctx[v] /\ pc'[v] = pc[v]
               /\ ctx[v] = "ACTIVE" => report[v] = 0
    BY <1>0, <1>1, <2>1, <2>2, <2>3, <2>4, <2>7
  <2>10. /\ written + 1 \in Nat /\ written' \in Nat
         /\ written + 1 <= written' /\ written <= written'
    BY <1>0, <1>1
  <2> QED
    BY <1>1, <2>1, <2>2, <2>4, <2>5, <2>6, <2>8, <2>9, <2>10, ReportGiven
    DEF IInv
<1> QED
  BY <1>3, <1>4

(* The giveback thread takes the head of the queue: a URB of the same      *)
(* connection with an older snapshot was due before, so it is neither      *)
(* queued behind the head nor anywhere else on its way.                    *)
LEMMA ReportTakeCompleted ==
    ASSUME IInv, CompletionOrder, ReportInv, TakeCompleted
    PROVE  ReportInv'
<1> DEFINE h == Head(completed_urbs)
<1>1. /\ completed_urbs # <<>> /\ giveback = "wait"
      /\ ctx' = [ctx EXCEPT ![h] = "GIVING_BACK"]
      /\ UNCHANGED <<pc, request, ready_time, report, unlinked, born,
                     pending_hid_in, input_packets, epoch, written, port_status>>
  BY DEF TakeCompleted, userVars, portVars
<1>2. /\ completed_urbs \in Seq(Urbs) /\ ctx \in [Urbs -> ContextStates]
      /\ ready_time \in [Urbs -> Nat] /\ report \in [Urbs -> Nat]
  BY DEF IInv, TypeOK, ContextTypes, ListTypes
<1>3. h \in Urbs /\ ctx[h] = "PENDING_GIVEBACK" /\ completed_urbs[1] = h
  <2>1. h \in Range(completed_urbs)
    BY <1>1, PlaceFacts, TailMembers DEF IInv, CoreInv
  <2> QED
    BY <1>1, <1>2, <2>1 DEF IInv, CoreInv, OnePlace, InState
<1> HIDE DEF h
<1>4. /\ \A u \in Urbs : Current(u)' <=> Current(u)
      /\ \A u \in Urbs \ {h} : ctx'[u] = ctx[u]
      /\ ctx'[h] = "GIVING_BACK"
  BY <1>1, <1>2, <1>3 DEF Current
<1>5. ReportOrigin' /\ ReportPlace' /\ ReportTime'
  BY <1>1, <1>3, <1>4
  DEF ReportInv, ReportOrigin, ReportPlace, ReportTime, Waiting
<1>6. ASSUME NEW u \in Urbs, report[u] # 0, report[u] < report[h],
             Current(u), Current(h), {u, h} \cap unlinked = {}
      PROVE  ctx[u] = "FREED"
  <2>1. ctx[u] \notin Waiting \cup {"UNUSED"}
    BY <1>6 DEF ReportInv, ReportPlace
  <2>2. ctx[u] # "ACTIVE"
    <3>1. ~(report[h] <= report[u])
      BY <1>2, <1>3, <1>6
    <3> QED
      BY <1>3, <1>6, <3>1 DEF ReportInv, ReportPlace
  <2>3. ctx[u] # "GIVING_BACK"
    BY <1>1, <1>6
    DEF IInv, CoreInv, OnePlace, InState, GivingInv
  <2>4. ctx[u] # "PENDING_GIVEBACK"
    <3> SUFFICES ASSUME u \in Range(completed_urbs) PROVE FALSE
      BY DEF IInv, CoreInv, OnePlace, InState
    <3>1. PICK i \in 1..Len(completed_urbs) : completed_urbs[i] = u
      BY <1>2 DEF Range
    <3>2. /\ ready_time[u] # 0 /\ ready_time[u] < ready_time[h]
      BY <1>3, <1>6 DEF ReportInv, ReportTime
    <3>3. i # 1
      BY <1>2, <1>3, <3>1, <3>2
    <3>4. 1 \in 1..Len(completed_urbs) /\ 1 < i
      BY <1>1, <1>2, <3>1, <3>3
    <3>5. ready_time[h] <= ready_time[u]
      BY <1>3, <3>1, <3>2, <3>4 DEF CompletionOrder, TimedSorted
    <3> QED
      BY <1>2, <1>3, <3>2, <3>5
  <2> QED
    BY <1>2, <2>1, <2>2, <2>3, <2>4 DEF ContextStates, Waiting
<1>7. HidInInOrder'
  <2> SUFFICES ASSUME NEW u \in Urbs, NEW v \in Urbs,
                      report[u] # 0, report[u] < report[v],
                      Current(u), Current(v), {u, v} \cap unlinked = {},
                      ctx'[v] \in {"GIVING_BACK", "FREED"}
               PROVE  ctx'[u] = "FREED"
    BY <1>1, <1>4 DEF HidInInOrder
  <2>1. ctx[u] = "FREED"
    BY <1>4, <1>6 DEF ReportInv, HidInInOrder
  <2> QED
    BY <1>3, <1>4, <2>1
<1> QED
  BY <1>5, <1>7 DEF ReportInv

LEMMA ReportHandlers ==
    ASSUME IInv, ReportInv, NEW u \in Urbs,
           \/ DeferFeatureGet(u) \/ ScheduleIsoOut(u) \/ ScheduleIsoIn(u)
           \/ QueueResult(u) \/ Unlink(u)
    PROVE  ReportInv'
<1>0. /\ ctx \in [Urbs -> ContextStates] /\ pc \in [Urbs -> Steps]
      /\ ready_time \in [Urbs -> Nat]
  BY DEF IInv, TypeOK, ContextTypes
<1>1. UNCHANGED <<report, written, input_packets, request, born, epoch,
                  port_status>>
  BY DEF DeferFeatureGet, ScheduleIsoOut, ScheduleIsoIn, QueueResult, Unlink,
         DequeueUrb, userVars, portVars
<1>2. CASE DeferFeatureGet(u) \/ ScheduleIsoOut(u) \/ ScheduleIsoIn(u)
  <2>1. request[u].kind # "hid_in"
    BY <1>2
    DEF DeferFeatureGet, ScheduleIsoOut, ScheduleIsoIn, Handling, IInv,
        CoreInv, RequestInv
  <2>2. report[u] = 0
    BY <2>1 DEF ReportInv, ReportOrigin
  <2>3. /\ UNCHANGED <<unlinked, pending_hid_in>>
        /\ \A v \in Urbs \ {u} :
               /\ ctx'[v] = ctx[v] /\ pc'[v] = pc[v]
               /\ ready_time'[v] = ready_time[v]
    BY <1>0, <1>2
    DEF DeferFeatureGet, ScheduleIsoOut, ScheduleIsoIn, HandlerReturns, Goto,
        listVars
  <2> QED
    BY <1>1, <2>2, <2>3, ReportKept DEF IInv, Current
<1>3. CASE QueueResult(u) \/ Unlink(u)
  <2>1. /\ unlinked' = unlinked \/ unlinked' = unlinked \cup {u}
        /\ pending_hid_in = <<>> => pending_hid_in' = <<>>
    BY <1>3, EmptyListDel
    DEF QueueResult, Unlink, DequeueUrb, QueueGivebackLocked, listVars
  <2>2. /\ \/ ready_time' = ready_time
           \/ /\ ready_time' = [ready_time EXCEPT ![u] = 0]
              /\ unlinked' = unlinked \cup {u}
        /\ pc' = pc \/ pc' = [pc EXCEPT ![u] = "none"]
    BY <1>3 DEF QueueResult, Unlink, DequeueUrb
  <2>3. \/ ctx' = ctx /\ ctx[u] # "ACTIVE"
        \/ /\ ctx' = [ctx EXCEPT ![u] = "PENDING_GIVEBACK"]
           /\ ctx[u] # "FREED"
    BY <1>3
    DEF QueueResult, Unlink, DequeueUrb, QueueGivebackLocked, GivebackRefused,
        Linked
  <2> QED
    BY <1>0, <1>1, <2>1, <2>2, <2>3, ReportKept DEF IInv, Current, Waiting
<1> QED
  BY <1>2, <1>3

LEMMA ReportOthers ==
    ASSUME IInv, LinkInv, ReportInv,
           \/ OrderQuiet \/ GivebackUrb \/ StopHcd
           \/ \E u \in Urbs, r \in Requests : Submit(u, r)
           \/ \E s \in Sessions : \/ CompleteReply(s) \/ Connect(s)
                                  \/ Disconnect(s) \/ ReleaseDisconnects(s)
    PROVE  ReportInv'
<1>0. /\ ctx \in [Urbs -> ContextStates] /\ pc \in [Urbs -> Steps]
      /\ request \in [Urbs -> Request] /\ born \in [Urbs -> Nat]
      /\ epoch \in Nat
  BY DEF IInv, TypeOK, ContextTypes, HubTypes
<1>1. CASE OrderQuiet
  <2>1. /\ UNCHANGED <<report, written, unlinked, input_packets,
                       pending_hid_in, request, ready_time, ctx, born, epoch>>
        /\ "CONNECTION" \in port_status' => "CONNECTION" \in port_status
        /\ \A u \in Urbs : HandlerGoesOn(u)
    BY <1>1 DEF OrderQuiet, orderVars, listVars
  <2> QED
    BY <2>1, ReportKept DEF IInv, Current, HandlerGoesOn
<1>2. ASSUME NEW u \in Urbs, NEW r \in Requests, Submit(u, r)
      PROVE  ReportInv'
  <2>1. /\ ctx[u] = "UNUSED"
        /\ UNCHANGED <<report, written, unlinked, input_packets,
                       pending_hid_in, ready_time, epoch, port_status>>
        /\ \A v \in Urbs \ {u} :
               /\ ctx'[v] = ctx[v] /\ pc'[v] = pc[v]
               /\ request'[v] = request[v] /\ born'[v] = born[v]
    BY <1>0, <1>2 DEF Submit, listVars, userVars, portVars
  <2>2. report[u] = 0
    BY <2>1 DEF ReportInv, ReportPlace
  <2> QED
    BY <2>1, <2>2, ReportKept DEF IInv, Current
<1>3. CASE GivebackUrb
  <2>1. /\ giveback = "complete" /\ ctx' = [ctx EXCEPT ![giving] = "FREED"]
        /\ UNCHANGED <<report, written, unlinked, input_packets,
                       pending_hid_in, request, ready_time, pc, born, epoch,
                       port_status>>
    BY <1>3 DEF GivebackUrb, listVars, userVars, portVars
  <2>2. giving \in Urbs /\ ctx[giving] = "GIVING_BACK"
    BY <2>1 DEF IInv, CoreInv, GivingInv, OnePlace, InState
  <2> QED
    BY <1>0, <2>1, <2>2, ReportKept DEF IInv, Current, Waiting
<1>4. CASE \/ StopHcd
           \/ \E s \in Sessions : \/ CompleteReply(s) \/ Connect(s)
                                  \/ Disconnect(s) \/ ReleaseDisconnects(s)
  <2>1. /\ UNCHANGED <<report, written, unlinked, request, ready_time, pc,
                       born>>
        /\ input_packets' = input_packets \/ input_packets' = <<>>
        /\ pending_hid_in' = pending_hid_in \/ pending_hid_in' = <<>>
    BY <1>4
    DEF StopHcd, CompleteReply, Connect, Disconnect, ReleaseDisconnects,
        DisconnectLocked, CancelPending, FlushBufferedFrames, contextVars,
        listVars, userVars
  <2>2. \A u \in Urbs :
            \/ ctx'[u] = ctx[u]
            \/ ctx'[u] = "PENDING_GIVEBACK" /\ ctx[u] \in Waiting
    <3>1. \A u \in Range(pending_hid_in \o pending_feature_get)
                       \cup Range(pending_feature_get) : ctx[u] \in Waiting
      BY PlaceFacts, ConcatMembers
      DEF IInv, CoreInv, OnePlace, InState, Waiting
    <3>2. CASE CancelPending
      BY <3>1, <3>2 DEF CancelPending
    <3>3. CASE \E s \in Sessions : CompleteReply(s)
      BY <3>1, <3>3 DEF CompleteReply, Answered
    <3> QED
      BY <1>4, <3>2, <3>3
      DEF StopHcd, Connect, Disconnect, ReleaseDisconnects, DisconnectLocked,
          contextVars
  <2>3. \A u \in Urbs : Current(u)' => Current(u)
    <3>1. CASE StopHcd \/ \E s \in Sessions : CompleteReply(s)
      BY <2>1, <3>1 DEF StopHcd, CompleteReply, Current, portVars
    <3>2. CASE \E s \in Sessions : Connect(s)
      BY <1>0, <2>1, <3>2 DEF Connect, Current, LinkInv, BornInv
    <3>3. CASE \E s \in Sessions : Disconnect(s) \/ ReleaseDisconnects(s)
      BY <3>3 DEF Disconnect, ReleaseDisconnects, DisconnectLocked,
                  PortDisconnected, Current
    <3> QED
      BY <1>4, <3>1, <3>2, <3>3
  <2> QED
    BY <2>1, <2>2, <2>3, ReportKept DEF IInv, Waiting
<1> QED
  BY <1>1, <1>2, <1>3, <1>4

LEMMA ReportInductive ==
    ASSUME IInv, IInv', HandlerInv, WaitInv, LinkInv, NoReportWaits, DueInv,
           CompletionOrder, ReportInv, [Next]_vars
    PROVE  ReportInv'
BY ReportHandleHidIn, ReportWriteInput, ReportTakeCompleted, ReportHandlers,
   ReportOthers, OrderSteps

(* While a connection lasts, its input reports complete in the order they  *)
(* were written, whichever of buffer and waiting URB each one took, with   *)
(* URBs being unlinked and the daemon and host racing in between.          *)
THEOREM ReportOrderCorrect == Spec => []HidInInOrder
<1>1. Init => LinkInv /\ NoReportWaits /\ PacedInv /\ CompletionOrder
              /\ ReportInv
  BY DEF Init, LinkInv, BornInv, ConnectedInv, StoppedInv, NoReportWaits,
         PacedInv, DueInv, Paced, Current, CompletionOrder, TimedSorted,
         ReportInv, ReportOrigin, ReportPlace, ReportTime, HidInInOrder
<1>2. IInv /\ IInv' /\ HandlerInv /\ WaitInv /\ LinkInv /\ NoReportWaits
          /\ PacedInv /\ CompletionOrder /\ ReportInv /\ [Next]_vars
      => HandlerInv' /\ WaitInv' /\ LinkInv' /\ NoReportWaits'
          /\ PacedInv' /\ CompletionOrder' /\ ReportInv'
  <2> SUFFICES ASSUME IInv, IInv', HandlerInv, WaitInv, LinkInv,
                      NoReportWaits, PacedInv, CompletionOrder, ReportInv,
                      [Next]_vars
               PROVE  /\ HandlerInv' /\ WaitInv' /\ LinkInv'
                      /\ NoReportWaits' /\ PacedInv' /\ CompletionOrder'
                      /\ ReportInv'
    OBVIOUS
  <2>1. TypeOK /\ DueInv
    BY DEF IInv, PacedInv
  <2>2. HandlerInv' /\ WaitInv' /\ LinkInv' /\ NoReportWaits'
    BY <2>1, HandlerInductive, WaitInductive, LinkInductive, ReportsInductive
  <2> QED
    BY <2>1, <2>2, PacedInductive, OrderInductive, ReportInductive
<1>3. ReportInv => HidInInOrder
  BY DEF ReportInv
<1> QED
  BY <1>1, <1>2, <1>3, HandlerInit, WaitInit, Invariance, PTL DEF Spec

(***************************************************************************)
(* VdsHcd implements the safety part of UrbService: every step of the      *)
(* controller is a step of the service, or one its callers cannot see.     *)
(*                                                                         *)
(* What the mapping rests on: a URB that was unlinked in time comes back   *)
(* as unlinked, every other one with the result of its request.            *)
(***************************************************************************)
Queued == {"PENDING_GIVEBACK", "GIVING_BACK", "FREED"}
HandlerResults == Results \ {"none", "UNLINKED"}
StatusInv ==
    \A u \in Urbs :
        ctx[u] \in Queued
        => status[u] \in IF u \in unlinked THEN {"UNLINKED"} ELSE HandlerResults
UnlinkedInv == \A u \in Urbs : u \in unlinked => ctx[u] \in Queued
ReturnInv == \A u \in Urbs : pc[u] = "queue" => ret[u] \in HandlerResults
ServiceInv == StatusInv /\ UnlinkedInv /\ ReturnInv

(* What one step may do to a URB without its caller noticing.              *)
Hidden(u) ==
    LET Underway(state) == state \notin Queued \cup {"UNUSED"} IN
    \/ ctx'[u] = ctx[u] /\ status'[u] = status[u]
    \/ Underway(ctx[u]) /\ Underway(ctx'[u])
    \/ /\ Underway(ctx[u]) /\ ctx'[u] = "PENDING_GIVEBACK"
       /\ status'[u] \in HandlerResults
    \/ /\ ctx[u] = "PENDING_GIVEBACK" /\ ctx'[u] = "GIVING_BACK"
       /\ status'[u] = status[u]

LEMMA ServiceStutter ==
    ASSUME ServiceInv, unlinked' = unlinked, ReturnInv',
           \A u \in Urbs : Hidden(u)
    PROVE  ServiceInv' /\ UNCHANGED Service!vars
<1>1. ServiceInv'
  <2>1. StatusInv'
    BY DEF ServiceInv, StatusInv, UnlinkedInv, Hidden, Queued
  <2>2. UnlinkedInv'
    BY DEF ServiceInv, UnlinkedInv, Hidden, Queued
  <2> QED
    BY <2>1, <2>2 DEF ServiceInv
<1>2. \A u \in Urbs :
          /\ ctx'[u] \in {"UNUSED", "FREED"} <=> ctx[u] \in {"UNUSED", "FREED"}
          /\ ctx'[u] = "FREED" <=> ctx[u] = "FREED"
          /\ ctx[u] = "FREED" => status'[u] = status[u]
  BY DEF Hidden, Queued
<1>3. {u \in Urbs : ctx'[u] \notin {"UNUSED", "FREED"}}
          = {u \in Urbs : ctx[u] \notin {"UNUSED", "FREED"}}
  BY <1>2
<1>4. [u \in Urbs |-> IF ctx'[u] = "FREED" THEN status'[u] ELSE "none"]
          = [u \in Urbs |-> IF ctx[u] = "FREED" THEN status[u] ELSE "none"]
  BY <1>2
<1> QED
  BY <1>1, <1>3, <1>4 DEF Service!vars

(* A new submission is accepted.                                           *)
LEMMA ServiceSubmit ==
    ASSUME IInv, ServiceInv, NEW u \in Urbs, NEW r \in Requests, Submit(u, r)
    PROVE  ServiceInv' /\ Service!Next
<1>1. /\ ctx[u] = "UNUSED" /\ ctx' = [ctx EXCEPT ![u] = "ACTIVE"]
      /\ pc' = [pc EXCEPT ![u] = "handle"]
      /\ UNCHANGED <<status, ret, unlinked>>
  BY DEF Submit
<1>2. ctx \in [Urbs -> ContextStates] /\ pc \in [Urbs -> Steps]
  BY DEF IInv, TypeOK, ContextTypes
<1>3. ServiceInv'
  BY <1>1, <1>2 DEF ServiceInv, StatusInv, UnlinkedInv, ReturnInv, Queued
<1>4. /\ u \notin {v \in Urbs : ctx[v] \notin {"UNUSED", "FREED"}}
      /\ {v \in Urbs : ctx'[v] \notin {"UNUSED", "FREED"}}
            = {v \in Urbs : ctx[v] \notin {"UNUSED", "FREED"}} \cup {u}
      /\ [v \in Urbs |-> IF ctx[v] = "FREED" THEN status[v] ELSE "none"][u]
            = "none"
      /\ [v \in Urbs |-> IF ctx'[v] = "FREED" THEN status'[v] ELSE "none"]
            = [v \in Urbs |-> IF ctx[v] = "FREED" THEN status[v] ELSE "none"]
  BY <1>1, <1>2
<1>5. Service!Accept(u)
  BY <1>1, <1>4 DEF Service!Accept
<1> QED
  BY <1>3, <1>5 DEF Service!Next

(* Unlinking a URB cancels it: whatever it would have returned before, it  *)
(* returns as unlinked now.                                                *)
LEMMA ServiceUnlink ==
    ASSUME IInv, ServiceInv, NEW u \in Urbs, Unlink(u)
    PROVE  ServiceInv' /\ Service!Next
<1>1. /\ pc[u] = "none" /\ u \in Linked \ unlinked
      /\ unlinked' = unlinked \cup {u}
      /\ UNCHANGED <<pc, ret>>
  BY DEF Unlink, DequeueUrb
<1>2. /\ ctx \in [Urbs -> ContextStates] /\ status \in [Urbs -> Results]
      /\ ctx[u] \notin {"UNUSED", "GIVING_BACK", "FREED"}
  BY <1>1 DEF IInv, TypeOK, ContextTypes, Linked
<1>3. /\ ctx' = [ctx EXCEPT ![u] = "PENDING_GIVEBACK"]
      /\ status' = [status EXCEPT ![u] = "UNLINKED"]
  <2>1. CASE ctx[u] = "PENDING_GIVEBACK"
    BY <1>2, <2>1 DEF Unlink, DequeueUrb
  <2>2. CASE ctx[u] # "PENDING_GIVEBACK"
    BY <1>2, <2>2 DEF Unlink, DequeueUrb, QueueGivebackLocked, GivebackRefused
  <2> QED
    BY <2>1, <2>2
<1>4. ServiceInv'
  BY <1>1, <1>2, <1>3 DEF ServiceInv, StatusInv, UnlinkedInv, ReturnInv, Queued
<1>5. /\ u \in {v \in Urbs : ctx[v] \notin {"UNUSED", "FREED"}} \ unlinked
      /\ {v \in Urbs : ctx'[v] \notin {"UNUSED", "FREED"}}
            = {v \in Urbs : ctx[v] \notin {"UNUSED", "FREED"}}
      /\ [v \in Urbs |-> IF ctx'[v] = "FREED" THEN status'[v] ELSE "none"]
            = [v \in Urbs |-> IF ctx[v] = "FREED" THEN status[v] ELSE "none"]
  BY <1>1, <1>2, <1>3
<1>6. Service!Cancel(u)
  BY <1>1, <1>5 DEF Service!Cancel
<1> QED
  BY <1>4, <1>6 DEF Service!Next

(* The giveback thread returns the URB it holds.                           *)
LEMMA ServiceGiveback ==
    ASSUME IInv, ServiceInv, GivebackUrb
    PROVE  ServiceInv' /\ Service!Next
<1>1. PICK u \in Urbs : u = giving /\ ctx[u] = "GIVING_BACK"
  BY DEF GivebackUrb, IInv, CoreInv, GivingInv, OnePlace, InState, TypeOK,
         ThreadTypes
<1>2. /\ ctx' = [ctx EXCEPT ![u] = "FREED"]
      /\ UNCHANGED <<status, unlinked, pc, ret>>
  BY <1>1 DEF GivebackUrb
<1>3. ctx \in [Urbs -> ContextStates]
  BY DEF IInv, TypeOK, ContextTypes
<1>4. ServiceInv'
  BY <1>1, <1>2, <1>3
  DEF ServiceInv, StatusInv, UnlinkedInv, ReturnInv, Queued
<1>5. /\ u \in {v \in Urbs : ctx[v] \notin {"UNUSED", "FREED"}}
      /\ {v \in Urbs : ctx'[v] \notin {"UNUSED", "FREED"}}
            = {v \in Urbs : ctx[v] \notin {"UNUSED", "FREED"}} \ {u}
      /\ [v \in Urbs |-> IF ctx'[v] = "FREED" THEN status'[v] ELSE "none"]
            = [[v \in Urbs |-> IF ctx[v] = "FREED" THEN status[v] ELSE "none"]
                  EXCEPT ![u] = status[u]]
  BY <1>1, <1>2, <1>3
<1>6. status[u] \in IF u \in unlinked THEN {"UNLINKED"} ELSE HandlerResults
  BY <1>1 DEF ServiceInv, StatusInv, Queued
<1>7. Service!Return(u)
  BY <1>2, <1>5, <1>6 DEF Service!Return, HandlerResults
<1> QED
  BY <1>4, <1>7 DEF Service!Next

(***************************************************************************)
(* The steps no caller sees.                                               *)
(***************************************************************************)
LEMMA ServiceHandlers ==
    ASSUME IInv, ServiceInv, NEW u \in Urbs, HandlerStep(u)
    PROVE  ServiceInv' /\ UNCHANGED Service!vars
<1>0. /\ ctx \in [Urbs -> ContextStates] /\ pc \in [Urbs -> Steps]
      /\ ret \in [Urbs -> Results] /\ status \in [Urbs -> Results]
  BY DEF IInv, TypeOK, ContextTypes
<1>1. unlinked' = unlinked
  BY DEF HandlerStep, HandleOther, HandleHidIn, HandleHidOut,
         HandleFeatureSet, HandleFeatureGet, DeferFeatureGet, RequestFeature,
         HandleSetConfiguration, SetConfiguredStatus, ClearAudioStatus,
         HandleSetInterface, SetAudioStatus, EnqueueInterfaceEvent,
         HandleOtherInterface, ScheduleIsoOut, ScheduleIsoIn, QueueResult
<1>2. \/ \E result \in HandlerResults : HandlerReturns(u, result)
      \/ \E step \in Steps \ {"queue"} : pc' = [pc EXCEPT ![u] = step] /\ ret' = ret
      \/ pc' = [pc EXCEPT ![u] = "none"] /\ ret' = [ret EXCEPT ![u] = "none"]
  <2>1. CASE \/ HandleOther(u) \/ HandleHidIn(u) \/ HandleHidOut(u)
             \/ HandleFeatureSet(u) \/ HandleFeatureGet(u)
    BY <2>1 DEF HandleOther, HandleHidIn, HandleHidOut, HandleFeatureSet,
                HandleFeatureGet, Goto, Steps, HandlerResults, Results
  <2>2. CASE \/ DeferFeatureGet(u) \/ RequestFeature(u)
             \/ HandleSetConfiguration(u) \/ SetConfiguredStatus(u)
             \/ HandleSetInterface(u) \/ SetAudioStatus(u)
    BY <2>2 DEF DeferFeatureGet, RequestFeature, HandleSetConfiguration,
                SetConfiguredStatus, HandleSetInterface, SetAudioStatus,
                Goto, Steps, HandlerResults, Results
  <2>3. CASE \/ ClearAudioStatus(u) \/ EnqueueInterfaceEvent(u)
             \/ HandleOtherInterface(u) \/ ScheduleIsoOut(u)
             \/ ScheduleIsoIn(u) \/ QueueResult(u)
    BY <2>3 DEF ClearAudioStatus, EnqueueInterfaceEvent,
                HandleOtherInterface, ScheduleIsoOut, ScheduleIsoIn,
                QueueResult, HandlerResults, Results
  <2> QED
    BY <2>1, <2>2, <2>3 DEF HandlerStep
<1>3. ReturnInv'
  BY <1>0, <1>2 DEF HandlerReturns, ServiceInv, ReturnInv, Steps
<1>4. CASE QueueResult(u)
  <2>1. ret[u] \in HandlerResults /\ ctx[u] # "UNUSED"
    BY <1>4 DEF QueueResult, ServiceInv, ReturnInv, IInv, CoreInv, RequestInv
  <2>2. \A v \in Urbs : Hidden(v)
    <3>1. CASE GivebackRefused(u)
      BY <1>4, <3>1 DEF QueueResult, QueueGivebackLocked, Hidden
    <3>2. CASE ~GivebackRefused(u)
      BY <1>0, <1>4, <2>1, <3>2
      DEF QueueResult, QueueGivebackLocked, GivebackRefused, Hidden, Queued
    <3> QED
      BY <3>1, <3>2
  <2> QED
    BY <1>1, <1>3, <2>2, ServiceStutter
<1>5. CASE HandleHidIn(u) \/ DeferFeatureGet(u)
  <2>1. /\ ctx[u] = "ACTIVE" /\ status' = status
        /\ \/ ctx' = ctx
           \/ ctx' = [ctx EXCEPT ![u] = "PENDING_HID_IN"]
           \/ ctx' = [ctx EXCEPT ![u] = "PENDING_FEATURE_GET"]
    BY <1>5 DEF HandleHidIn, DeferFeatureGet, Handling, IInv, CoreInv,
                ActiveInv, ActiveSteps
  <2>2. \A v \in Urbs : Hidden(v)
    BY <1>0, <2>1 DEF Hidden, Queued
  <2> QED
    BY <1>1, <1>3, <2>2, ServiceStutter
<1>6. CASE ~QueueResult(u) /\ ~HandleHidIn(u) /\ ~DeferFeatureGet(u)
  <2>1. ctx' = ctx /\ status' = status
    BY <1>6
    DEF HandlerStep, HandleOther, HandleHidOut, HandleFeatureSet,
        HandleFeatureGet, RequestFeature, HandleSetConfiguration,
        SetConfiguredStatus, ClearAudioStatus, HandleSetInterface,
        SetAudioStatus, EnqueueInterfaceEvent, HandleOtherInterface,
        ScheduleIsoOut, ScheduleIsoIn
  <2> QED
    BY <1>1, <1>3, <2>1, ServiceStutter DEF Hidden
<1> QED
  BY <1>4, <1>5, <1>6

(* Every waiting URB completes with the status of a driver that stops      *)
(* waiting for data.                                                       *)
LEMMA ServiceCancelPending ==
    ASSUME IInv, ServiceInv, CancelPending, UNCHANGED <<pc, ret, unlinked>>
    PROVE  ServiceInv' /\ UNCHANGED Service!vars
<1> DEFINE pending == pending_hid_in \o pending_feature_get
<1>1. /\ ctx' = [u \in Urbs |-> IF u \in Range(pending)
                                THEN "PENDING_GIVEBACK" ELSE ctx[u]]
      /\ status' = [u \in Urbs |-> IF u \in Range(pending)
                                   THEN "ESHUTDOWN" ELSE status[u]]
  BY DEF CancelPending
<1>2. Range(pending) = InState("PENDING_HID_IN")
                           \cup InState("PENDING_FEATURE_GET")
  BY PlaceFacts, ConcatMembers DEF IInv, CoreInv, OnePlace
<1> HIDE DEF pending
<1>3. \A u \in Urbs : Hidden(u)
  BY <1>1, <1>2 DEF InState, Hidden, Queued, HandlerResults, Results
<1>4. ReturnInv'
  BY DEF ServiceInv, ReturnInv
<1> QED
  BY <1>3, <1>4, ServiceStutter

LEMMA ServiceReports ==
    ASSUME IInv, ServiceInv, NEW s \in Sessions,
           WriteInput(s) \/ CompleteReply(s)
    PROVE  ServiceInv' /\ UNCHANGED Service!vars
<1>0. /\ ctx \in [Urbs -> ContextStates] /\ status \in [Urbs -> Results]
  BY DEF IInv, TypeOK, ContextTypes
<1>1. UNCHANGED <<pc, ret, unlinked>> /\ ReturnInv'
  BY DEF WriteInput, CompleteReply, ServiceInv, ReturnInv
<1>2. \A u \in Urbs : Hidden(u)
  <2>1. CASE WriteInput(s) /\ pending_hid_in # <<>>
    <3>1. /\ ctx' = [ctx EXCEPT ![Head(pending_hid_in)] = "PENDING_GIVEBACK"]
          /\ status' = [status EXCEPT ![Head(pending_hid_in)] = "ok"]
      BY <2>1 DEF WriteInput
    <3>2. Head(pending_hid_in) \in Range(pending_hid_in)
      BY <2>1, PlaceFacts, TailMembers DEF IInv, CoreInv
    <3>3. ctx[Head(pending_hid_in)] = "PENDING_HID_IN"
      BY <3>2 DEF IInv, CoreInv, OnePlace, InState
    <3> QED
      BY <1>0, <3>1, <3>3 DEF Hidden, Queued, HandlerResults, Results
  <2>2. CASE \/ WriteInput(s) /\ pending_hid_in = <<>>
             \/ CompleteReply(s) /\ stopping
    BY <2>2 DEF WriteInput, CompleteReply, Hidden
  <2>3. CASE CompleteReply(s) /\ ~stopping
    <3>1. /\ ctx' = [u \in Urbs |-> IF u \in Answered(replying[s])
                                    THEN "PENDING_GIVEBACK" ELSE ctx[u]]
          /\ status' = [u \in Urbs |-> IF u \in Answered(replying[s])
                                       THEN "ok" ELSE status[u]]
      BY <2>3 DEF CompleteReply
    <3>2. \A u \in Answered(replying[s]) : ctx[u] = "PENDING_FEATURE_GET"
      BY DEF Answered, IInv, CoreInv, OnePlace, InState
    <3> QED
      BY <3>1, <3>2 DEF Hidden, Queued, HandlerResults, Results
  <2> QED
    BY <2>1, <2>2, <2>3
<1> QED
  BY <1>1, <1>2, ServiceStutter

LEMMA ServiceTakeCompleted ==
    ASSUME IInv, ServiceInv, TakeCompleted
    PROVE  ServiceInv' /\ UNCHANGED Service!vars
<1>0. ctx \in [Urbs -> ContextStates] /\ status' = status
  BY DEF TakeCompleted, IInv, TypeOK, ContextTypes
<1>1. UNCHANGED <<pc, ret, unlinked>> /\ ReturnInv'
  BY DEF TakeCompleted, ServiceInv, ReturnInv
<1>2. ctx' = [ctx EXCEPT ![Head(completed_urbs)] = "GIVING_BACK"]
  BY DEF TakeCompleted
<1>3. Head(completed_urbs) \in Range(completed_urbs)
  BY PlaceFacts, TailMembers DEF TakeCompleted, IInv, CoreInv
<1>4. ctx[Head(completed_urbs)] = "PENDING_GIVEBACK"
  BY <1>3 DEF IInv, CoreInv, OnePlace, InState
<1>5. \A u \in Urbs : Hidden(u)
  BY <1>0, <1>2, <1>4 DEF Hidden
<1> QED
  BY <1>1, <1>5, ServiceStutter

LEMMA ServiceQuiet ==
    ASSUME ServiceInv, UNCHANGED contextVars
    PROVE  ServiceInv' /\ UNCHANGED Service!vars
<1>1. ReturnInv' /\ \A u \in Urbs : Hidden(u)
  BY DEF contextVars, ServiceInv, ReturnInv, Hidden
<1> QED
  BY <1>1, ServiceStutter DEF contextVars

LEMMA ServiceNext ==
    ASSUME IInv, ServiceInv, [Next]_vars
    PROVE  ServiceInv' /\ [Service!Next]_(Service!vars)
<1>1. CASE \/ UNCHANGED vars \/ DeliverIsoOut \/ GivebackThreadExits \/ Tick
           \/ HubNoticesChange \/ HubEnumerates \/ BeginRemove
           \/ \E f \in PortClears : ClearPortFeature(f)
           \/ \E s \in Sessions :
                 \/ Open(s) \/ Read(s) \/ SetProfile(s) \/ Connect(s)
                 \/ ResetUsbDevice(s) \/ Release(s) \/ ReleaseAfterStop(s)
                 \/ \E f \in FeatureIds : CacheReply(s, f)
  <2>1. UNCHANGED contextVars
    BY <1>1 DEF vars, DeliverIsoOut, GivebackThreadExits, Tick,
                HubNoticesChange, HubEnumerates, BeginRemove,
                ClearPortFeature, Open, Read, SetProfile, Connect,
                ResetUsbDevice, Release, ReleaseAfterStop, CacheReply
  <2> QED
    BY <2>1, ServiceQuiet
<1>2. CASE \/ StopHcd
           \/ \E s \in Sessions : Disconnect(s) \/ ReleaseDisconnects(s)
  <2>1. CancelPending /\ UNCHANGED <<pc, ret, unlinked>>
    BY <1>2 DEF StopHcd, Disconnect, ReleaseDisconnects, DisconnectLocked
  <2> QED
    BY <2>1, ServiceCancelPending
<1>3. CASE \/ \E u \in Urbs : HandlerStep(u)
           \/ \E s \in Sessions : WriteInput(s) \/ CompleteReply(s)
           \/ TakeCompleted
  BY <1>3, ServiceHandlers, ServiceReports, ServiceTakeCompleted
<1>4. CASE \/ \E u \in Urbs, r \in Requests : Submit(u, r)
           \/ \E u \in Urbs : Unlink(u)
           \/ GivebackUrb
  BY <1>4, ServiceSubmit, ServiceUnlink, ServiceGiveback
<1> QED
  BY <1>1, <1>2, <1>3, <1>4 DEF Next, GivebackStep, UserStep, HostStep

(* The controller implements the service: whatever its devices, daemons    *)
(* and class drivers do, every URB that was accepted comes back at most    *)
(* once, as unlinked exactly if it was unlinked in time and otherwise with *)
(* the result of its request.                                              *)
THEOREM ServiceImplemented == Spec => ServiceSafe
<1>1. Init => ServiceInv /\ Service!Init
  BY DEF Init, ServiceInv, StatusInv, UnlinkedInv, ReturnInv, Queued,
         Service!Init
<1>2. IInv /\ ServiceInv /\ [Next]_vars
      => ServiceInv' /\ [Service!Next]_(Service!vars)
  BY ServiceNext
<1> QED
  BY <1>1, <1>2, Invariance, PTL DEF Spec, ServiceSafe, Service!SafeSpec

=============================================================================
