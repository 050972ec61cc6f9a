------------------------------- MODULE VdsHcd -------------------------------
(***************************************************************************)
(* The virtual USB host controller of vds/module: vds_hcd_core.c and the   *)
(* device it emulates, vds_usb_core.c.                                     *)
(*                                                                         *)
(* Actors: the threads of class drivers that submit and unlink URBs, the   *)
(* giveback thread, the process that holds /dev/vdsN open, usbcore's hub   *)
(* thread, and the clock.  Every critical section of dev->lock (and of the *)
(* emulated device's own lock) is one atomic step; what the code does      *)
(* between two critical sections interleaves with the other actors.        *)
(*                                                                         *)
(* An element of Urbs is one submission: a urb and the vds_urb_context     *)
(* that vds_urb_enqueue allocates for it and the giveback thread frees.    *)
(***************************************************************************)
EXTENDS Naturals, Sequences, FiniteSets, Functions, VdsGivebackQueue

CONSTANTS
    Urbs,           \* submissions
    Requests,       \* what a submission may ask for, see Request
    FeatureIds,     \* HID feature report ids
    Sessions,       \* successive or competing openers of /dev/vdsN
    NoUrb,          \* not a submission
    NoReport,       \* not a feature report id
    MaxEvents,      \* 16384 in vds_enqueue_frame
    HidInterval,    \* hid_in_interval_us of the profile
    IsoDuration,    \* PCM duration carried by one ISO URB
    PortClears,     \* port features usbcore may clear on its own
    Removable,      \* bound: may the driver be unbound?
    MaxReports,     \* bound: input reports written
    MaxEpochs       \* bound: 1 allows one connection, 3 allows two

Kinds == {"other", "set_configuration", "set_interface", "feature_get",
          "feature_set", "hid_in", "hid_out", "iso_in", "iso_out",
          "other_interface"}
IsoKinds == {"iso_in", "iso_out"}
PeriodicKinds == IsoKinds \cup {"hid_in"}
ConfigKinds == {"set_configuration", "set_interface", "other_interface"}
Request == [kind : Kinds, arg : FeatureIds \cup {0, 1}]

UsbPortBits == {"POWER", "CONNECTION", "ENABLE", "C_CONNECTION", "C_RESET"}
UsbDeviceStatus == {"CONFIGURED", "HID_ENABLED", "AUDIO_ENABLED"}
StatusFlags == {"CONNECTED"} \cup UsbDeviceStatus

ASSUME BoundsAssumption ==
    /\ MaxEvents \in Nat \ {0}
    /\ HidInterval \in Nat \ {0}
    /\ IsoDuration \in Nat \ {0}
    /\ MaxReports \in Nat
    /\ MaxEpochs \in Nat
    /\ Removable \in BOOLEAN
ASSUME RequestsAssumption ==
    /\ Requests \subseteq Request
    /\ \A r \in Requests :
        /\ r.kind \in {"feature_get", "feature_set"} => r.arg \in FeatureIds
        /\ r.kind \in {"set_configuration", "set_interface"} => r.arg \in {0, 1}
ASSUME DistinctAssumption ==
    /\ NoUrb \notin Urbs
    /\ NoReport \notin FeatureIds
    /\ PortClears \subseteq {"POWER", "ENABLE", "C_RESET"}

VARIABLES
    \* one vds_urb_context per submission, and where its submitter stands
    ctx, pc, request, ret, status, ready_time, report, unlinked, born,
    \* the lists of vds_hcd_dev
    pending_hid_in, pending_feature_get, completed_urbs,
    events, next_sequence, input_packets,
    \* ktime and the pacing deadlines
    now, next_hid_in_ready, next_iso_in_ready, next_iso_out_ready,
    \* root hub port, status flags, life cycle
    port_status, status_flags, stopping, opened,
    \* vds_usb_device
    configuration, audio_out_altsetting, feature_cache,
    \* the giveback thread and the context it took from the queue
    giveback, giving,
    \* the processes behind /dev/vdsN
    user, replying, asked, written, epoch,
    \* usbcore: hub thread and the connection it has enumerated
    hub, enumerated

contextVars == <<ctx, pc, request, ret, status, ready_time, report, unlinked,
                 born>>
listVars    == <<pending_hid_in, pending_feature_get, completed_urbs>>
eventVars   == <<events, next_sequence>>
pacingVars  == <<next_hid_in_ready, next_iso_in_ready, next_iso_out_ready>>
usbVars     == <<configuration, audio_out_altsetting, feature_cache>>
threadVars  == <<giveback, giving>>
userVars    == <<user, replying, asked, written>>
hubVars     == <<hub, enumerated>>
portVars    == <<port_status, status_flags, stopping, opened>>

vars == <<contextVars, listVars, eventVars, input_packets, now, pacingVars,
          portVars, usbVars, threadVars, userVars, epoch, hubVars>>

ContextStates == {"UNUSED", "ACTIVE", "PENDING_HID_IN", "PENDING_FEATURE_GET",
                  "PENDING_GIVEBACK", "GIVING_BACK", "FREED"}
Results == {"none", "ok", "EPIPE", "ENOSPC", "ESHUTDOWN", "UNLINKED"}
Steps == {"none", "handle", "defer", "request", "configured", "audio_off",
          "audio", "interface_event", "queue"}
UserStates == {"closed", "open", "replying", "resetting", "closing",
               "closing_reset"}
FrameTypes == {"HID_OUT", "FEATURE_GET", "FEATURE_SET", "AUDIO_OUT", "INTERFACE"}
Event == [type : FrameTypes, urb : Urbs, sequence : Nat]

-----------------------------------------------------------------------------
(* vds_hcd_probe followed by vds_hcd_start: a powered, empty port.         *)
Init ==
    /\ ctx = [u \in Urbs |-> "UNUSED"]
    /\ pc = [u \in Urbs |-> "none"]
    /\ request = [u \in Urbs |-> [kind |-> "other", arg |-> 0]]
    /\ ret = [u \in Urbs |-> "none"]
    /\ status = [u \in Urbs |-> "none"]
    /\ ready_time = [u \in Urbs |-> 0]
    /\ report = [u \in Urbs |-> 0]
    /\ unlinked = {}
    /\ born = [u \in Urbs |-> 0]
    /\ pending_hid_in = <<>> /\ pending_feature_get = <<>>
    /\ completed_urbs = <<>>
    /\ events = <<>> /\ next_sequence = 0 /\ input_packets = <<>>
    /\ now = 1
    /\ next_hid_in_ready = 0 /\ next_iso_in_ready = 0
    /\ next_iso_out_ready = 0
    /\ port_status = {"POWER"} /\ status_flags = {}
    /\ stopping = FALSE /\ opened = FALSE
    /\ configuration = 0 /\ audio_out_altsetting = 0 /\ feature_cache = {}
    /\ giveback = "wait" /\ giving = NoUrb
    /\ user = [s \in Sessions |-> "closed"]
    /\ replying = [s \in Sessions |-> NoReport]
    /\ asked = [s \in Sessions |-> {}]
    /\ written = 0 /\ epoch = 0
    /\ hub = "idle" /\ enumerated = 0

-----------------------------------------------------------------------------
(* Helpers: each is the body of a _locked function of the code.            *)

Linked == {u \in Urbs : ctx[u] \notin {"UNUSED", "GIVING_BACK", "FREED"}}

(* Definitions named ...Mutant are defective forms of the definition that  *)
(* follows them, put in its place to see that a property notices.          *)

NextReadyBurstMutant(next, interval) == now + interval
NextReadyPastMutant(next, interval) ==
    (IF next > now THEN next ELSE now) - interval

(* The deadline of the next completion of a paced endpoint.                *)
NextReady(next, interval) == (IF next > now THEN next ELSE now) + interval

GivebackRefusedOnceMutant(u) == ctx[u] \in {"GIVING_BACK", "FREED"}
GivebackRefusedWaitingMutant(u) ==
    ctx[u] \in {"PENDING_HID_IN", "PENDING_GIVEBACK", "GIVING_BACK", "FREED"}

(* vds_queue_urb_giveback_locked: a context that already awaits giveback   *)
(* or was given back is left alone.  For a freed one this is the outcome   *)
(* in which its memory still reads GIVING_BACK (see NoUseAfterGiveback).   *)
GivebackRefused(u) == ctx[u] \in {"PENDING_GIVEBACK", "GIVING_BACK", "FREED"}
QueueGivebackLocked(u, result) ==
    IF GivebackRefused(u)
    THEN UNCHANGED <<ctx, status, listVars>>
    ELSE /\ ctx' = [ctx EXCEPT ![u] = "PENDING_GIVEBACK"]
         /\ status' = [status EXCEPT ![u] = result]
         /\ pending_hid_in' = ListDel(pending_hid_in, u)
         /\ pending_feature_get' = ListDel(pending_feature_get, u)
         /\ completed_urbs' = QueueGiveback(completed_urbs, ready_time, <<u>>,
                                            ready_time[u])

(* vds_enqueue_frame: refused while stopping or when the queue is full.    *)
CanEnqueue == ~stopping /\ Len(events) < MaxEvents
EnqueueFrame(type, u) ==
    /\ events' = Append(events, [type |-> type, urb |-> u,
                                 sequence |-> next_sequence])
    /\ next_sequence' = next_sequence + 1
EnqueueBestEffort(type, u) ==
    IF CanEnqueue THEN EnqueueFrame(type, u) ELSE UNCHANGED eventVars

(* The handler of u goes on at `step`, or has its result.                  *)
Goto(u, step) == pc' = [pc EXCEPT ![u] = step] /\ UNCHANGED ret
HandlerReturns(u, result) ==
    /\ pc' = [pc EXCEPT ![u] = "queue"]
    /\ ret' = [ret EXCEPT ![u] = result]

-----------------------------------------------------------------------------
(* What usbcore and the class drivers serialize: a driver fills one        *)
(* periodic endpoint from one place, and the device lock covers changes of *)
(* configuration and alternate setting.                                    *)
Serialized(r) ==
    \A v \in Urbs : pc[v] # "none" =>
        /\ r.kind \in PeriodicKinds => request[v].kind # r.kind
        /\ r.kind \in ConfigKinds => request[v].kind \notin ConfigKinds

(* vds_urb_enqueue, up to the switch: link the URB to its endpoint.  Class *)
(* drivers submit to an enumerated device whose teardown has not begun.    *)
Submit(u, r) ==
    /\ ctx[u] = "UNUSED"
    /\ hub = "idle" /\ enumerated # 0
    /\ ~stopping
    /\ Serialized(r)
    /\ ctx' = [ctx EXCEPT ![u] = "ACTIVE"]
    /\ pc' = [pc EXCEPT ![u] = "handle"]
    /\ request' = [request EXCEPT ![u] = r]
    /\ born' = [born EXCEPT ![u] = epoch]
    /\ UNCHANGED <<ret, status, ready_time, report, unlinked, listVars,
                   eventVars, input_packets, now, pacingVars, portVars,
                   usbVars, threadVars, userVars, epoch, hubVars>>

Handling(u, kind) == pc[u] = "handle" /\ request[u].kind = kind

(* Control requests that only read descriptors or data nothing else looks  *)
(* at, and requests the device stalls.                                     *)
HandleOther(u) ==
    /\ Handling(u, "other")
    /\ \E result \in {"ok", "EPIPE"} : HandlerReturns(u, result)
    /\ UNCHANGED <<ctx, request, status, ready_time, report, unlinked, born,
                   listVars, eventVars, input_packets, now, pacingVars,
                   portVars, usbVars, threadVars, userVars, epoch, hubVars>>

(* vds_interrupt_in_urb: take the buffered snapshot, or wait for one.      *)
HandleHidIn(u) ==
    /\ Handling(u, "hid_in")
    /\ IF input_packets # <<>>
       THEN LET ready == NextReady(next_hid_in_ready, HidInterval)
            IN  /\ report' = [report EXCEPT ![u] = Head(input_packets)]
                /\ input_packets' = Tail(input_packets)
                /\ ready_time' = [ready_time EXCEPT ![u] = ready]
                /\ next_hid_in_ready' = ready
                /\ HandlerReturns(u, "ok")
                /\ UNCHANGED <<ctx, pending_hid_in>>
       ELSE /\ ctx' = [ctx EXCEPT ![u] = "PENDING_HID_IN"]
            /\ pending_hid_in' = Append(pending_hid_in, u)
            /\ Goto(u, "none")
            /\ UNCHANGED <<report, input_packets, ready_time,
                           next_hid_in_ready>>
    /\ UNCHANGED <<request, status, unlinked, born, pending_feature_get,
                   completed_urbs, eventVars, now, next_iso_in_ready,
                   next_iso_out_ready, portVars, usbVars, threadVars,
                   userVars, epoch, hubVars>>

(* vds_interrupt_out_urb: backpressure never stalls the pipe.              *)
HandleHidOut(u) ==
    /\ Handling(u, "hid_out")
    /\ EnqueueBestEffort("HID_OUT", u)
    /\ HandlerReturns(u, "ok")
    /\ UNCHANGED <<ctx, request, status, ready_time, report, unlinked, born,
                   listVars, input_packets, now, pacingVars, portVars,
                   usbVars, threadVars, userVars, epoch, hubVars>>

(* HID SET_REPORT(feature): fails when its frame cannot be queued.         *)
HandleFeatureSet(u) ==
    /\ Handling(u, "feature_set")
    /\ IF CanEnqueue
       THEN EnqueueFrame("FEATURE_SET", u) /\ HandlerReturns(u, "ok")
       ELSE /\ HandlerReturns(u, IF stopping THEN "ESHUTDOWN" ELSE "ENOSPC")
            /\ UNCHANGED eventVars
    /\ UNCHANGED <<ctx, request, status, ready_time, report, unlinked, born,
                   listVars, input_packets, now, pacingVars, portVars,
                   usbVars, threadVars, userVars, epoch, hubVars>>

(* HID GET_REPORT(feature): the cache answers, or the request is deferred. *)
HandleFeatureGet(u) ==
    /\ Handling(u, "feature_get")
    /\ IF request[u].arg \in feature_cache
       THEN HandlerReturns(u, "ok")
       ELSE Goto(u, "defer")
    /\ UNCHANGED <<ctx, request, status, ready_time, report, unlinked, born,
                   listVars, eventVars, input_packets, now, pacingVars,
                   portVars, usbVars, threadVars, userVars, epoch, hubVars>>

(* vds_usb_defer_feature_get *)
DeferFeatureGet(u) ==
    /\ pc[u] = "defer"
    /\ IF stopping
       THEN /\ HandlerReturns(u, "ESHUTDOWN")
            /\ UNCHANGED <<ctx, pending_feature_get>>
       ELSE /\ ctx' = [ctx EXCEPT ![u] = "PENDING_FEATURE_GET"]
            /\ pending_feature_get' = Append(pending_feature_get, u)
            /\ Goto(u, "request")
    /\ UNCHANGED <<request, status, ready_time, report, unlinked, born,
                   pending_hid_in, completed_urbs, eventVars, input_packets,
                   now, pacingVars, portVars, usbVars, threadVars, userVars,
                   epoch, hubVars>>

RequestFeatureBestEffortMutant(u) ==
    /\ pc[u] = "request"
    /\ EnqueueBestEffort("FEATURE_GET", u) /\ Goto(u, "none")
    /\ UNCHANGED <<ctx, request, status, ready_time, report, unlinked, born,
                   listVars, input_packets, now, pacingVars, portVars, usbVars,
                   threadVars, userVars, epoch, hubVars>>

(* The request frame of a deferred GET_REPORT.                             *)
RequestFeature(u) ==
    /\ pc[u] = "request"
    /\ IF CanEnqueue
       THEN EnqueueFrame("FEATURE_GET", u) /\ Goto(u, "none")
       ELSE /\ HandlerReturns(u, IF stopping THEN "ESHUTDOWN" ELSE "ENOSPC")
            /\ UNCHANGED eventVars
    /\ UNCHANGED <<ctx, request, status, ready_time, report, unlinked, born,
                   listVars, input_packets, now, pacingVars, portVars,
                   usbVars, threadVars, userVars, epoch, hubVars>>

(* SET_CONFIGURATION: the device, then two updates of the status flags.    *)
HandleSetConfiguration(u) ==
    /\ Handling(u, "set_configuration")
    /\ configuration' = request[u].arg
    /\ audio_out_altsetting' = 0
    /\ Goto(u, "configured")
    /\ UNCHANGED <<ctx, request, status, ready_time, report, unlinked, born,
                   listVars, eventVars, input_packets, now, pacingVars,
                   portVars, feature_cache, threadVars, userVars, epoch,
                   hubVars>>

SetConfiguredStatus(u) ==
    /\ pc[u] = "configured"
    /\ status_flags' = IF request[u].arg = 1
                       THEN status_flags \cup {"CONFIGURED", "HID_ENABLED"}
                       ELSE status_flags \ {"CONFIGURED", "HID_ENABLED"}
    /\ Goto(u, "audio_off")
    /\ UNCHANGED <<ctx, request, status, ready_time, report, unlinked, born,
                   listVars, eventVars, input_packets, now, pacingVars,
                   port_status, stopping, opened, usbVars, threadVars,
                   userVars, epoch, hubVars>>

AudioClearedMutant == status_flags
AudioCleared == status_flags \ {"AUDIO_ENABLED"}
ClearAudioStatus(u) ==
    /\ pc[u] = "audio_off"
    /\ status_flags' = AudioCleared
    /\ HandlerReturns(u, "ok")
    /\ UNCHANGED <<ctx, request, status, ready_time, report, unlinked, born,
                   listVars, eventVars, input_packets, now, pacingVars,
                   port_status, stopping, opened, usbVars, threadVars,
                   userVars, epoch, hubVars>>

(* SET_INTERFACE of the audio OUT stream: device, status, event.           *)
HandleSetInterface(u) ==
    /\ Handling(u, "set_interface")
    /\ audio_out_altsetting' = request[u].arg
    /\ Goto(u, "audio")
    /\ UNCHANGED <<ctx, request, status, ready_time, report, unlinked, born,
                   listVars, eventVars, input_packets, now, pacingVars,
                   portVars, configuration, feature_cache, threadVars,
                   userVars, epoch, hubVars>>

SetAudioStatus(u) ==
    /\ pc[u] = "audio"
    /\ status_flags' = IF request[u].arg = 1
                       THEN status_flags \cup {"AUDIO_ENABLED"}
                       ELSE status_flags \ {"AUDIO_ENABLED"}
    /\ Goto(u, "interface_event")
    /\ UNCHANGED <<ctx, request, status, ready_time, report, unlinked, born,
                   listVars, eventVars, input_packets, now, pacingVars,
                   port_status, stopping, opened, usbVars, threadVars,
                   userVars, epoch, hubVars>>

EnqueueInterfaceEvent(u) ==
    /\ pc[u] = "interface_event"
    /\ EnqueueBestEffort("INTERFACE", u)
    /\ HandlerReturns(u, "ok")
    /\ UNCHANGED <<ctx, request, status, ready_time, report, unlinked, born,
                   listVars, input_packets, now, pacingVars, portVars,
                   usbVars, threadVars, userVars, epoch, hubVars>>

(* SET_INTERFACE of an interface without a status flag.                    *)
HandleOtherInterface(u) ==
    /\ Handling(u, "other_interface")
    /\ EnqueueBestEffort("INTERFACE", u)
    /\ HandlerReturns(u, "ok")
    /\ UNCHANGED <<ctx, request, status, ready_time, report, unlinked, born,
                   listVars, input_packets, now, pacingVars, portVars,
                   usbVars, threadVars, userVars, epoch, hubVars>>

(* vds_schedule_iso_giveback: pace completion by the PCM carried.          *)
ScheduleIsoOut(u) ==
    /\ Handling(u, "iso_out")
    /\ LET ready == NextReady(next_iso_out_ready, IsoDuration)
       IN  /\ ready_time' = [ready_time EXCEPT ![u] = ready]
           /\ next_iso_out_ready' = ready
    /\ HandlerReturns(u, "ok")
    /\ UNCHANGED <<ctx, request, status, report, unlinked, born, listVars,
                   eventVars, input_packets, now, next_hid_in_ready,
                   next_iso_in_ready, portVars, usbVars, threadVars, userVars,
                   epoch, hubVars>>

ScheduleIsoIn(u) ==
    /\ Handling(u, "iso_in")
    /\ LET ready == NextReady(next_iso_in_ready, IsoDuration)
       IN  /\ ready_time' = [ready_time EXCEPT ![u] = ready]
           /\ next_iso_in_ready' = ready
    /\ HandlerReturns(u, "ok")
    /\ UNCHANGED <<ctx, request, status, report, unlinked, born, listVars,
                   eventVars, input_packets, now, next_hid_in_ready,
                   next_iso_out_ready, portVars, usbVars, threadVars,
                   userVars, epoch, hubVars>>

(* The end of vds_urb_enqueue: vds_queue_urb_giveback(context, ret).       *)
QueueResult(u) ==
    /\ pc[u] = "queue"
    /\ QueueGivebackLocked(u, ret[u])
    /\ pc' = [pc EXCEPT ![u] = "none"]
    /\ ret' = [ret EXCEPT ![u] = "none"]
    /\ UNCHANGED <<request, ready_time, report, unlinked, born, eventVars,
                   input_packets, now, pacingVars, portVars, usbVars,
                   threadVars, userVars, epoch, hubVars>>

(* vds_urb_dequeue for a URB still linked and not unlinked before.  A URB  *)
(* already in the completion queue keeps its place there.                  *)
DequeueUrb(u) ==
    /\ u \in Linked \ unlinked
    /\ unlinked' = unlinked \cup {u}
    /\ IF ctx[u] = "PENDING_GIVEBACK"
       THEN /\ status' = [status EXCEPT ![u] = "UNLINKED"]
            /\ ready_time' = [ready_time EXCEPT ![u] = 0]
            /\ UNCHANGED <<ctx, listVars>>
       ELSE /\ QueueGivebackLocked(u, "UNLINKED")
            /\ UNCHANGED ready_time
    /\ UNCHANGED <<pc, request, ret, report, born, eventVars, input_packets,
                   now, pacingVars, portVars, usbVars, threadVars, userVars,
                   epoch, hubVars>>

(* A class driver, or usbcore tearing the device down, unlinks a URB whose *)
(* submission has returned.                                                *)
Unlink(u) == pc[u] = "none" /\ DequeueUrb(u)

(* The same while another CPU is still inside vds_urb_enqueue: usbcore     *)
(* allows it, the class drivers of the device do not do it.                *)
UnlinkDuringSubmit(u) == pc[u] # "none" /\ DequeueUrb(u)

-----------------------------------------------------------------------------
(* The giveback thread.                                                    *)

(* Take the head of the queue once it is ready and unlink it from its      *)
(* endpoint; a queue whose head is in the future is slept on (Tick).       *)
TakeCompleted ==
    /\ giveback = "wait" /\ completed_urbs # <<>>
    /\ LET u == Head(completed_urbs)
       IN  /\ ready_time[u] <= now
           /\ completed_urbs' = Tail(completed_urbs)
           /\ ctx' = [ctx EXCEPT ![u] = "GIVING_BACK"]
           /\ giving' = u
           /\ giveback' = IF status[u] = "ok" /\ request[u].kind = "iso_out"
                          THEN "deliver" ELSE "complete"
    /\ UNCHANGED <<pc, request, ret, status, ready_time, report, unlinked,
                   born, pending_hid_in, pending_feature_get, eventVars,
                   input_packets, now, pacingVars, portVars, usbVars,
                   userVars, epoch, hubVars>>

(* vds_iso_out_urb: hand the PCM to the daemon, or drop it.                *)
DeliverIsoOut ==
    /\ giveback = "deliver"
    /\ EnqueueBestEffort("AUDIO_OUT", giving)
    /\ giveback' = "complete"
    /\ UNCHANGED <<contextVars, listVars, input_packets, now, pacingVars,
                   portVars, usbVars, giving, userVars, epoch, hubVars>>

(* usb_hcd_giveback_urb and kfree(context).                                *)
GivebackUrb ==
    /\ giveback = "complete"
    /\ ctx' = [ctx EXCEPT ![giving] = "FREED"]
    /\ giveback' = "wait" /\ giving' = NoUrb
    /\ UNCHANGED <<pc, request, ret, status, ready_time, report, unlinked,
                   born, listVars, eventVars, input_packets, now, pacingVars,
                   portVars, usbVars, userVars, epoch, hubVars>>

(* kthread_stop after usb_remove_hcd: the thread leaves an empty queue.    *)
GivebackThreadExits ==
    /\ giveback = "wait" /\ stopping /\ completed_urbs = <<>>
    /\ giveback' = "exited"
    /\ UNCHANGED <<contextVars, listVars, eventVars, input_packets, now,
                   pacingVars, portVars, usbVars, giving, userVars, epoch,
                   hubVars>>

(* Time passes while some deadline lies ahead; later on it changes nothing *)
(* any actor can tell.                                                     *)
Tick ==
    /\ \E t \in {next_hid_in_ready, next_iso_in_ready, next_iso_out_ready}
                    \cup Range(ready_time) : t > now
    /\ now' = now + 1
    /\ UNCHANGED <<contextVars, listVars, eventVars, input_packets,
                   pacingVars, portVars, usbVars, threadVars, userVars, epoch,
                   hubVars>>

-----------------------------------------------------------------------------
(* The process behind /dev/vdsN, one thread: open, read, write, ioctl,     *)
(* release.                                                                *)

Open(s) ==
    /\ user[s] = "closed" /\ ~opened
    /\ hub \in {"idle", "teardown"}     \* misc_deregister comes first
    /\ opened' = TRUE
    /\ user' = [user EXCEPT ![s] = "open"]
    /\ UNCHANGED <<contextVars, listVars, eventVars, input_packets, now,
                   pacingVars, port_status, status_flags, stopping, usbVars,
                   threadVars, replying, asked, written, epoch, hubVars>>

(* vds_read: take the first event; a feature request awaits an answer.     *)
Read(s) ==
    /\ user[s] = "open" /\ events # <<>>
    /\ events' = Tail(events)
    /\ asked' = IF Head(events).type = "FEATURE_GET"
                THEN [asked EXCEPT ![s] =
                          @ \cup {request[Head(events).urb].arg}]
                ELSE asked
    /\ UNCHANGED <<contextVars, listVars, next_sequence, input_packets, now,
                   pacingVars, portVars, usbVars, threadVars, user, replying,
                   written, epoch, hubVars>>

(* vds_queue_input_packet_locked: only the newest snapshot is kept.        *)
BufferedAllMutant(snapshot) == Append(input_packets, snapshot)
Buffered(snapshot) == <<snapshot>>

(* vds_write_input_frame: answer the first waiting URB, or buffer.         *)
WriteInput(s) ==
    /\ user[s] = "open" /\ ~stopping
    /\ written < MaxReports
    /\ written' = written + 1
    /\ IF pending_hid_in # <<>>
       THEN LET u == Head(pending_hid_in)
                ready == NextReady(next_hid_in_ready, HidInterval)
            IN  /\ report' = [report EXCEPT ![u] = written + 1]
                /\ ready_time' = [ready_time EXCEPT ![u] = ready]
                /\ next_hid_in_ready' = ready
                /\ ctx' = [ctx EXCEPT ![u] = "PENDING_GIVEBACK"]
                /\ status' = [status EXCEPT ![u] = "ok"]
                /\ pending_hid_in' = Tail(pending_hid_in)
                /\ completed_urbs' =
                       QueueGiveback(completed_urbs, ready_time, <<u>>, ready)
                /\ UNCHANGED input_packets
       ELSE /\ input_packets' = Buffered(written + 1)
            /\ UNCHANGED <<report, ready_time, next_hid_in_ready, ctx, status,
                           pending_hid_in, completed_urbs>>
    /\ UNCHANGED <<pc, request, ret, unlinked, born, pending_feature_get,
                   eventVars, now, next_iso_in_ready, next_iso_out_ready,
                   portVars, usbVars, threadVars, user, replying, asked,
                   epoch, hubVars>>

(* vds_write_feature_reply: first the cache ...                            *)
CacheReply(s, f) ==
    /\ user[s] = "open" /\ ~stopping
    /\ feature_cache' = feature_cache \cup {f}
    /\ user' = [user EXCEPT ![s] = "replying"]
    /\ replying' = [replying EXCEPT ![s] = f]
    /\ UNCHANGED <<contextVars, listVars, eventVars, input_packets, now,
                   pacingVars, portVars, configuration, audio_out_altsetting,
                   threadVars, asked, written, epoch, hubVars>>

(* ... then every URB that waits for this report.                          *)
AnsweredFirstMutant(f) ==
    {u \in Range(pending_feature_get) :
        request[u].arg = f /\ u = Head(pending_feature_get)}
Answered(f) == {u \in Range(pending_feature_get) : request[u].arg = f}
CompleteReply(s) ==
    /\ user[s] = "replying"
    /\ user' = [user EXCEPT ![s] = "open"]
    /\ asked' = [asked EXCEPT ![s] = @ \ {replying[s]}]
    /\ replying' = [replying EXCEPT ![s] = NoReport]
    /\ IF stopping
       THEN UNCHANGED <<ctx, status, pending_feature_get, completed_urbs>>
       ELSE LET answered == Answered(replying[s])
            IN  /\ ctx' = [u \in Urbs |-> IF u \in answered
                                          THEN "PENDING_GIVEBACK" ELSE ctx[u]]
                /\ status' = [u \in Urbs |-> IF u \in answered
                                             THEN "ok" ELSE status[u]]
                /\ pending_feature_get' \in
                       InListOrder(pending_feature_get, Urbs \ answered)
                /\ \E done \in InListOrder(pending_feature_get, answered) :
                       completed_urbs' =
                           QueueGiveback(completed_urbs, ready_time, done, 0)
    /\ UNCHANGED <<pc, request, ret, ready_time, report, unlinked, born,
                   pending_hid_in, eventVars, input_packets, now, pacingVars,
                   portVars, usbVars, threadVars, written, epoch, hubVars>>

(* VDS_IOC_SET_PROFILE, -EBUSY while connected.                            *)
SetProfile(s) ==
    /\ user[s] = "open" /\ ~stopping
    /\ "CONNECTED" \notin status_flags
    /\ configuration' = 0 /\ audio_out_altsetting' = 0 /\ feature_cache' = {}
    /\ status_flags' = status_flags \ UsbDeviceStatus
    /\ UNCHANGED <<contextVars, listVars, eventVars, input_packets, now,
                   pacingVars, port_status, stopping, opened, threadVars,
                   userVars, epoch, hubVars>>

(* The port after vds_set_connection(dev, true) and (dev, false).          *)
PortConnectedQuietlyMutant == port_status \cup {"POWER", "CONNECTION"}
PortConnected ==
    port_status \cup {"POWER", "CONNECTION"} \cup
        (IF "CONNECTION" \in port_status THEN {} ELSE {"C_CONNECTION"})
PortDisconnected ==
    (port_status \ {"CONNECTION", "ENABLE"}) \cup
        (IF "CONNECTION" \in port_status THEN {"C_CONNECTION"} ELSE {})

(* VDS_IOC_CONNECT: vds_set_connection(dev, true).                         *)
Connect(s) ==
    /\ user[s] = "open" /\ ~stopping
    /\ port_status' = PortConnected
    /\ status_flags' = status_flags \cup {"CONNECTED"}
    /\ IF "CONNECTION" \in port_status
       THEN UNCHANGED epoch
       ELSE epoch < MaxEpochs /\ epoch' = epoch + 1
    /\ UNCHANGED <<contextVars, listVars, eventVars, input_packets, now,
                   pacingVars, stopping, opened, usbVars, threadVars,
                   userVars, hubVars>>

(* vds_cancel_pending_urbs_locked and vds_flush_buffered_frames_locked.    *)
CancelPending ==
    LET pending == pending_hid_in \o pending_feature_get
    IN  /\ ctx' = [u \in Urbs |-> IF u \in Range(pending)
                                  THEN "PENDING_GIVEBACK" ELSE ctx[u]]
        /\ status' = [u \in Urbs |-> IF u \in Range(pending)
                                     THEN "ESHUTDOWN" ELSE status[u]]
        /\ pending_hid_in' = <<>> /\ pending_feature_get' = <<>>
        /\ completed_urbs' =
               QueueGiveback(completed_urbs, ready_time, pending, 0)
FlushBufferedFrames == input_packets' = <<>> /\ events' = <<>>

(* The critical section of vds_set_connection(dev, false).                 *)
DisconnectLocked ==
    /\ port_status' = PortDisconnected
    /\ status_flags' = {}
    /\ CancelPending
    /\ FlushBufferedFrames
    /\ next_hid_in_ready' = 0 /\ next_iso_in_ready' = 0
    /\ next_iso_out_ready' = 0
    /\ epoch' = IF "CONNECTION" \in port_status THEN epoch + 1 ELSE epoch
    /\ UNCHANGED <<pc, request, ret, ready_time, report, unlinked, born,
                   next_sequence, now, stopping, opened, usbVars, threadVars,
                   replying, asked, written, hubVars>>

(* VDS_IOC_DISCONNECT *)
Disconnect(s) ==
    /\ user[s] = "open" /\ ~stopping
    /\ user' = [user EXCEPT ![s] = "resetting"]
    /\ DisconnectLocked

(* The last step of vds_set_connection(dev, false), outside dev->lock:     *)
(* vds_usb_device_reset_state.                                             *)
ResetUsbDevice(s) ==
    /\ user[s] \in {"resetting", "closing_reset"}
    /\ configuration' = 0 /\ audio_out_altsetting' = 0 /\ feature_cache' = {}
    /\ user' = [user EXCEPT ![s] = IF @ = "resetting" THEN "open"
                                                      ELSE "closed"]
    /\ UNCHANGED <<contextVars, listVars, eventVars, input_packets, now,
                   pacingVars, portVars, threadVars, replying, asked, written,
                   epoch, hubVars>>

(* vds_release: `opened` is cleared before the port is disconnected.       *)
Release(s) ==
    /\ user[s] = "open"
    /\ opened' = FALSE
    /\ asked' = [asked EXCEPT ![s] = {}]
    /\ user' = [user EXCEPT ![s] = IF "CONNECTED" \in status_flags
                                   THEN "closing" ELSE "closed"]
    /\ UNCHANGED <<contextVars, listVars, eventVars, input_packets, now,
                   pacingVars, port_status, status_flags, stopping, usbVars,
                   threadVars, replying, written, epoch, hubVars>>

ReleaseDisconnects(s) ==
    /\ user[s] = "closing" /\ ~stopping
    /\ user' = [user EXCEPT ![s] = "closing_reset"]
    /\ DisconnectLocked

ReleaseAfterStop(s) ==
    /\ user[s] = "closing" /\ stopping
    /\ user' = [user EXCEPT ![s] = "closed"]
    /\ UNCHANGED <<contextVars, listVars, eventVars, input_packets, now,
                   pacingVars, portVars, usbVars, threadVars, replying, asked,
                   written, epoch, hubVars>>

-----------------------------------------------------------------------------
(* usbcore: the hub thread over vds_hub_status_data and vds_hub_control,   *)
(* and driver removal.                                                     *)

(* A connection change is cleared, then the old device is torn down: no    *)
(* submissions any more, every URB is unlinked and waited for.             *)
HubNoticesChange ==
    /\ hub = "idle" /\ "C_CONNECTION" \in port_status
    /\ port_status' = port_status \ {"C_CONNECTION"}
    /\ hub' = "teardown"
    /\ UNCHANGED <<contextVars, listVars, eventVars, input_packets, now,
                   pacingVars, status_flags, stopping, opened, usbVars,
                   threadVars, userVars, epoch, enumerated>>

(* All URBs are back: a connected port is reset and enumerated again.      *)
HubEnumerates ==
    /\ hub = "teardown" /\ Linked = {} /\ giving = NoUrb
    /\ hub' = "idle"
    /\ IF "CONNECTION" \in port_status
       THEN /\ port_status' = port_status \cup {"ENABLE", "C_RESET"}
            /\ enumerated' = epoch
       ELSE enumerated' = 0 /\ UNCHANGED port_status
    /\ UNCHANGED <<contextVars, listVars, eventVars, input_packets, now,
                   pacingVars, status_flags, stopping, opened, usbVars,
                   threadVars, userVars, epoch>>

ClearPortFeature(f) ==
    /\ f \in PortClears \cap port_status
    /\ hub = "teardown"
    /\ port_status' = port_status \ {f}
    /\ UNCHANGED <<contextVars, listVars, eventVars, input_packets, now,
                   pacingVars, status_flags, stopping, opened, usbVars,
                   threadVars, userVars, epoch, hubVars>>

(* vds_hcd_remove: usb_remove_hcd first tears the device down ...          *)
BeginRemove ==
    /\ hub = "idle" /\ Removable
    /\ hub' = "removing"
    /\ UNCHANGED <<contextVars, listVars, eventVars, input_packets, now,
                   pacingVars, portVars, usbVars, threadVars, userVars, epoch,
                   enumerated>>

(* ... and then calls vds_hcd_stop.                                        *)
StopHcd ==
    /\ hub = "removing" /\ Linked = {} /\ giving = NoUrb
    /\ hub' = "removed" /\ enumerated' = 0
    /\ stopping' = TRUE
    /\ CancelPending
    /\ FlushBufferedFrames
    /\ status_flags' = {}
    /\ UNCHANGED <<pc, request, ret, ready_time, report, unlinked, born,
                   next_sequence, now, pacingVars, port_status, opened,
                   usbVars, threadVars, userVars, epoch>>

-----------------------------------------------------------------------------
HandlerStep(u) ==
    \/ HandleOther(u) \/ HandleHidIn(u) \/ HandleHidOut(u)
    \/ HandleFeatureSet(u) \/ HandleFeatureGet(u) \/ DeferFeatureGet(u)
    \/ RequestFeature(u) \/ HandleSetConfiguration(u)
    \/ SetConfiguredStatus(u) \/ ClearAudioStatus(u)
    \/ HandleSetInterface(u) \/ SetAudioStatus(u)
    \/ EnqueueInterfaceEvent(u) \/ HandleOtherInterface(u)
    \/ ScheduleIsoOut(u) \/ ScheduleIsoIn(u)
    \/ QueueResult(u)

GivebackStep == TakeCompleted \/ DeliverIsoOut \/ GivebackUrb

HostStep ==
    \/ HubNoticesChange \/ HubEnumerates \/ BeginRemove \/ StopHcd
    \/ \E f \in PortClears : ClearPortFeature(f)

UserStep(s) ==
    \/ Open(s) \/ Read(s) \/ WriteInput(s) \/ CompleteReply(s)
    \/ \E f \in FeatureIds : CacheReply(s, f)
    \/ SetProfile(s) \/ Connect(s) \/ Disconnect(s) \/ ResetUsbDevice(s)
    \/ Release(s) \/ ReleaseDisconnects(s) \/ ReleaseAfterStop(s)

Next ==
    \/ \E u \in Urbs, r \in Requests : Submit(u, r)
    \/ \E u \in Urbs : HandlerStep(u) \/ Unlink(u)
    \/ GivebackStep \/ GivebackThreadExits \/ Tick
    \/ \E s \in Sessions : UserStep(s)
    \/ HostStep

Spec == Init /\ [][Next]_vars

(* With class drivers that unlink a URB another CPU is still submitting.   *)
RacyNext == Next \/ \E u \in Urbs : UnlinkDuringSubmit(u)
RacySpec == Init /\ [][RacyNext]_vars

-----------------------------------------------------------------------------
(* Safety.                                                                 *)

ContextTypes ==
    /\ ctx \in [Urbs -> ContextStates]
    /\ pc \in [Urbs -> Steps]
    /\ request \in [Urbs -> Request]
    /\ ret \in [Urbs -> Results] /\ status \in [Urbs -> Results]
    /\ ready_time \in [Urbs -> Nat] /\ report \in [Urbs -> Nat]
    /\ unlinked \subseteq Urbs /\ born \in [Urbs -> Nat]
ListTypes ==
    /\ pending_hid_in \in Seq(Urbs) /\ pending_feature_get \in Seq(Urbs)
    /\ completed_urbs \in Seq(Urbs)
QueueTypes ==
    /\ events \in Seq(Event) /\ next_sequence \in Nat
    /\ input_packets \in Seq(Nat)
ClockTypes ==
    /\ now \in Nat
    /\ next_hid_in_ready \in Nat /\ next_iso_in_ready \in Nat
    /\ next_iso_out_ready \in Nat
PortTypes ==
    /\ port_status \subseteq UsbPortBits /\ status_flags \subseteq StatusFlags
    /\ stopping \in BOOLEAN /\ opened \in BOOLEAN
DeviceTypes ==
    /\ configuration \in {0, 1} /\ audio_out_altsetting \in {0, 1}
    /\ feature_cache \subseteq FeatureIds
ThreadTypes ==
    /\ giveback \in {"wait", "deliver", "complete", "exited"}
    /\ giving \in Urbs \cup {NoUrb}
UserTypes ==
    /\ user \in [Sessions -> UserStates]
    /\ replying \in [Sessions -> FeatureIds \cup {NoReport}]
    /\ asked \in [Sessions -> SUBSET FeatureIds]
    /\ written \in Nat
HubTypes ==
    /\ hub \in {"idle", "teardown", "removing", "removed"}
    /\ enumerated \in Nat /\ epoch \in Nat
TypeOK ==
    /\ ContextTypes /\ ListTypes /\ QueueTypes /\ ClockTypes /\ PortTypes
    /\ DeviceTypes /\ ThreadTypes /\ UserTypes /\ HubTypes

(* What the types rest on: a submission that is being handled asked for    *)
(* one of Requests, and only a GET_REPORT is deferred or asked for.        *)
RequestInv ==
    /\ \A u \in Urbs : pc[u] # "none" => ctx[u] # "UNUSED"
    /\ \A u \in Urbs : ctx[u] # "UNUSED" => request[u] \in Requests
    /\ \A u \in Urbs : pc[u] \in {"defer", "request"}
                           => request[u].kind = "feature_get"
    /\ \A i \in 1..Len(events) :
           events[i].type = "FEATURE_GET"
           => /\ ctx[events[i].urb] # "UNUSED"
              /\ request[events[i].urb].kind = "feature_get"

(* Every context is in exactly the place its state says: on one list,      *)
(* once, or with the giveback thread.  With GivebackUrb the only way out,  *)
(* a URB is given back exactly once.                                       *)
InState(state) == {u \in Urbs : ctx[u] = state}
OnePlace ==
    /\ Range(pending_hid_in) = InState("PENDING_HID_IN")
    /\ Range(pending_feature_get) = InState("PENDING_FEATURE_GET")
    /\ Range(completed_urbs) = InState("PENDING_GIVEBACK")
    /\ \A list \in {pending_hid_in, pending_feature_get, completed_urbs} :
           IsInjective(list)
    /\ InState("GIVING_BACK") = {giving} \ {NoUrb}

(* No snapshot is buffered while a URB waits for one, and at most one is   *)
(* buffered: the host never waits for data the driver already has, and     *)
(* never replays old states.                                               *)
NoReportWaits ==
    /\ pending_hid_in # <<>> => input_packets = <<>>
    /\ Len(input_packets) <= 1

(* u was submitted to the device that is connected now.                    *)
Current(u) == born[u] = epoch /\ "CONNECTION" \in port_status

(* While a connection lasts, its HID IN URBs return their snapshots in the *)
(* order they were written, whatever path (buffer or waiting URB) each     *)
(* took.                                                                   *)
HidInInOrder ==
    \A u, v \in Urbs :
          /\ report[u] # 0 /\ report[u] < report[v]
          /\ Current(u) /\ Current(v) /\ {u, v} \cap unlinked = {}
          /\ ctx[v] \in {"GIVING_BACK", "FREED"}
        => ctx[u] = "FREED"

(* Two URBs of one paced endpoint are due at least one interval apart, so  *)
(* neither a burst of snapshots nor prequeued audio completes faster than  *)
(* the device it imitates (README-LINUX.md: "vDS uses the HID IN interval  *)
(* to pace virtual USB input URB completion").                             *)
Interval(kind) == IF kind = "hid_in" THEN HidInterval ELSE IsoDuration
Paced ==
    \A u, v \in Urbs :
          /\ u # v /\ request[u] = request[v]
          /\ request[u].kind \in PeriodicKinds
          /\ Current(u) /\ Current(v)
          /\ ready_time[u] # 0 /\ ready_time[u] <= ready_time[v]
        => ready_time[v] - ready_time[u] >= Interval(request[u].kind)

(* Timed completions leave in order of their deadline, and a URB that may  *)
(* complete at once stands behind no timed one, unless an unlink cleared   *)
(* its deadline where it stood: "Control and interrupt URBs must not sit   *)
(* behind future ISO audio completions."                                   *)
CompletionOrder ==
    /\ TimedSorted(completed_urbs, ready_time)
    /\ \A i, j \in 1..Len(completed_urbs) :
              /\ i < j
              /\ ready_time[completed_urbs[j]] = 0
              /\ completed_urbs[j] \notin unlinked
            => ready_time[completed_urbs[i]] = 0

(* A deferred GET_REPORT is never forgotten: while its connection lasts, a *)
(* request for its report is about to be queued, is queued, or is with the *)
(* daemon, which has not answered it yet.                                  *)
Requested(f) ==
    \/ \E i \in 1..Len(events) : /\ events[i].type = "FEATURE_GET"
                                 /\ request[events[i].urb].arg = f
    \/ \E s \in Sessions : f \in asked[s]
    \/ \E s \in Sessions : user[s] = "closing"
DeferredIsRequested ==
    \A u \in Urbs :
          /\ ctx[u] = "PENDING_FEATURE_GET" /\ pc[u] = "none"
          /\ Current(u)
        => Requested(request[u].arg)

(* The submission path never queues a context that the giveback thread has *)
(* freed: "The HCD queues this URB before userspace sees the request       *)
(* frame, so a fast reply cannot race the pending list."                   *)
NoUseAfterGiveback == \A u \in Urbs : pc[u] = "queue" => ctx[u] # "FREED"

(* The host never goes on with a device whose connection is over without   *)
(* a connection change waiting for the hub thread.                         *)
StaleDeviceIsFlagged ==
      /\ hub = "idle" /\ enumerated # epoch
      /\ enumerated # 0 \/ "CONNECTION" \in port_status
    => "C_CONNECTION" \in port_status

(* AUDIO_ENABLED follows the alternate setting once control requests and   *)
(* resets have settled.                                                    *)
AudioFlagSettles ==
      /\ configuration = 1 /\ ~stopping
      /\ \A u \in Urbs : pc[u] \notin {"configured", "audio_off", "audio"}
      /\ \A s \in Sessions : user[s] \notin {"resetting", "closing_reset"}
    => ("AUDIO_ENABLED" \in status_flags <=> audio_out_altsetting = 1)

=============================================================================
