--------------------------- MODULE VdsHcdService ----------------------------
(***************************************************************************)
(* What must eventually happen in VdsHcd, and the service it implements.   *)
(***************************************************************************)
EXTENDS VdsHcd

(***************************************************************************)
(* The kernel runs a handler, a work item, a thread or a system call that  *)
(* was started, and time passes; which of several handlers or calls goes   *)
(* first is left open.  Nothing is assumed of class drivers or of the      *)
(* process behind /dev/vdsN beyond finishing what it is inside of.         *)
(***************************************************************************)
HostWork == HubNoticesChange \/ HubEnumerates \/ StopHcd
SystemCallStep(s) == \/ CompleteReply(s) \/ ResetUsbDevice(s)
                     \/ ReleaseDisconnects(s) \/ ReleaseAfterStop(s)
KernelFairness ==
    /\ WF_vars(\E u \in Urbs : HandlerStep(u))
    /\ WF_vars(hub \in {"teardown", "removing"} /\ \E u \in Urbs : Unlink(u))
    /\ WF_vars(GivebackStep) /\ WF_vars(GivebackThreadExits) /\ WF_vars(Tick)
    /\ WF_vars(HostWork)
    /\ WF_vars(\E s \in Sessions : SystemCallStep(s))

(* A daemon that keeps draining its epoll set: again and again it reads a  *)
(* frame or delivers the answer to a feature request it has read, which    *)
(* assumes a controller that answers.                                      *)
Serve(s) == Read(s) \/ \E f \in asked[s] : CacheReply(s, f)
DaemonFairness == \A s \in Sessions : SF_vars(Serve(s))

FairSpec == Spec /\ KernelFairness

(***************************************************************************)
(* The abstract service, with the state of the contexts behind it.         *)
(***************************************************************************)
Service == INSTANCE UrbService WITH
    HandlerResults <- Results \ {"none", "UNLINKED"},
    held <- {u \in Urbs : ctx[u] \notin {"UNUSED", "FREED"}},
    cancelled <- unlinked,
    result <- [u \in Urbs |-> IF ctx[u] = "FREED" THEN status[u] ELSE "none"]

(* Every URB comes back exactly once, unlinked if and only if it was       *)
(* unlinked in time (vds_urb_dequeue, vds_giveback_thread).                *)
ServiceSafe == Service!SafeSpec

(* ... and an unlinked one does come back, whatever list it was on and     *)
(* however long the timed completions ahead of it take.                    *)
ServiceSpec == Service!Spec

(* A GET_REPORT that waits for the controller is answered, cancelled or    *)
(* unlinked, however replies, disconnects and full queues interleave.      *)
DeferredGetReturns ==
    DaemonFairness =>
        \A u \in Urbs : ctx[u] = "PENDING_FEATURE_GET" ~> ctx[u] = "FREED"

(* The host finishes tearing a lost connection down, and driver removal    *)
(* ends with the giveback thread gone: no URB is held back for ever.       *)
TeardownEnds ==
    /\ hub = "teardown" ~> hub = "idle"
    /\ hub = "removing" ~> giveback = "exited"

=============================================================================
