-------------------------- MODULE VdsGivebackQueue --------------------------
(***************************************************************************)
(* The completion queue of vds_hcd_core.c as operators on sequences.       *)
(*                                                                         *)
(* A URB whose ready_time is 0 is "untimed": it may complete at once.  A   *)
(* timed URB completes no earlier than its ready_time.  Lists of contexts  *)
(* are sequences without duplicates.                                       *)
(***************************************************************************)
EXTENDS Naturals, Sequences, FiniteSets, Functions

(* Defective forms of the two definitions below, see VdsHcd.               *)
GivebackPositionTailMutant(queue, readyTime, time) == Len(queue) + 1
QueueGivebackHeadMutant(queue, readyTime, urbs, time) == urbs \o queue

(***************************************************************************)
(* Where a context with ready_time `time` is inserted.  Both loops of      *)
(* vds_queue_urb_giveback_locked stop at the first entry whose ready_time  *)
(* is later: an untimed context stops at the first timed entry, a timed    *)
(* one skips the untimed entries.                                          *)
(***************************************************************************)
GivebackPosition(queue, readyTime, time) ==
    LET later == {i \in 1..Len(queue) : readyTime[queue[i]] > time}
    IN  IF later = {} THEN Len(queue) + 1
        ELSE CHOOSE i \in later : \A j \in later : i <= j

(***************************************************************************)
(* The queue after the contexts of `urbs`, which share one ready_time, are *)
(* queued one after the other.                                             *)
(***************************************************************************)
QueueGiveback(queue, readyTime, urbs, time) ==
    LET p == GivebackPosition(queue, readyTime, time)
    IN  SubSeq(queue, 1, p - 1) \o urbs \o SubSeq(queue, p, Len(queue))

(* list_del_init of one context.                                           *)
ListDel(list, u) ==
    LET i == CHOOSE k \in DOMAIN list : list[k] = u
    IN  IF u \in Range(list)
        THEN SubSeq(list, 1, i - 1) \o SubSeq(list, i + 1, Len(list))
        ELSE list

(***************************************************************************)
(* The members of `list` that are in S, in list order (there is exactly    *)
(* one such sequence when `list` has no duplicates).                       *)
(***************************************************************************)
InListOrder(list, S) ==
    LET kept == Range(list) \cap S
        Precedes(a, b) == \E i, j \in DOMAIN list :
                              i < j /\ list[i] = a /\ list[j] = b
    IN  {t \in [1..Cardinality(kept) -> kept] :
            /\ Range(t) = kept
            /\ IsInjective(t)
            /\ \A i, j \in DOMAIN t : i < j => Precedes(t[i], t[j])}

(* Timed entries stand in order of their ready_time.                       *)
TimedSorted(queue, readyTime) ==
    \A i, j \in 1..Len(queue) :
        (i < j /\ readyTime[queue[j]] # 0)
        => readyTime[queue[i]] <= readyTime[queue[j]]

=============================================================================
