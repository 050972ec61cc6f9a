----------------------------- MODULE UrbService -----------------------------
(***************************************************************************)
(* What a USB host controller driver owes its callers, whatever it         *)
(* emulates: every URB it accepted comes back exactly once, with the       *)
(* result of its request or, exactly when it was cancelled first, as       *)
(* unlinked; and a cancelled URB does come back.                           *)
(***************************************************************************)
CONSTANTS Urbs, HandlerResults

VARIABLES
    held,       \* accepted and not yet back
    cancelled,  \* URBs the caller wants back
    result      \* what each URB came back with, "none" before

vars == <<held, cancelled, result>>

Init ==
    /\ held = {} /\ cancelled = {}
    /\ result = [u \in Urbs |-> "none"]

Accept(u) ==
    /\ u \notin held /\ result[u] = "none"
    /\ held' = held \cup {u}
    /\ UNCHANGED <<cancelled, result>>

Cancel(u) ==
    /\ u \in held \ cancelled
    /\ cancelled' = cancelled \cup {u}
    /\ UNCHANGED <<held, result>>

Return(u) ==
    /\ u \in held
    /\ held' = held \ {u}
    /\ \E r \in IF u \in cancelled THEN {"UNLINKED"} ELSE HandlerResults :
           result' = [result EXCEPT ![u] = r]
    /\ UNCHANGED cancelled

Next == \E u \in Urbs : Accept(u) \/ Cancel(u) \/ Return(u)

SafeSpec == Init /\ [][Next]_vars
Spec == SafeSpec /\ \A u \in Urbs : WF_vars(u \in cancelled /\ Return(u))

=============================================================================
