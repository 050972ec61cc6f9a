------------------------------ MODULE MCVdsHcd ------------------------------
(* Instances of VdsHcd for TLC: what the submissions of a run may ask for. *)
EXTENDS VdsHcdService, TLC

CONSTANT f1

Req(kind, arg) == [kind |-> kind, arg |-> arg]

(* Paced endpoints (reports that wait for URBs, URBs that wait for         *)
(* reports, prequeued audio) beside requests that complete at once.        *)
PacedRequests == {Req("hid_in", 0), Req("iso_out", 0), Req("hid_out", 0),
                  Req("other_interface", 0), Req("other", 0)}

(* GET_REPORTs that compete for one answer, alone ...                      *)
DeferRequests == {Req("feature_get", f1)}

(* ... and with others for the place in the frame queue.                   *)
FeatureRequests == {Req("feature_get", f1), Req("feature_set", f1)}

(* A change of the configuration and one of the audio interface.           *)
ConfigRequests == {Req("set_configuration", 1), Req("set_interface", 0),
                   Req("set_interface", 1)}

(* A URB that waits for data and one that waits for its time.              *)
ServiceRequests == {Req("hid_in", 0), Req("iso_in", 0)}

UrbSymmetry == Permutations(Urbs)
Symmetry == Permutations(Urbs) \cup Permutations(Sessions)
=============================================================================
