----------------------------- MODULE TriggerParts -----------------------------
(***************************************************************************)
(* What lies beside the engine of the trigger profiles and does not        *)
(* influence it in these models: the profiles in their files and in the    *)
(* renderer's list, with variables of their own.                           *)
(***************************************************************************)
CONSTANTS TypedNames, OfferedNames, PlainWords, Operators, MaxProfiles

VARIABLES kept, list, selected, ops, made, unsaved, excused, lost

Profiles == INSTANCE TriggerProfileFiles WITH
    files <- kept, draft <- selected, Typed <- TypedNames, Offered <- OfferedNames,
    Plain <- PlainWords, Callers <- Operators, MaxMade <- MaxProfiles

ASSUME ProfileNames == Profiles!NamesOK

-----------------------------------------------------------------------------
\* No profile is lost by an operation on another one, and the renderer lists the
\* profiles there are; see TriggerProfileFiles.
ProfilesHold == Profiles!ProfilesHold
=============================================================================
