-------------------------- MODULE TriggerProfileFiles --------------------------
(* The trigger profiles in their files (trigger-profile-store.ts, with the   *)
(* handlers of main.ts), the list and the draft the renderer keeps of them   *)
(* (App.tsx), and the downloads from the library (profile-library.ts).  An   *)
(* operation of the renderer is a call of the main process, which acts at    *)
(* once or after a download, then a reading of the list, which is merged     *)
(* with the list and the selection the operation saw when it began.          *)
(*                                                                           *)
(* A name is the sequence of its words, the empty one a name without letter  *)
(* or digit; an identifier is one as well, and a number at its end is        *)
(* written in strokes. A profile carries the number of its making, which no  *)
(* file holds: it tells whose work is overwritten.                           *)
EXTENDS Integers, Sequences, FiniteSets

CONSTANTS
    Typed,      \* names a user types for a profile or a game
    Offered,    \* names of profiles in the library and in files to import
    Plain,      \* how each word is written in an identifier
    Callers,    \* operations that may be under way together
    MaxMade     \* bound: profiles made and operations begun

VARIABLES
    files,     \* the profile files, by identifier
    list,      \* triggerProfiles, by identifier
    draft,     \* triggerProfileDraft, the one selected
    ops,       \* ops[c]: the operation of a caller
    made,      \* how many profiles were made and operations begun
    unsaved,   \* history: drafts made and neither saved nor deleted
    excused,   \* history: "overlap", "reserved", "stray" and "dropped", see below
    lost       \* history: how a profile was overwritten or removed by an operation on another

vars == <<files, list, draft, ops, made, unsaved, excused, lost>>

Words == DOMAIN Plain
NamesOK == /\ Typed \subseteq Seq(Words) /\ Offered \subseteq Seq(Words) /\ Plain \in [Words -> Words]
           /\ {"#", "1", "a", "Copy", "Default", "New"} \subseteq Words

-----------------------------------------------------------------------------
DefaultId == <<"default">>
Reserved == <<"engine-state">>   \* engine-state.json is in the same directory
Provisional(id) == Head(id) = "draft"

Profile(uid, id, name, body, game, lib) ==
    [uid |-> uid, id |-> id, name |-> name, body |-> body, game |-> game, lib |-> lib]
DefaultProfile == Profile(0, DefaultId, <<"Default">>, "plain", FALSE, FALSE)

Without(f, id) == [i \in DOMAIN f \ {id} |-> f[i]]
With(f, p) == [i \in DOMAIN f \cup {p.id} |-> IF i = p.id THEN p ELSE f[i]]

\* TriggerProfileStore.list: the default is there without a file; the engine's state is no profile.
Listed(fs) ==
    [i \in (DOMAIN fs \ {Reserved}) \cup {DefaultId} |->
        IF i \in DOMAIN fs \ {Reserved} THEN fs[i] ELSE DefaultProfile]

Slug(name) == [i \in DOMAIN name |-> Plain[name[i]]]

Numbered(base, n) == base \o <<"#">> \o [i \in 1..n |-> "1"]
FirstFree(base, taken) ==
    Numbered(base, CHOOSE n \in 2..Cardinality(taken) + 2 :
                       Numbered(base, n) \notin taken /\ \A k \in 2..n - 1 : Numbered(base, k) \in taken)
\* The default's identifier is taken, and so is that of a name without a letter.
UniqueTriggerProfileIdMutant(name, ids) ==
    LET taken == ids \cup {DefaultId, <<>>}
    IN  IF Slug(name) \in taken THEN Numbered(Slug(name), 2) ELSE Slug(name)
UniqueTriggerProfileId(name, ids) ==
    LET taken == ids \cup {DefaultId, <<>>}
    IN  IF Slug(name) \in taken THEN FirstFree(Slug(name), taken) ELSE Slug(name)
UniqueName(name, taken) == IF name \in taken THEN FirstFree(name, taken) ELSE name

\* The copy an import or an installation makes of what it read.
Imported(fs, uid, name, body, game, lib) ==
    LET there == Listed(fs)
        own == UniqueName(name, {there[i].name : i \in DOMAIN there})
    IN  Profile(uid, UniqueTriggerProfileId(own, DOMAIN there), own, body, game, lib)

\* The list is renewed from the files; what they do not have is taken for a draft.
MergeTriggerProfiles(local, back, exclude) ==
    [i \in DOMAIN back \cup (DOMAIN local \ exclude) |->
        IF i \in DOMAIN back THEN back[i] ELSE local[i]]

Idle == [kind |-> "none", pc |-> "idle", profile |-> DefaultProfile, exclude |-> {}, prefer |-> <<>>,
         local |-> <<>>, selected |-> <<>>, back |-> <<>>]
Busy == \E c \in Callers : ops[c].pc # "idle"

Init ==
    /\ files \in {[i \in ids |-> Profile(0, i, i, "plain", TRUE, FALSE)] : ids \in {{}, {<<"a">>}}}
    /\ list = Listed(files) /\ draft = DefaultProfile
    /\ ops = [c \in Callers |-> Idle] /\ made = 0 /\ unsaved = {} /\ excused = {} /\ lost = {}

Make == made < MaxMade /\ made' = made + 1
Overlaps == excused' = IF Busy THEN excused \cup {"overlap"} ELSE excused

-----------------------------------------------------------------------------
(* What the renderer does by itself. *)

AddDraft(name, body, game, lib) ==
    LET id == Numbered(<<"draft">>, made + 1)
        p == Profile(made + 1, id, name, body, game, lib)
    IN  /\ id \notin DOMAIN files \cup DOMAIN list   \* it has the time and a random number
        /\ Make /\ Overlaps
        /\ list' = With(list, p) /\ draft' = p /\ unsaved' = unsaved \cup {id}
        /\ UNCHANGED <<files, ops, lost>>

CreateTriggerProfile == AddDraft(<<"New">>, "plain", FALSE, FALSE)
DuplicateTriggerProfile == AddDraft(Append(draft.name, "Copy"), draft.body, draft.game, draft.lib)

EditDraft(name) ==
    /\ draft' = [draft EXCEPT !.name = name, !.body = "edited"] /\ draft' # draft
    /\ UNCHANGED <<files, list, ops, made, unsaved, excused, lost>>

\* A profile is selected by hand, or the engine says it is active now: the editor shows
\* what drives the triggers.
LoadDraft(id) ==
    /\ id \in DOMAIN list /\ draft # list[id] /\ draft' = list[id]
    /\ UNCHANGED <<files, list, ops, made, unsaved, excused, lost>>

-----------------------------------------------------------------------------
(* Operations begin: what they send, prefer afterwards and leave out is settled here. *)

Begin(c, kind, pc, profile, prefer, exclude) ==
    /\ ops[c].pc = "idle" /\ Make /\ Overlaps
    /\ ops' = [ops EXCEPT ![c] = [Idle EXCEPT !.kind = kind, !.pc = pc, !.profile = profile,
                                              !.prefer = prefer, !.exclude = exclude,
                                              !.local = list, !.selected = draft.id]]
    /\ UNCHANGED <<files, list, draft, unsaved, lost>>

\* saveTriggerProfileDraft: the identifier comes from the list the renderer has.
SaveDraft(c) ==
    LET others == DOMAIN list \ {draft.id}
        id == IF Provisional(draft.id) THEN UniqueTriggerProfileId(draft.name, others) ELSE draft.id
    IN  Begin(c, "save", "call", [draft EXCEPT !.id = id], id,
              IF Provisional(draft.id) THEN {draft.id} ELSE {})

\* saveGameProcessNames writes the copy in the list.
SaveProcessNames(c, id) ==
    id \in DOMAIN list \ {DefaultId} /\ ~Provisional(id) /\ Begin(c, "save", "call", list[id], id, {})

ImportFromDisk(c, name) ==
    Begin(c, "import", "call", Profile(made + 1, <<>>, name, "library", FALSE, FALSE), <<>>, {})
InstallFromLibrary(c, name) ==
    Begin(c, "import", "fetch", Profile(made + 1, <<>>, name, "library", FALSE, TRUE), <<>>, {})
ResetToLibrary(c, id) ==
    /\ id \in DOMAIN list /\ list[id].lib
    /\ Begin(c, "reset", "fetch", [list[id] EXCEPT !.body = "library"], id, {})

\* A game keeps its profile, without effects and without its tie to the library.
DeleteProfile(c, id) ==
    /\ id \in DOMAIN list \ {DefaultId}
    /\ IF list[id].game
       THEN Begin(c, "save", "call", [list[id] EXCEPT !.body = "plain", !.lib = FALSE], id, {})
       ELSE Begin(c, "delete", "call", list[id], <<>>, {id})

DeleteGame(c, id, keep) ==
    /\ id \in DOMAIN list \ {DefaultId} /\ ~Provisional(id)
    /\ Begin(c, IF keep THEN "keep" ELSE "delete", "call", list[id], <<>>, IF keep THEN {} ELSE {id})

\* submitGameCreate: what the library has for the game is installed, else an empty profile is made.
CreateGame(c, name, match) ==
    LET p == Profile(made + 1, UniqueTriggerProfileId(name, DOMAIN list), name, "plain", TRUE, FALSE)
    IN  IF match THEN Begin(c, "game", "fetch", p, <<>>, {})
        ELSE Begin(c, "save", "call", p, p.id, {})

-----------------------------------------------------------------------------
(* The main process acts. *)

\* File id takes p, or is removed; `by` says who chose the identifier.
Stores(p, by) ==
    /\ files' = With(files, p)
    /\ lost' = IF p.id \in DOMAIN files /\ files[p.id].uid # p.uid THEN lost \cup {by} ELSE lost
    /\ excused' = excused \cup (IF p.id = Reserved THEN {"reserved"} ELSE {})
                          \cup (IF Provisional(p.id) THEN {"stray"} ELSE {})

Go(c, pc, p, prefer) == ops' = [ops EXCEPT ![c].pc = pc, ![c].profile = p, ![c].prefer = prefer]

\* bridge:saveTriggerProfile.
Save(c) ==
    /\ ops[c].kind = "save" /\ ops[c].pc = "call"
    /\ Stores(ops[c].profile, "renderer") /\ Go(c, "list", ops[c].profile, ops[c].prefer)
    /\ UNCHANGED <<list, draft, made, unsaved>>

\* bridge:deleteTriggerProfile and bridge:deleteGameProfile.
Delete(c) ==
    LET id == ops[c].profile.id
    IN  /\ ops[c].kind = "delete" /\ ops[c].pc = "call"
        /\ files' = Without(files, id)
        /\ lost' = IF id \in DOMAIN files /\ files[id].uid # ops[c].profile.uid
                   THEN lost \cup {"renderer"} ELSE lost
        /\ Go(c, "list", ops[c].profile, ops[c].prefer)
        /\ UNCHANGED <<list, draft, made, unsaved, excused>>

\* The trigger effects of a deleted game stay as a profile of their own; a profile that
\* is no game's is deleted all the same.
KeepEffects(c) ==
    LET id == ops[c].profile.id
    IN  /\ ops[c].kind = "keep" /\ ops[c].pc = "call"
        /\ files' = IF id \notin DOMAIN files THEN files
                    ELSE IF files[id].game THEN [files EXCEPT ![id].game = FALSE]
                    ELSE Without(files, id)
        /\ excused' = IF id \in DOMAIN files /\ ~files[id].game THEN excused \cup {"dropped"} ELSE excused
        /\ Go(c, "list", ops[c].profile, ops[c].prefer)
        /\ UNCHANGED <<list, draft, made, unsaved, lost>>

\* The download arrives.  A game that could not be installed gets an empty profile.
Fetched(c, arrives) ==
    /\ ops[c].pc = "fetch"
    /\ IF arrives THEN Go(c, "call", ops[c].profile, ops[c].prefer)
       ELSE IF ops[c].kind = "game"
       THEN ops' = [ops EXCEPT ![c].kind = "save", ![c].pc = "call", ![c].prefer = ops[c].profile.id]
       ELSE ops' = [ops EXCEPT ![c] = Idle]
    /\ UNCHANGED <<files, list, draft, made, unsaved, excused, lost>>

\* importProfile: identifier and name are chosen where the file is written.
Import(c) ==
    LET o == ops[c]
        p == Imported(files, o.profile.uid, o.profile.name, "library", o.kind = "game",
                      o.profile.lib \/ o.kind = "game")
    IN  /\ o.kind \in {"import", "game"} /\ o.pc = "call"
        /\ Stores(p, "main")
        /\ IF o.kind = "game" THEN \/ Go(c, "list", p, p.id)
                                   \/ ops' = [ops EXCEPT ![c].kind = "save", ![c].profile = p,
                                                         ![c].prefer = p.id]  \* its processes are added
           ELSE Go(c, "list", p, <<>>)
        /\ UNCHANGED <<list, draft, made, unsaved>>

\* resetToLibrary keeps identifier and name; a profile deleted meanwhile is refused.
Reset(c) ==
    LET id == ops[c].profile.id
    IN  /\ ops[c].kind = "reset" /\ ops[c].pc = "call"
        /\ IF id \in DOMAIN files
           THEN /\ Stores([files[id] EXCEPT !.body = "library", !.lib = TRUE], "main")
                /\ Go(c, "list", ops[c].profile, id)
           ELSE ops' = [ops EXCEPT ![c] = Idle] /\ UNCHANGED <<files, lost, excused>>
        /\ UNCHANGED <<list, draft, made, unsaved>>

\* bridge:listTriggerProfiles.
ReadList(c) ==
    /\ ops[c].pc = "list" /\ ops' = [ops EXCEPT ![c].pc = "merge", ![c].back = Listed(files)]
    /\ UNCHANGED <<files, list, draft, made, unsaved, excused, lost>>

\* refreshTriggerProfiles ends; what an import made is looked for by its name.
Refresh(c) ==
    LET o == ops[c]
        profiles == MergeTriggerProfiles(o.local, o.back, o.exclude)
        named == {i \in DOMAIN profiles : o.kind = "import" /\ profiles[i].name = o.profile.name}
        next == CASE named # {} -> named
                  [] o.prefer \in DOMAIN profiles -> {o.prefer}
                  [] o.selected \in DOMAIN profiles -> {o.selected}
                  [] OTHER -> {DefaultId}
    IN  /\ o.pc = "merge"
        /\ list' = profiles
        /\ \E id \in next : draft' = profiles[id]
        /\ unsaved' = unsaved \ o.exclude
        /\ ops' = [ops EXCEPT ![c] = Idle]
        /\ UNCHANGED <<files, made, excused, lost>>

-----------------------------------------------------------------------------
Begins(c) ==
    \/ SaveDraft(c)
    \/ \E id \in DOMAIN list : SaveProcessNames(c, id) \/ ResetToLibrary(c, id) \/ DeleteProfile(c, id)
    \/ \E id \in DOMAIN list, keep \in BOOLEAN : DeleteGame(c, id, keep)
    \/ \E name \in Offered : ImportFromDisk(c, name) \/ InstallFromLibrary(c, name)
    \/ \E name \in Typed, match \in BOOLEAN : CreateGame(c, name, match)

Continues(c) ==
    \/ Save(c) \/ Delete(c) \/ KeepEffects(c) \/ Import(c) \/ Reset(c) \/ ReadList(c) \/ Refresh(c)
    \/ \E arrives \in BOOLEAN : Fetched(c, arrives)

Next ==
    \/ CreateTriggerProfile \/ DuplicateTriggerProfile
    \/ \E name \in Typed : EditDraft(name)
    \/ \E id \in DOMAIN list : LoadDraft(id)
    \/ \E c \in Callers : Begins(c) \/ Continues(c)

Spec == Init /\ [][Next]_vars

-----------------------------------------------------------------------------
\* No profile is overwritten or removed by an operation on another one.  Only
\* an identifier the renderer chose, or a profile it meant to remove, may meet
\* a file that came while two operations overlapped; what the main process
\* chooses never does ("Always-copy import", trigger-profile-store.ts:118).
\* Excused: profiles called like the engine's state, which no list shows.
ProfilesKept ==
    "reserved" \notin excused => lost \subseteq (IF "overlap" \in excused THEN {"renderer"} ELSE {})

\* When no operation is under way, the renderer lists the profiles there are in
\* files and the drafts nobody saved or deleted, and edits one of them.  Excused:
\* operations that overlapped, whose older list may come last, "reserved", and a
\* draft of a game's profile that is deleted before it was ever saved ("stray"):
\* what is left of the game is saved under the draft's provisional identifier.
\* And "dropped": a profile that is no game's, removed with "keep the effects",
\* is deleted, and the renderer goes on listing it.
ListAgrees ==
    ~Busy /\ excused = {} =>
        /\ draft.id \in DOMAIN list
        /\ [i \in {j \in DOMAIN list : ~Provisional(j)} |-> list[i]] = Listed(files)
        /\ {j \in DOMAIN list : Provisional(j)} = unsaved

\* See both.
ProfilesHold == ProfilesKept /\ ListAgrees

=============================================================================
