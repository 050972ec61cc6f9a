----------------------------- MODULE ChordEditor -----------------------------
(* The page of the chords (App.tsx): functions, and assignments of a starter *)
(* and a button to a function.  The window keeps the draft of the selected   *)
(* function and rows of assignments that have no button yet; every edit is   *)
(* sent at once, as the two whole lists with the edit made in them.  The     *)
(* lists an edit is made in are those the window was shown last, and no edit *)
(* waits for the answer to the one before.                                   *)
EXTENDS Integers, Sequences, FiniteSets, SequencesExt, TLC

CONSTANTS
    Keys,           \* of keyboard shortcuts, with "Esc"
    Media,          \* media actions, with "play-pause"
    Plain,          \* settings that are not stepped, with "sleep-controller"
    Steps,          \* percentages a setting is stepped by
    Buttons,        \* in the order of the menu
    Names,          \* typed as the name of a function
    Saved,          \* the lists kept from before
    MaxFunctions,   \* 64 in the code
    MaxAssignments, \* 16 in the code
    MaxSteps        \* bound: what the user does, but for giving rows their buttons, and what
                    \* happens beside

VARIABLES
    chords,     \* the snapshot of the main process, see Snapshots
    page,       \* [screen, chosen, draft, rows, dialog, drag, typed, pending], typed: the step
                \* in a field that has the focus, 0 if none has
    posts,      \* requests in order: [kind, functions, assignments, at], at "window" or "queue"
    news,       \* messages on their way to the window: [kind, snapshot]
    want,       \* history: the two lists with every edit made
    slips,      \* history: why an edit may be lost, see ChordsAgree
    steps

vars == <<chords, page, posts, news, want, slips, steps>>

-----------------------------------------------------------------------------
(* Functions and the draft of one.                                           *)

Modifiers == {"Ctrl", "Shift", "Alt", "Win"}
MaxKeys == 4
DefaultStep == 10
Up == [speaker |-> "speaker-up", lighting |-> "lighting-up"]
Down == [speaker |-> "speaker-down", lighting |-> "lighting-down"]
Targets == DOMAIN Up

\* chordNotchTargetForAction
Stepped(action) == \E t \in Targets : action \in {Up[t], Down[t]}

\* chordControllerSettingActionFromSelectValue: the direction is kept.
SettingOf(value, current) ==
    IF value \in Targets
    THEN IF current = Down[value] THEN Down[value] ELSE Up[value]
    ELSE value

EmptyDraft ==
    [id |-> 0, name |-> "Task Manager", type |-> "keyboard", key |-> "Esc",
     modifiers |-> {"Ctrl", "Shift"}, media |-> "play-pause", setting |-> "sleep-controller",
     step |-> DefaultStep]

\* chordKeyboardParts
Parts(f) == IF f.type = "keyboard" THEN [key |-> f.key, modifiers |-> f.modifiers]
            ELSE [key |-> EmptyDraft.key, modifiers |-> EmptyDraft.modifiers]

\* chordFunctionToDraft: what the type has no use for is the default.
ToDraft(f) ==
    [EmptyDraft EXCEPT
        !.id = f.id, !.name = f.name, !.type = f.type,
        !.key = Parts(f).key, !.modifiers = Parts(f).modifiers,
        !.media = IF f.type = "media" THEN f.action ELSE @,
        !.setting = IF f.type = "controller-setting" THEN f.action ELSE @,
        !.step = IF f.type = "controller-setting" THEN f.step ELSE @]

\* chordFunctionFromDraft: the modifiers come first, and no more keys than there may be.
FromDraft(d) ==
    LET named == [id |-> d.id, name |-> d.name, type |-> d.type, key |-> "", modifiers |-> {},
                  action |-> "", step |-> 0]
    IN  CASE d.type = "keyboard" ->
            [named EXCEPT !.key = IF Cardinality(d.modifiers) < MaxKeys THEN d.key ELSE "Esc",
                          !.modifiers = d.modifiers]
          [] d.type = "media" -> [named EXCEPT !.action = d.media]
          [] OTHER -> [named EXCEPT !.action = d.setting, !.step = d.step]

\* chordFunctionsSignature: a step shows only where there is one.
Signature(functions) ==
    [i \in DOMAIN functions |->
        [functions[i] EXCEPT !.step = IF Stepped(functions[i].action) THEN @ ELSE 0]]

IdsOf(seq) == {seq[i].id : i \in DOMAIN seq}
Find(seq, id) == seq[CHOOSE i \in DOMAIN seq : seq[i].id = id]
Without(seq, id) == SelectSeq(seq, LAMBDA x : x.id # id)
Replaced(seq, id, x) == [i \in DOMAIN seq |-> IF seq[i].id = id THEN x ELSE seq[i]]

-----------------------------------------------------------------------------
(* Chords.                                                                   *)

Starters == <<"ps", "lfn", "mute">>
Reserved == {"triangle", "cross"}
EdgeOnly == {"lb"}

\* isChordBindingAllowed
Allowed(starter, button) == starter = "ps" \/ button \notin Reserved

StarterOptions(s) ==
    SelectSeq(Starters, LAMBDA x : CASE x = "mute" -> s.mute [] x = "ps" -> TRUE [] OTHER -> s.edge)

\* An inactive mute button remains to be seen where it was chosen.
StarterOptionsFor(s, starter) ==
    ToSet(StarterOptions(s)) \cup (IF starter = "mute" THEN {"mute"} ELSE {})

Assignable(s) == SelectSeq(Buttons, LAMBDA b : s.edge \/ b \notin EdgeOnly)
ButtonOptionsFor(s, starter) == SelectSeq(Assignable(s), LAMBDA b : Allowed(starter, b))

\* chordAssignmentConflictState
Key(a) == <<a.starter, a.button>>
ShortcutKeys(s) == IF s.sleep THEN {<<"ps", "triangle">>} ELSE {}

ConflictKeys(s) ==
    LET as == ToSet(s.assignments) IN
    {Key(a) : a \in {a \in as : \/ \E b \in as \ {a} : Key(b) = Key(a)
                                \/ Key(a) \in ShortcutKeys(s)
                                \/ a.starter = "mute" /\ ~s.mute}}

-----------------------------------------------------------------------------
(* The two lists.                                                            *)

Lists(s) == [functions |-> s.functions, assignments |-> s.assignments]

\* commitChordFunctionDraft
PutFunction(c, f) ==
    [c EXCEPT !.functions = IF f.id \in IdsOf(@) THEN Replaced(@, f.id, f) ELSE Append(@, f)]

\* deleteChordFunction
DropFunction(c, id) ==
    [functions |-> Without(c.functions, id),
     assignments |-> SelectSeq(c.assignments, LAMBDA a : a.functionId # id)]

\* commitChordAssignment
Full(c) == Len(c.assignments) >= MaxAssignments
PutAssignment(c, a) ==
    [c EXCEPT !.assignments =
        IF a.id \in IdsOf(@) THEN Replaced(@, a.id, a) ELSE IF Full(c) THEN @ ELSE Append(@, a)]

DropAssignment(c, id) == [c EXCEPT !.assignments = Without(@, id)]

\* reorderChordAssignment
MoveAssignment(c, source, target, after) ==
    LET rest == Without(c.assignments, source)
        at == (CHOOSE i \in DOMAIN rest : rest[i].id = target) + (IF after THEN 1 ELSE 0)
    IN  IF {source, target} \subseteq IdsOf(c.assignments) /\ source # target
        THEN [c EXCEPT !.assignments = InsertAt(rest, at, Find(c.assignments, source))] ELSE c

\* normalizeChordFunctions and normalizeChordAssignments, as the store keeps the lists.
FirstOf(seq, n) == SubSeq(seq, 1, IF Len(seq) < n THEN Len(seq) ELSE n)
Normalized(c) ==
    LET functions == FirstOf(c.functions, MaxFunctions) IN
    [functions |-> functions,
     assignments |-> FirstOf(SelectSeq(c.assignments, LAMBDA a :
        a.functionId \in IdsOf(functions) /\ Allowed(a.starter, a.button)), MaxAssignments)]

With(s, c) == [s EXCEPT !.functions = c.functions, !.assignments = c.assignments]

-----------------------------------------------------------------------------
(* The main process.                                                         *)

\* setChordConfiguration keeps the lists at once and asks the controller when its turn
\* comes; restoreDefaults asks first; getStatus is answered at once.
Arrive(i) ==
    LET post == posts[i] IN
    /\ post.at = "window" /\ \A j \in 1..(i - 1) : posts[j].at = "queue"
    /\ IF post.kind = "status"
       THEN /\ posts' = RemoveAt(posts, i)
            /\ news' = Append(news, [kind |-> "status", snapshot |-> chords])
            /\ UNCHANGED chords
       ELSE /\ chords' = IF post.kind = "set" THEN With(chords, Normalized(Lists(post))) ELSE chords
            /\ posts' = [posts EXCEPT ![i].at = "queue"]
            /\ UNCHANGED news
    /\ UNCHANGED <<page, want, slips, steps>>

\* The store's default settings, of what the page shows.
NoLists == [functions |-> <<>>, assignments |-> <<>>]
Defaults(s) == [With(s, NoLists) EXCEPT !.mute = FALSE, !.sleep = FALSE]

\* The controller acknowledges or is not reached; once it has acknowledged that the
\* defaults are restored the store restores them, too.
Answer ==
    LET restored == Head(posts).kind = "restore" IN
    /\ posts # <<>> /\ Head(posts).at = "queue" /\ posts' = Tail(posts)
    /\ \/ /\ chords' = IF restored THEN Defaults(chords) ELSE chords
          /\ want' = IF restored THEN NoLists ELSE want
          /\ news' = Append(news, [kind |-> Head(posts).kind, snapshot |-> chords'])
          /\ steps' = steps
       \/ /\ steps < MaxSteps /\ steps' = steps + 1
          /\ news' = Append(news, [kind |-> "refused", snapshot |-> chords])
          /\ UNCHANGED <<chords, want>>
    /\ UNCHANGED <<page, slips>>

\* Beside this page the mute button is made a starter or not, the controller is replaced by
\* an Edge, and a shortcut is switched on; each makes a snapshot be sent.
Elsewhere ==
    /\ steps < MaxSteps /\ steps' = steps + 1
    /\ \/ chords' = [chords EXCEPT !.mute = ~@]
       \/ chords' = [chords EXCEPT !.edge = ~@]
       \/ chords' = [chords EXCEPT !.sleep = ~@]
    /\ news' = Append(news, [kind |-> "push", snapshot |-> chords'])
    /\ UNCHANGED <<page, posts, want, slips>>

-----------------------------------------------------------------------------
(* The window.                                                               *)

NoFunction == FromDraft(EmptyDraft)

\* selectedChordFunction
Selected(p) ==
    IF p.chosen \in IdsOf(p.screen.functions) THEN Find(p.screen.functions, p.chosen)
    ELSE IF p.screen.functions # <<>> THEN p.screen.functions[1] ELSE NoFunction

\* Mutant: a row may keep a function that has been deleted.
NormalRowsMutant(p) == p.rows

\* Rows keep to what is offered: the first effect below may have emptied them.
NormalRows(p) ==
    LET NormalRow(row) ==
            [row EXCEPT
                !.starter = IF @ \in StarterOptionsFor(p.screen, @) THEN @ ELSE "ps",
                !.functionId = IF @ \in IdsOf(p.screen.functions) THEN @ ELSE Selected(p).id]
    IN  [i \in DOMAIN p.rows |-> NormalRow(p.rows[i])]

\* setSnapshot and the effects that follow: where the functions differ the selection is
\* found again and the draft made anew.
Shown(p, s) ==
    LET next == [p EXCEPT !.screen = s]
        chosen == IF Signature(s.functions) = Signature(p.screen.functions) THEN next
                  ELSE IF s.functions = <<>>
                  THEN [next EXCEPT !.chosen = 0, !.draft = EmptyDraft, !.rows = <<>>]
                  ELSE [next EXCEPT !.chosen = Selected(next).id, !.draft = ToDraft(Selected(next))]
    IN  [chosen EXCEPT !.rows = NormalRows(chosen)]

\* runQuietAction and, to restore the defaults, runAction: an error makes the window ask
\* for the status.
Receive ==
    LET m == Head(news) IN
    /\ news # <<>> /\ news' = Tail(news)
    /\ IF m.kind = "refused"
       THEN posts' = Append(posts, [kind |-> "status", at |-> "window"]) /\ UNCHANGED page
       ELSE /\ page' = [Shown(page, m.snapshot) EXCEPT !.pending = @ /\ m.kind = "push"]
            /\ UNCHANGED posts
    /\ UNCHANGED <<chords, want, slips, steps>>

-----------------------------------------------------------------------------
(* What the user does.                                                       *)

Unset == [unset |-> TRUE]

\* One thing at a time, and nothing while an action is under way.
Idle ==
    /\ ~page.pending /\ page.dialog = Unset /\ page.drag = Unset /\ page.typed = 0
    /\ UNCHANGED <<chords, news>>

Act == steps < MaxSteps /\ steps' = steps + 1 /\ Idle

Settled(base) ==
    /\ posts = <<>> /\ \A i \in DOMAIN news : news[i].kind = "push"
    /\ base = Lists(page.screen)

Early(base) == IF Settled(base) THEN {} ELSE {"overlap"}

\* commitChordConfiguration: an edit is made in the lists base, the window is p by then.
CommitIn(base, p, Edit(_)) ==
    LET lists == Edit(base) IN
    /\ page' = p
    /\ posts' = Append(posts, [kind |-> "set", functions |-> lists.functions,
                               assignments |-> lists.assignments, at |-> "window"])
    /\ want' = Edit(want)
    /\ slips' = slips \cup Early(base)

Commit(p, Edit(_)) == CommitIn(Lists(page.screen), p, Edit)
Keep(p) == page' = p /\ UNCHANGED <<posts, want, slips>>

Editing(draft) == [page EXCEPT !.draft = draft, !.chosen = draft.id]

CommitChordFunctionDraft(draft) ==
    LET f == FromDraft(draft) IN Commit(Editing(draft), LAMBDA c : PutFunction(c, f))

SelectFunction ==
    /\ Act
    /\ \E i \in DOMAIN page.screen.functions :
          LET f == page.screen.functions[i] IN Keep(Editing(ToDraft(f)))

\* A function beyond the limit is dropped by the store.
CreateChordFunction ==
    LET draft == [EmptyDraft EXCEPT !.id = 10 + steps, !.name = "Function"]
        f == FromDraft(draft) IN
    /\ Act
    /\ page' = Editing(draft)
    /\ posts' = Append(posts, [kind |-> "set", functions |-> Append(page.screen.functions, f),
                               assignments |-> page.screen.assignments, at |-> "window"])
    /\ want' = PutFunction(want, f)
    /\ slips' = slips \cup Early(Lists(page.screen))
          \cup (IF Len(page.screen.functions) >= MaxFunctions THEN {"full"} ELSE {})

\* setChordFunctionKeyboardKey and toggleChordFunctionKeyboardModifier
KeyboardEdits(d) ==
    {[d EXCEPT !.key = key] : key \in Keys} \cup
    {[d EXCEPT !.modifiers = @ \ {m}] : m \in d.modifiers} \cup
    {[d EXCEPT !.modifiers = @ \cup {m}] :
        m \in {m \in Modifiers : Cardinality(d.modifiers) < MaxKeys - 1}}

\* The menu of settings and the buttons for the direction, setChordFunctionControllerAction.
SettingEdits(d) ==
    {[d EXCEPT !.setting = SettingOf(value, @)] : value \in Plain \cup Targets} \cup
    {[d EXCEPT !.setting = direction[t]] :
        direction \in {Up, Down}, t \in {t \in Targets : d.setting \in {Up[t], Down[t]}}}

\* The menus of types and of media actions, too.
EditedDrafts(d) ==
    {[d EXCEPT !.type = type] : type \in {"keyboard", "media", "controller-setting"}} \cup
    CASE d.type = "keyboard" -> KeyboardEdits(d)
      [] d.type = "media" -> {[d EXCEPT !.media = action] : action \in Media}
      [] OTHER -> SettingEdits(d)

EditChordFunction ==
    /\ Act /\ page.screen.functions # <<>>
    /\ \E draft \in EditedDrafts(page.draft) : CommitChordFunctionDraft(draft)

\* A step is typed into the draft and sent when the field is left, before anything else,
\* unless the field has gone.
TypeStep ==
    /\ Act /\ Stepped(Selected(page).action)
    /\ \E step \in Steps : page' = [page EXCEPT !.draft.step = step, !.typed = step]
    /\ slips' = slips \cup Early(Lists(page.screen))
    /\ UNCHANGED <<posts, want>>

LeaveStep ==
    LET step == IF page.draft.id = Selected(page).id THEN page.draft.step
                ELSE Selected(page).step IN
    /\ page.typed # 0
    /\ IF ~Stepped(Selected(page).action) THEN Keep([page EXCEPT !.typed = 0])
       ELSE LET draft == [page.draft EXCEPT !.step = step]
                f == FromDraft(draft)
            IN  Commit([Editing(draft) EXCEPT !.typed = 0], LAMBDA c : PutFunction(c, f))
    /\ UNCHANGED <<chords, news, steps>>

OpenChordFunctionDialog ==
    /\ Act /\ page.screen.functions # <<>>
    /\ \E mode \in {"rename", "delete"} :
          Keep([page EXCEPT !.dialog = [mode |-> mode, id |-> Selected(page).id]])

\* deleteChordFunction selects the first that is left.
DeleteChordFunction(p, id) ==
    LET rest == Without(page.screen.functions, id) IN
    Commit([p EXCEPT !.chosen = IF rest = <<>> THEN 0 ELSE rest[1].id,
                     !.draft = IF rest = <<>> THEN EmptyDraft ELSE ToDraft(rest[1]),
                     !.rows = SelectSeq(@, LAMBDA row : row.functionId # id)],
           LAMBDA c : DropFunction(c, id))

SubmitChordFunctionDialog ==
    LET closed == [page EXCEPT !.dialog = Unset]
        id == page.dialog.id IN
    /\ page.dialog # Unset /\ ~page.pending
    /\ IF id \notin IdsOf(page.screen.functions) THEN Keep(closed)
       ELSE IF page.dialog.mode = "delete" THEN DeleteChordFunction(closed, id)
       ELSE \E name \in Names :
               LET f == [Find(page.screen.functions, id) EXCEPT !.name = name] IN
               IF f.name = Find(page.screen.functions, id).name THEN Keep(closed)
               ELSE Commit([closed EXCEPT !.chosen = id, !.draft = ToDraft(f)],
                           LAMBDA c : PutFunction(c, f))
    /\ UNCHANGED <<chords, news, steps>>

CloseChordFunctionDialog ==
    /\ page.dialog # Unset /\ Keep([page EXCEPT !.dialog = Unset])
    /\ UNCHANGED <<chords, news, steps>>

\* canAddChordDraft
AddChordAssignmentDraft ==
    /\ Act /\ page.screen.functions # <<>>
    /\ Len(page.screen.assignments) + Len(page.rows) < MaxAssignments
    /\ page' = [page EXCEPT !.rows = Append(@, [id |-> steps, starter |-> "ps",
                                                functionId |-> Selected(page).id])]
    /\ slips' = slips \cup Early(Lists(page.screen))
    /\ UNCHANGED <<posts, want>>

\* updateChordAssignmentDraftStarter, -Function and deleteChordAssignmentDraft.
EditChordAssignmentDraft ==
    /\ Act
    /\ \E i \in DOMAIN page.rows :
          \/ \E starter \in StarterOptionsFor(page.screen, page.rows[i].starter) :
                Keep([page EXCEPT !.rows[i].starter = starter])
          \/ \E id \in IdsOf(page.screen.functions) : Keep([page EXCEPT !.rows[i].functionId = id])
          \/ Keep([page EXCEPT !.rows = RemoveAt(@, i)])

\* commitChordAssignmentDraft: the row goes even where there is no room.
CommitChordAssignmentDraft ==
    /\ Idle /\ UNCHANGED steps
    /\ \E i \in DOMAIN page.rows :
          \E b \in ToSet(ButtonOptionsFor(page.screen, page.rows[i].starter)) :
             LET a == [id |-> 10 + page.rows[i].id, starter |-> page.rows[i].starter,
                       button |-> b, functionId |-> page.rows[i].functionId]
                 p == [page EXCEPT !.rows = RemoveAt(@, i)]
             IN  IF Full(page.screen)
                 THEN page' = p /\ slips' = slips \cup {"vanished"} /\ UNCHANGED <<posts, want>>
                 ELSE Commit(p, LAMBDA c : PutAssignment(c, a))

\* updateChordAssignmentStarter takes the first button allowed where the present is not.
Rebound(s, a, starter) ==
    [a EXCEPT !.starter = starter,
              !.button = IF Allowed(starter, @) THEN @ ELSE Head(ButtonOptionsFor(s, starter))]

\* The same, updateChordAssignmentButton and setChordAssignmentFunction.
UpdateChordAssignment ==
    LET s == page.screen IN
    /\ Act
    /\ \E i \in DOMAIN s.assignments :
          LET a == s.assignments[i] IN
          \E next \in {Rebound(s, a, starter) : starter \in StarterOptionsFor(s, a.starter)}
                 \cup {[a EXCEPT !.button = b] : b \in ToSet(ButtonOptionsFor(s, a.starter))}
                 \cup {[a EXCEPT !.functionId = id] : id \in IdsOf(s.functions)} :
             next # a /\ Commit(page, LAMBDA c : PutAssignment(c, next))

DeleteChordAssignment ==
    /\ Act
    /\ \E id \in IdsOf(page.screen.assignments) : Commit(page, LAMBDA c : DropAssignment(c, id))

\* startChordAssignmentPointerDrag: the handlers keep the lists of that moment.
StartChordAssignmentDrag ==
    /\ Act
    /\ \E id \in IdsOf(page.screen.assignments) :
          Keep([page EXCEPT !.drag = [id |-> id, lists |-> Lists(page.screen)]])

\* updateChordAssignmentDropTarget: before or after a row that is there now.
DropTargets == (IdsOf(page.screen.assignments) \ {page.drag.id}) \X BOOLEAN

\* finishChordAssignmentPointerDrag: dropped or cancelled.
FinishChordAssignmentDrag ==
    LET dropped == [page EXCEPT !.drag = Unset] IN
    /\ page.drag # Unset
    /\ \/ Keep(dropped)
       \/ \E t \in DropTargets :
             IF {page.drag.id, t[1]} \subseteq IdsOf(page.drag.lists.assignments)
             THEN CommitIn(page.drag.lists, dropped,
                           LAMBDA c : MoveAssignment(c, page.drag.id, t[1], t[2]))
             ELSE Keep(dropped)
    /\ UNCHANGED <<chords, news, steps>>

\* On another page: until the answer no other action is possible.
RestoreDefaults ==
    /\ Act
    /\ posts' = Append(posts, [kind |-> "restore", at |-> "window"])
    /\ page' = [page EXCEPT !.pending = TRUE]
    /\ UNCHANGED <<want, slips>>

-----------------------------------------------------------------------------
Init ==
    /\ \E lists \in Saved, mute, edge \in BOOLEAN :
          /\ chords = [functions |-> lists.functions, assignments |-> lists.assignments,
                       mute |-> mute, edge |-> edge, sleep |-> FALSE]
          /\ want = lists
          /\ LET empty == [screen |-> [chords EXCEPT !.functions = <<>>], chosen |-> 0,
                           draft |-> EmptyDraft, rows |-> <<>>, dialog |-> Unset,
                           drag |-> Unset, typed |-> 0, pending |-> FALSE]
             IN  page = Shown(empty, chords)
    /\ posts = <<>> /\ news = <<>> /\ slips = {} /\ steps = 0

Next ==
    \/ \E i \in 1..Len(posts) : Arrive(i)
    \/ Answer \/ Elsewhere \/ Receive
    \/ SelectFunction \/ CreateChordFunction \/ EditChordFunction \/ TypeStep \/ LeaveStep
    \/ OpenChordFunctionDialog \/ SubmitChordFunctionDialog \/ CloseChordFunctionDialog
    \/ AddChordAssignmentDraft \/ EditChordAssignmentDraft \/ CommitChordAssignmentDraft
    \/ UpdateChordAssignment \/ DeleteChordAssignment
    \/ StartChordAssignmentDrag \/ FinishChordAssignmentDrag \/ RestoreDefaults

-----------------------------------------------------------------------------
\* An assignment its chord does not run: another comes before it, a shortcut takes the
\* chord, or the mute button starts none.
Dead(s, i) ==
    LET a == s.assignments[i] IN
    \/ \E j \in 1..(i - 1) : Key(s.assignments[j]) = Key(a)
    \/ s.sleep /\ Key(a) = <<"ps", "triangle">>
    \/ a.starter = "mute" /\ ~s.mute

\* Whatever is under way, a row has a function and a starter that are offered, and an
\* assignment that cannot run is marked; a step stays as it is typed.  Once everything has
\* arrived the window shows what the main process keeps, that is the lists with every edit
\* made in them, and the draft is that of the function shown beside it.  Excused are an edit
\* made, typed or begun before the last one was answered ("overlap") and a function beyond
\* the limit ("full"): the draft may be that of a function that never was, and a row may
\* vanish without an assignment.
ChordsAgree ==
    LET s == page.screen IN
    /\ \A i \in DOMAIN page.rows :
          /\ page.rows[i].functionId \in IdsOf(s.functions)
          /\ page.rows[i].starter \in StarterOptionsFor(s, page.rows[i].starter)
    /\ \A i \in DOMAIN s.assignments : Dead(s, i) => Key(s.assignments[i]) \in ConflictKeys(s)
    /\ page.typed \notin {0, page.draft.step} => slips \cap {"overlap", "full"} # {}
    /\ "vanished" \in slips => "overlap" \in slips
    /\ posts = <<>> /\ news = <<>> =>
          /\ s = chords
          /\ slips \cap {"overlap", "full"} = {} =>
                /\ Lists(chords) = want
                /\ page.typed # 0 \/ s.functions = <<>> \/ page.draft = ToDraft(Selected(page))
=============================================================================
