------------------------- MODULE TriggerProfileEditor -------------------------
(* The draft of a trigger profile in the renderer (App.tsx and               *)
(* StickWheelEditor.tsx): its states, the rules, wheel and default that name *)
(* them, and the normalisation and validation a save passes through.         *)
(*                                                                           *)
(* A name is the sequence of its words, " " a blank at either end.  "Long"   *)
(* is a word as long as a name may be.  What a state feels like is a pair of *)
(* values, one per trigger.  A profile without switching is one without      *)
(* rules, default, menu button and wheel.                                    *)
EXTENDS Integers, Sequences, FiniteSets, SequencesExt, TLC

CONSTANTS
    Drafts,      \* the profiles that may be opened
    Typed,       \* names a user types
    Buttons,     \* controller buttons
    Feels,       \* values of a trigger
    Widths,      \* widths asked for, in degrees
    MaxStates, MaxRules, MaxSectors,
    MaxEdits     \* bound: edits of a draft

VARIABLES
    draft,    \* triggerProfileDraft: [name, triggers, states, rules, default, menu, wheel]
    editing,  \* triggerProfileEditingState, from 1
    linked,   \* triggerProfilesLinked
    capture,  \* ruleCapture: a rule's number, "new" as 0, none as -1
    edits

vars == <<draft, editing, linked, capture, edits>>

NoName == <<"none">>    \* a name or button that is absent
NoWheel == [button |-> "none", sectors |-> <<>>, spans |-> <<>>]
MinSpan == 10

Names(d) == {d.states[i].name : i \in DOMAIN d.states}
IndexOf(d, name) == SelectInSeq(d.states, LAMBDA s : s.name = name)
AtLeast(a, b) == IF a >= b THEN a ELSE b
AtMost(a, b) == IF a <= b THEN a ELSE b
Swap(s, i, j) == [s EXCEPT ![i] = s[j], ![j] = s[i]]

-----------------------------------------------------------------------------
(* Normalisation and validation. *)

Trim(name) ==
    LET a == IF name # <<>> /\ Head(name) = " " THEN Tail(name) ELSE name
    IN  IF a # <<>> /\ Last(a) = " " THEN Front(a) ELSE a
TooLong(name) == name # <<>> /\ Head(name) = "Long" /\ Len(name) > 1
Cut(name) == IF TooLong(name) THEN <<"Long">> ELSE name

Numbered(base, n) == (IF base = <<>> THEN <<" ">> ELSE base) \o <<ToString(n)>>
UniqueStateName(base, taken) ==
    IF base \notin taken THEN base
    ELSE Numbered(base, CHOOSE n \in 2..Cardinality(taken) + 2 :
                            /\ Numbered(base, n) \notin taken
                            /\ \A k \in 2..n - 1 : Numbered(base, k) \in taken)

NormalNames(d) ==
    LET Fallback(i) == LET t == Cut(Trim(d.states[i].name))
                       IN  IF t = <<>> THEN <<"State", ToString(i)>> ELSE t
        upTo[i \in 0..Len(d.states)] ==
            IF i = 0 THEN <<>>
            ELSE Append(upTo[i - 1], UniqueStateName(Fallback(i), Range(upTo[i - 1])))
    IN  upTo[Len(d.states)]

\* Of two states that had the same name, the later one takes the references along.
Renamed(d, names, name) ==
    LET of == {i \in DOMAIN names : d.states[i].name = name /\ names[i] # name}
    IN  IF of = {} THEN name ELSE names[CHOOSE i \in of : \A j \in of : j <= i]

\* The wheel's sectors keep the names they had.
SanitizeDraftStates(d) ==
    IF d.states = <<>> THEN [d EXCEPT !.rules = <<>>, !.default = NoName, !.menu = "none", !.wheel = NoWheel]
    ELSE LET names == NormalNames(d)
             To(name) == Renamed(d, names, name)
             Rule(r) == IF r.target = NoName THEN r ELSE [r EXCEPT !.target = To(@)]
         IN  [d EXCEPT !.states = [i \in DOMAIN names |-> [@[i] EXCEPT !.name = names[i]]],
                       !.triggers = d.states[1].feel,
                       !.rules = SelectSeq([i \in DOMAIN @ |-> Rule(@[i])],
                                           LAMBDA r : r.target \in Range(names) \cup {NoName}),
                       !.default = IF To(@) \in Range(names) THEN To(@) ELSE NoName]

ValidSpans(wheel) ==
    \/ wheel.spans = <<>>
    \/ /\ Len(wheel.spans) = Len(wheel.sectors)
       /\ \A i \in DOMAIN wheel.spans : wheel.spans[i] >= MinSpan
       /\ FoldLeft(+, 0, wheel.spans) = 360

ValidStickWheel(d) ==
    \/ d.wheel = NoWheel
    \/ /\ Len(d.wheel.sectors) \in 2..MaxSectors
       /\ Range(d.wheel.sectors) \subseteq Names(d) \cup {NoName}
       /\ ValidSpans(d.wheel)

ValidStates(d) ==
    /\ Len(d.states) <= MaxStates /\ Cardinality(Names(d)) = Len(d.states)
    /\ \A name \in Names(d) : name # <<>> /\ ~TooLong(name)

ValidSwitching(d) ==
    /\ d.default \in Names(d) \cup {NoName}
    /\ Len(d.rules) <= MaxRules
    /\ \A i \in DOMAIN d.rules : d.rules[i].target \in Names(d) \cup {NoName}
    /\ ValidStickWheel(d)
    /\ d.wheel = NoWheel \/ d.wheel.button # d.menu

ValidTriggerProfile(d) == d.name # <<>> /\ ValidStates(d) /\ ValidSwitching(d)

-----------------------------------------------------------------------------
Edit == edits < MaxEdits /\ edits' = edits + 1
HasStates == draft.states # <<>>
\* The section for switching is there with two states or more.
Switches == Len(draft.states) > 1

Init ==
    /\ draft \in Drafts /\ editing = 1 /\ linked = FALSE /\ capture = -1 /\ edits = 0

(* States. *)

SelectState(i) ==
    /\ i \in DOMAIN draft.states /\ i # editing /\ editing' = i
    /\ UNCHANGED <<draft, linked, capture, edits>>

\* The first state added makes a state of what the profile felt like without.
AddState ==
    LET seeded == IF HasStates THEN draft.states
                  ELSE <<[name |-> <<"Default">>, feel |-> draft.triggers]>>
        name == UniqueStateName(<<"State", ToString(Len(seeded) + 1)>>,
                                {seeded[i].name : i \in DOMAIN seeded})
    IN  /\ Len(draft.states) < MaxStates /\ Edit
        /\ draft' = [draft EXCEPT !.states = Append(seeded, [name |-> name, feel |-> <<0, 0>>]),
                                  !.triggers = seeded[1].feel]
        /\ editing' = Len(seeded) + 1
        /\ UNCHANGED <<linked, capture>>

RenameState(name) ==
    LET previous == draft.states[editing].name
        To(n) == IF n = previous THEN name ELSE n
    IN  /\ editing \in DOMAIN draft.states /\ name # previous /\ Edit
        /\ draft' = [draft EXCEPT !.states[editing].name = name,
                                  !.rules = [i \in DOMAIN @ |-> [@[i] EXCEPT !.target = To(@)]],
                                  !.wheel.sectors = [i \in DOMAIN @ |-> To(@[i])],
                                  !.default = To(@)]
        /\ UNCHANGED <<editing, linked, capture>>

DuplicateState ==
    LET source == draft.states[editing]
        copy == [source EXCEPT !.name = UniqueStateName(@, Names(draft))]
        next == InsertAt(draft.states, editing + 1, copy)
    IN  /\ editing \in DOMAIN draft.states /\ Len(draft.states) < MaxStates /\ Edit
        /\ draft' = [draft EXCEPT !.states = next, !.triggers = next[1].feel]
        /\ editing' = editing + 1
        /\ UNCHANGED <<linked, capture>>

\* One state that is left is no state.
RemoveState ==
    LET removed == draft.states[editing].name
        states == RemoveAt(draft.states, editing)
        Keep(n) == IF n = removed THEN NoName ELSE n
    IN  /\ editing \in DOMAIN draft.states /\ Edit
        /\ draft' = IF Len(states) <= 1
                    THEN [draft EXCEPT !.states = <<>>, !.rules = <<>>, !.default = NoName,
                                       !.menu = "none", !.wheel = NoWheel,
                                       !.triggers = Head(states \o draft.states).feel]
                    ELSE [draft EXCEPT !.states = states, !.triggers = states[1].feel,
                                       !.rules = SelectSeq(@, LAMBDA r : r.target # removed),
                                       !.wheel.sectors = [i \in DOMAIN @ |-> Keep(@[i])],
                                       !.default = Keep(@)]
        /\ editing' = 1
        /\ UNCHANGED <<linked, capture>>

\* The two states change places in the list and their sectors on the wheel.
MoveState(to) ==
    LET states == Swap(draft.states, editing, to)
        sectors == draft.wheel.sectors
        at == SelectInSeq(sectors, LAMBDA n : n = states[to].name)
    IN  /\ {editing, to} \subseteq DOMAIN draft.states /\ editing # to /\ Edit
        /\ draft' = [draft EXCEPT !.states = states, !.triggers = states[1].feel,
                                  !.wheel.sectors = IF at # 0 /\ to \in DOMAIN sectors
                                                    THEN Swap(sectors, at, to) ELSE sectors]
        /\ editing' = to
        /\ UNCHANGED <<linked, capture>>

-----------------------------------------------------------------------------
(* Rules, default and menu button. *)

StartCapture(which) ==
    /\ Switches /\ which \in 0..Len(draft.rules) /\ capture # which
    /\ which = 0 => Len(draft.rules) < MaxRules
    /\ capture' = which
    /\ UNCHANGED <<draft, editing, linked, edits>>

\* A press while a rule listens; another button that is down makes it a chord.
Captured(button, chord) ==
    LET rule == [button |-> button, with |-> chord, target |-> NoName]
    IN  /\ capture # -1 /\ capture' = -1 /\ Edit
        /\ draft' = CASE ~HasStates -> draft
                      [] capture = 0 -> [draft EXCEPT !.rules = Append(@, rule)]
                      [] OTHER -> [draft EXCEPT !.rules =
                             [i \in DOMAIN @ |-> IF i = capture THEN [rule EXCEPT !.target = draft.rules[i].target]
                                                 ELSE @[i]]]
        /\ UNCHANGED <<editing, linked>>

UpdateSwitchRule(i, target) ==
    /\ Switches /\ i \in DOMAIN draft.rules /\ target # draft.rules[i].target /\ Edit
    /\ draft' = [draft EXCEPT !.rules[i].target = target]
    /\ UNCHANGED <<editing, linked, capture>>

RemoveRule(i) ==
    /\ Switches /\ i \in DOMAIN draft.rules /\ Edit
    /\ draft' = [draft EXCEPT !.rules = RemoveAt(@, i)]
    /\ capture' = IF capture = i THEN -1 ELSE capture
    /\ UNCHANGED <<editing, linked>>

SetDefaultState(name) ==
    /\ Switches /\ name # draft.default /\ Edit /\ draft' = [draft EXCEPT !.default = name]
    /\ UNCHANGED <<editing, linked, capture>>

SetMenuButton(button) ==
    /\ Switches /\ button # draft.menu /\ Edit /\ draft' = [draft EXCEPT !.menu = button]
    /\ UNCHANGED <<editing, linked, capture>>

-----------------------------------------------------------------------------
(* The wheel. *)

ToggleWheel ==
    /\ Switches /\ Edit
    /\ draft' = [draft EXCEPT !.wheel =
           IF @ # NoWheel THEN NoWheel
           ELSE [button |-> "triangle", spans |-> <<>>,
                 sectors |-> [i \in DOMAIN draft.states |-> draft.states[i].name]]]
    /\ UNCHANGED <<editing, linked, capture>>

\* A state that comes to a sector takes the place of that number in the list.
Placed(states, before, sectors, s) ==
    LET from == SelectInSeq(states, LAMBDA x : x.name = sectors[s])
    IN  IF \/ sectors[s] = NoName \/ from = 0
           \/ s \in DOMAIN before /\ before[s] = sectors[s]
        THEN states ELSE Swap(states, from, AtMost(s, Len(states)))
Places(states, before, sectors) ==
    FoldLeftDomain(LAMBDA list, s : Placed(list, before, sectors, s), states, sectors)

\* React runs the update at once or with the next rendering; only the first
\* tells the editor which state to follow.
UpdateStickWheelSynced(next, atOnce) ==
    LET states == Places(draft.states, draft.wheel.sectors, next.sectors)
        follow == SelectInSeq(states, LAMBDA s : editing \in DOMAIN draft.states
                                                 /\ s.name = draft.states[editing].name)
    IN  /\ Switches /\ draft.wheel # NoWheel /\ Edit
        /\ draft' = [draft EXCEPT !.states = states, !.triggers = states[1].feel, !.wheel = next]
        /\ editing' = IF atOnce /\ follow # 0 THEN follow ELSE editing
        /\ UNCHANGED <<linked, capture>>

WithSectorCount(wheel, n) ==
    [wheel EXCEPT !.sectors = [i \in 1..n |-> IF i \in DOMAIN wheel.sectors THEN wheel.sectors[i] ELSE NoName],
                  !.spans = <<>>]

\* The sector selected may be one that the profile opened since does not have.
WithSector(wheel, sector, name) ==
    [wheel EXCEPT !.sectors = [i \in DOMAIN @ |-> IF i = sector THEN name ELSE @[i]]]

Rounded(a, b) == (2 * a + b) \div (2 * b)

\* What rounding and the minimum left over goes to the other sectors, a degree to each in
\* turn: as many whole rounds as all can take part in, then the first few once more.
RECURSIVE Settled(_, _, _)
Settled(spans, index, drift) ==
    IF drift = 0 THEN spans
    ELSE LET may == {i \in DOMAIN spans : i # index /\ (drift < 0 => spans[i] > MinSpan)}
             one == IF drift > 0 THEN 1 ELSE -1
             rounds == (drift * one) \div Cardinality(may)
             whole == IF drift > 0 THEN rounds
                      ELSE Min({rounds} \cup {spans[i] - MinSpan : i \in may})
             first == {i \in may : Cardinality({j \in may : j < i}) < drift * one}
             now == IF whole > 0 THEN may ELSE first
             each == one * AtLeast(1, whole)
         IN  Settled([i \in DOMAIN spans |-> spans[i] + (IF i \in now THEN each ELSE 0)], index,
                     drift - each * Cardinality(now))

ResizeWheelSector(spans, index, requested) ==
    LET n == Len(spans)
        target == AtLeast(MinSpan, AtMost(360 - (n - 1) * MinSpan, requested))
        others == IF index \in DOMAIN spans THEN 360 - spans[index] ELSE 0
        Scaled(i) == IF others > 0 THEN Rounded(spans[i] * (360 - target), others)
                     ELSE Rounded(360 - target, n - 1)
        next == [i \in 1..n |-> IF i = index THEN target ELSE AtLeast(MinSpan, Scaled(i))]
    IN  Settled(next, index, 360 - FoldLeft(+, 0, next))

WithSpan(wheel, sector, width) ==
    LET n == Len(wheel.sectors)
        spans == IF wheel.spans = <<>> THEN [i \in 1..n |-> Rounded(360, n)] ELSE wheel.spans
    IN  [wheel EXCEPT !.spans = ResizeWheelSector(spans, sector, width)]

WheelEdits(wheel) ==
    {WithSectorCount(wheel, n) : n \in 2..MaxSectors}
    \cup {WithSector(wheel, s, name) : s \in 1..MaxSectors, name \in Names(draft) \cup {NoName}}
    \cup {WithSpan(wheel, s, w) : s \in 1..MaxSectors, w \in Widths}
    \cup {[wheel EXCEPT !.button = b] : b \in Buttons}

-----------------------------------------------------------------------------
(* What the triggers feel like, name, save. *)

EditingStateTriggers ==
    IF HasStates THEN draft.states[AtMost(editing, Len(draft.states))].feel ELSE draft.triggers

\* The editor writes to the state it shows; the first one is the profile's own as well.
WithTriggers(feel) ==
    IF ~HasStates THEN [draft EXCEPT !.triggers = feel]
    ELSE LET i == AtMost(editing, Len(draft.states))
         IN  [draft EXCEPT !.states[i].feel = feel, !.triggers = IF i = 1 THEN feel ELSE @]

UpdateSlot(slot, value) ==
    /\ value # EditingStateTriggers[slot] /\ Edit
    /\ draft' = WithTriggers(IF linked THEN <<value, value>> ELSE [EditingStateTriggers EXCEPT ![slot] = value])
    /\ UNCHANGED <<editing, linked, capture>>

ToggleLinked(slot) ==
    LET value == EditingStateTriggers[slot]
    IN  /\ Edit /\ linked' = ~linked
        /\ draft' = IF linked THEN draft ELSE WithTriggers(<<value, value>>)
        /\ UNCHANGED <<editing, capture>>

SetName(name) ==
    /\ name # draft.name /\ Edit /\ draft' = [draft EXCEPT !.name = name]
    /\ UNCHANGED <<editing, linked, capture>>

\* A refused save throws and leaves the draft; a saved one is loaded again.
SaveDraft ==
    /\ ValidTriggerProfile(SanitizeDraftStates(draft)) /\ Edit
    /\ draft' = SanitizeDraftStates(draft) /\ editing' = 1
    /\ UNCHANGED <<linked, capture>>

\* Another profile is selected; a rule that listens goes on listening.
LoadDraft(d) ==
    /\ d # draft /\ Edit /\ draft' = d /\ editing' = 1
    /\ UNCHANGED <<linked, capture>>

Next ==
    \/ \E i \in 1..MaxStates : SelectState(i) \/ MoveState(i)
    \/ AddState \/ DuplicateState \/ RemoveState \/ SaveDraft \/ ToggleWheel
    \/ \E name \in Typed : RenameState(name) \/ SetName(name)
    \/ \E which \in 0..MaxRules : StartCapture(which)
    \/ \E b \in Buttons, c \in Buttons \cup {"none"} : c # b /\ Captured(b, c)
    \/ \E i \in 1..MaxRules, n \in Names(draft) \cup {NoName} : UpdateSwitchRule(i, n)
    \/ \E i \in 1..MaxRules : RemoveRule(i)
    \/ \E n \in Names(draft) : SetDefaultState(n)
    \/ \E b \in Buttons \cup {"none"} : SetMenuButton(b)
    \/ draft.wheel # NoWheel /\ \E w \in WheelEdits(draft.wheel), atOnce \in BOOLEAN : UpdateStickWheelSynced(w, atOnce)
    \/ \E s \in 1..2, v \in Feels : UpdateSlot(s, v)
    \/ \E s \in 1..2 : ToggleLinked(s)
    \/ \E d \in Drafts : LoadDraft(d)

Spec == Init /\ [][Next]_vars

-----------------------------------------------------------------------------
ReferencesResolve(d) ==
    /\ {d.rules[i].target : i \in DOMAIN d.rules} \subseteq Names(d) \cup {NoName}
    /\ Range(d.wheel.sectors) \cup {d.default} \subseteq Names(d) \cup {NoName}

\* Names that normalisation need not touch, and what else only the validation refuses.
InOrder(d) ==
    /\ d.name # <<>> /\ ValidStates(d) /\ \A name \in Names(d) : Trim(name) = name
    /\ d.wheel # NoWheel => d.wheel.button # d.menu
    /\ Len(d.rules) <= MaxRules  \* a rule captured in one profile may come to another

\* However a draft was edited, its rules, sectors and default name states it
\* has, its own triggers are those of its first state (trigger-profiles.ts
\* promises both to readers that know no states), and the save takes a draft
\* whose names are in order as it is.  One whose names are not is either
\* refused or brought in order for good: saving twice is saving once.
DraftHolds ==
    LET saved == SanitizeDraftStates(draft)
    IN  /\ ReferencesResolve(draft)
        /\ HasStates => draft.triggers = draft.states[1].feel
        /\ InOrder(draft) => saved = draft /\ ValidTriggerProfile(draft)
        /\ ValidTriggerProfile(saved) => SanitizeDraftStates(saved) = saved

=============================================================================
