---------------------------- MODULE ShortcutProofs ----------------------------
(* Proofs about ShortcutFlow: a shortcut pressed is in one place, is run in   *)
(* order and as it was meant.                                                *)
EXTENDS ShortcutFlow, FiniteSetTheorems, TLAPS

Names == DOMAIN Functions \cup {""}
Events == [press : Nat, slot : Nat, shortcut : Names]
Lists == Seq([starter : Starters, button : Buttons, runs : DOMAIN Functions])
Numbered == [version : Nat, list : Lists]
Presses == [version : Nat, runs : DOMAIN Functions, again : BOOLEAN]
Results == [press : Nat, runs : Names, ok : BOOLEAN, version : Nat, level : Int, flag : Int]

TypeOK ==
    /\ port \in [previous : SUBSET (Starters \cup Buttons), consumed : SUBSET (Starters \cup Buttons)]
    /\ daemon \in [chords : Numbered, pending : Seq(Events)]
    /\ chords \in Numbered
    /\ sending \in Seq(Numbered)
    /\ polls \in [{"timer", "status"} -> [state : {"idle", "asked", "served"}, event : Events]]
    /\ crossed \in BOOLEAN
    /\ queue \in Seq(Events)
    /\ running \in [event : Events, runs : Names, value : Int]
    /\ level \in Int /\ flag \in Int
    /\ presses \in Seq(Presses)
    /\ done \in Seq(Results)
    /\ lost \subseteq Nat

-----------------------------------------------------------------------------
(* Sequences of what has a press.                                           *)

Has(events, p) == \E i \in DOMAIN events : events[i].press = p
Distinct(events) == \A i, j \in DOMAIN events : events[i].press = events[j].press => i = j
Rising(events) == \A i, j \in DOMAIN events : i < j => events[i].press < events[j].press

LEMMA AppendFacts ==
    ASSUME NEW S, NEW events \in Seq(S), NEW e \in S
    PROVE  /\ \A p : Has(Append(events, e), p) <=> Has(events, p) \/ e.press = p
           /\ Distinct(events) /\ ~Has(events, e.press) => Distinct(Append(events, e))
           /\ Rising(events) /\ (\A p : Has(events, p) => p < e.press) => Rising(Append(events, e))
<1> DEFINE more == Append(events, e)
<1>1. /\ DOMAIN more = 1..Len(events) + 1 /\ more[Len(events) + 1] = e
      /\ \A i \in 1..Len(events) : more[i] = events[i]
      /\ DOMAIN events = 1..Len(events) /\ Len(events) \in Nat
  OBVIOUS
<1> HIDE DEF more
<1>2. \A p : Has(more, p) <=> Has(events, p) \/ e.press = p
  <2> SUFFICES ASSUME NEW p PROVE Has(more, p) <=> Has(events, p) \/ e.press = p
    OBVIOUS
  <2>1. ASSUME Has(more, p) PROVE Has(events, p) \/ e.press = p
    <3>1. PICK i \in DOMAIN more : more[i].press = p
      BY <2>1 DEF Has
    <3>2. i = Len(events) + 1 \/ i \in 1..Len(events)
      BY <1>1
    <3>. QED BY <3>1, <3>2, <1>1 DEF Has
  <2>2. ASSUME Has(events, p) PROVE Has(more, p)
    BY <2>2, <1>1 DEF Has
  <2>3. ASSUME e.press = p PROVE Has(more, p)
    BY <2>3, <1>1 DEF Has
  <2>. QED BY <2>1, <2>2, <2>3
<1>3. ASSUME Distinct(events), ~Has(events, e.press) PROVE Distinct(more)
  <2> SUFFICES ASSUME NEW i \in DOMAIN more, NEW j \in DOMAIN more, more[i].press = more[j].press
               PROVE  i = j
    BY DEF Distinct
  <2>1. i = Len(events) + 1 \/ i \in 1..Len(events)
    BY <1>1
  <2>2. j = Len(events) + 1 \/ j \in 1..Len(events)
    BY <1>1
  <2>. QED BY <1>1, <1>3, <2>1, <2>2 DEF Distinct, Has
<1>4. ASSUME Rising(events), \A p : Has(events, p) => p < e.press PROVE Rising(more)
  <2> SUFFICES ASSUME NEW i \in DOMAIN more, NEW j \in DOMAIN more, i < j
               PROVE  more[i].press < more[j].press
    BY DEF Rising
  <2>1. i \in 1..Len(events)
    BY <1>1
  <2>2. j = Len(events) + 1 \/ j \in 1..Len(events)
    BY <1>1
  <2>. QED BY <1>1, <1>4, <2>1, <2>2 DEF Rising, Has
<1>. QED BY <1>2, <1>3, <1>4 DEF more

LEMMA TailFacts ==
    ASSUME NEW S, NEW events \in Seq(S), events # <<>>
    PROVE  /\ Head(events) \in S /\ Tail(events) \in Seq(S)
           /\ \A p : Has(events, p) <=> Has(Tail(events), p) \/ Head(events).press = p
           /\ Distinct(events) => Distinct(Tail(events)) /\ ~Has(Tail(events), Head(events).press)
           /\ Rising(events) => /\ Rising(Tail(events))
                                /\ \A p : Has(Tail(events), p) => Head(events).press < p
<1> DEFINE rest == Tail(events)
<1>1. /\ Head(events) \in S /\ rest \in Seq(S)
      /\ DOMAIN events = 1..Len(events) /\ Len(events) \in Nat \ {0} /\ Head(events) = events[1]
      /\ DOMAIN rest = 1..Len(events) - 1
      /\ \A i \in 1..Len(events) - 1 : rest[i] = events[i + 1]
  OBVIOUS
<1> HIDE DEF rest
<1>2. \A p : Has(events, p) <=> Has(rest, p) \/ Head(events).press = p
  <2> SUFFICES ASSUME NEW p PROVE Has(events, p) <=> Has(rest, p) \/ Head(events).press = p
    OBVIOUS
  <2>1. ASSUME Has(events, p) PROVE Has(rest, p) \/ Head(events).press = p
    <3>1. PICK i \in DOMAIN events : events[i].press = p
      BY <2>1 DEF Has
    <3>2. i = 1 \/ i - 1 \in 1..Len(events) - 1
      BY <1>1
    <3>3. ASSUME i - 1 \in 1..Len(events) - 1 PROVE rest[i - 1] = events[i]
      BY <1>1, <3>3
    <3>. QED BY <3>1, <3>2, <3>3, <1>1 DEF Has
  <2>2. ASSUME Has(rest, p) PROVE Has(events, p)
    BY <2>2, <1>1 DEF Has
  <2>3. ASSUME Head(events).press = p PROVE Has(events, p)
    BY <2>3, <1>1 DEF Has
  <2>. QED BY <2>1, <2>2, <2>3
<1>3. \A i \in DOMAIN rest : i + 1 \in DOMAIN events /\ rest[i] = events[i + 1] /\ i + 1 # 1 /\ 1 < i + 1
  BY <1>1
<1>4. ASSUME Distinct(events) PROVE Distinct(rest)
  <2> SUFFICES ASSUME NEW i \in DOMAIN rest, NEW j \in DOMAIN rest, rest[i].press = rest[j].press
               PROVE  i = j
    BY DEF Distinct
  <2>1. i + 1 = j + 1
    BY <1>3, <1>4 DEF Distinct
  <2>. QED BY <2>1, <1>1
<1>5. ASSUME Distinct(events), Has(rest, Head(events).press) PROVE FALSE
  <2>1. PICK i \in DOMAIN rest : rest[i].press = events[1].press
    BY <1>5, <1>1 DEF Has
  <2>. QED BY <2>1, <1>1, <1>3, <1>5 DEF Distinct
<1>6. ASSUME Rising(events) PROVE Rising(rest)
  <2> SUFFICES ASSUME NEW i \in DOMAIN rest, NEW j \in DOMAIN rest, i < j
               PROVE  rest[i].press < rest[j].press
    BY DEF Rising
  <2>1. i + 1 < j + 1
    BY <1>1
  <2>. QED BY <2>1, <1>3, <1>6 DEF Rising
<1>7. ASSUME Rising(events), NEW p, Has(rest, p) PROVE Head(events).press < p
  <2>1. PICK i \in DOMAIN rest : rest[i].press = p
    BY <1>7 DEF Has
  <2>. QED BY <2>1, <1>1, <1>3, <1>7 DEF Rising
<1>. QED BY <1>1, <1>2, <1>4, <1>5, <1>6, <1>7 DEF rest

\* Two sequences one after the other, all of the first before all of the second.
OfEither(all, events, more) ==
    \A i \in DOMAIN all : \/ \E j \in DOMAIN events : all[i] = events[j]
                          \/ \E j \in DOMAIN more : all[i] = more[j]

LEMMA JoinFacts ==
    ASSUME NEW S, NEW events \in Seq(S), NEW more \in Seq(S)
    PROVE  /\ events \o more \in Seq(S)
           /\ \A p : Has(events \o more, p) <=> Has(events, p) \/ Has(more, p)
           /\ Rising(events) /\ Rising(more) /\ (\A p, r : Has(events, p) /\ Has(more, r) => p < r)
                => Rising(events \o more)
           /\ OfEither(events \o more, events, more)
<1> DEFINE all == events \o more
           n == Len(events)
<1>1. /\ all \in Seq(S) /\ n \in Nat /\ Len(more) \in Nat
      /\ DOMAIN events = 1..n /\ DOMAIN more = 1..Len(more) /\ DOMAIN all = 1..n + Len(more)
      /\ \A i \in 1..n + Len(more) : all[i] = IF i <= n THEN events[i] ELSE more[i - n]
  OBVIOUS
<1> HIDE DEF all, n
<1>2. ASSUME NEW i \in DOMAIN all
      PROVE  \/ i \in DOMAIN events /\ all[i] = events[i]
             \/ i - n \in DOMAIN more /\ all[i] = more[i - n] /\ n < i
  BY <1>1
<1>3. \A i \in DOMAIN events : i \in DOMAIN all /\ all[i] = events[i]
  BY <1>1
<1>4. \A j \in DOMAIN more : n + j \in DOMAIN all /\ all[n + j] = more[j]
  <2> SUFFICES ASSUME NEW j \in DOMAIN more PROVE n + j \in DOMAIN all /\ all[n + j] = more[j]
    OBVIOUS
  <2>1. n + j \in 1..n + Len(more) /\ ~(n + j <= n) /\ (n + j) - n = j
    BY <1>1
  <2>. QED BY <2>1, <1>1
<1>5. \A p : Has(all, p) <=> Has(events, p) \/ Has(more, p)
  BY <1>2, <1>3, <1>4 DEF Has
<1>6. ASSUME Rising(events), Rising(more), \A p, r : Has(events, p) /\ Has(more, r) => p < r
      PROVE  Rising(all)
  <2> SUFFICES ASSUME NEW i \in DOMAIN all, NEW j \in DOMAIN all, i < j
               PROVE  all[i].press < all[j].press
    BY DEF Rising
  <2>0. i \in Int /\ j \in Int /\ n \in Int
    BY <1>1
  <2>1. CASE i \in DOMAIN events /\ all[i] = events[i] /\ j \in DOMAIN events /\ all[j] = events[j]
    BY <2>1, <1>6 DEF Rising
  <2>2. CASE i \in DOMAIN events /\ all[i] = events[i] /\ j - n \in DOMAIN more /\ all[j] = more[j - n]
    BY <2>2, <1>6 DEF Has
  <2>3. CASE i - n \in DOMAIN more /\ all[i] = more[i - n] /\ j - n \in DOMAIN more /\ all[j] = more[j - n]
    <3>1. i - n < j - n
      BY <2>0
    <3>. QED BY <3>1, <2>3, <1>6 DEF Rising
  <2>4. ~(n < i /\ j \in DOMAIN events)
    BY <2>0, <1>1
  <2>. QED BY <1>2, <2>1, <2>2, <2>3, <2>4
<1>7. OfEither(all, events, more)
  BY <1>2 DEF OfEither
<1>. QED BY <1>1, <1>5, <1>6, <1>7 DEF all

LEMMA ConcatFacts ==
    ASSUME NEW S, NEW old \in Seq(S), NEW new \in Seq(S), NEW all, all = old \o new
    PROVE  /\ all \in Seq(S) /\ Len(all) = Len(old) + Len(new)
           /\ \A i \in 1..Len(old) : all[i] = old[i]
           /\ \A i \in 1..Len(new) : all[Len(old) + i] = new[i]
<1>1. /\ all \in Seq(S) /\ Len(all) = Len(old) + Len(new)
      /\ \A i \in 1..Len(old) : all[i] = old[i]
  OBVIOUS
<1>2. ASSUME NEW i \in 1..Len(new) PROVE all[Len(old) + i] = new[i]
  <2>1. /\ Len(old) + i \in 1..Len(old) + Len(new) /\ ~(Len(old) + i <= Len(old))
        /\ (Len(old) + i) - Len(old) = i
    OBVIOUS
  <2>. QED BY <2>1
<1>. QED BY <1>1, <1>2

\* The presses n + 1, n + 2, ..., of which the first find room.
KeptOK(events, n, first, kept, k) ==
    /\ first \in Seq(Events) /\ Rising(first) /\ k \in 0..Len(events)
    /\ \A p : Has(first, p) <=> p \in n + 1..n + k
    /\ {events[i].press : i \in DOMAIN events \ 1..kept} = n + k + 1..n + Len(events)
    /\ \A i \in DOMAIN first : i \in DOMAIN events /\ first[i] = events[i]

LEMMA KeptFacts ==
    ASSUME NEW events \in Seq(Events), NEW n \in Nat, NEW kept \in Int, kept <= Len(events),
           \A i \in DOMAIN events : events[i].press = n + i
    PROVE  KeptOK(events, n, SubSeq(events, 1, kept), kept, IF kept < 0 THEN 0 ELSE kept)
<1> DEFINE first == SubSeq(events, 1, kept)
           k == IF kept < 0 THEN 0 ELSE kept
<1>1. /\ DOMAIN events = 1..Len(events) /\ Len(events) \in Nat
      /\ k \in 0..Len(events) /\ k <= Len(events) /\ 1..kept = 1..k
  OBVIOUS
<1>2. /\ first \in Seq(Events) /\ DOMAIN first = 1..k
      /\ \A i \in 1..k : first[i] = events[i]
  <2>1. CASE kept < 1
    <3>1. first = <<>> /\ k = 0
      BY <2>1
    <3>. QED BY <3>1
  <2>2. CASE 1 <= kept
    <3>1. /\ k = kept /\ first \in Seq(Events) /\ Len(first) = kept
          /\ \A i \in 1..kept : first[i] = events[i]
      BY <2>2, <1>1
    <3>. QED BY <3>1
  <2>. QED BY <2>1, <2>2
<1> HIDE DEF first, k
<1>3. \A i \in 1..k : i \in DOMAIN events /\ first[i].press = n + i
  BY <1>1, <1>2
<1>4. Rising(first)
  BY <1>2, <1>3 DEF Rising
<1>5. \A p : Has(first, p) <=> p \in n + 1..n + k
  <2> SUFFICES ASSUME NEW p PROVE Has(first, p) <=> p \in n + 1..n + k
    OBVIOUS
  <2>1. ASSUME Has(first, p) PROVE p \in n + 1..n + k
    <3>1. PICK i \in 1..k : first[i].press = p
      BY <2>1, <1>2 DEF Has
    <3>. QED BY <3>1, <1>3, <1>1
  <2>2. ASSUME p \in n + 1..n + k PROVE Has(first, p)
    <3>1. p - n \in 1..k /\ n + (p - n) = p
      BY <2>2, <1>1
    <3>. QED BY <3>1, <1>2, <1>3 DEF Has
  <2>. QED BY <2>1, <2>2
<1>6. {events[i].press : i \in DOMAIN events \ 1..kept} = n + k + 1..n + Len(events)
  <2>1. ASSUME NEW i \in DOMAIN events \ 1..kept PROVE events[i].press \in n + k + 1..n + Len(events)
    BY <1>1
  <2>2. ASSUME NEW p \in n + k + 1..n + Len(events)
        PROVE  \E i \in DOMAIN events \ 1..kept : events[i].press = p
    <3>1. p - n \in DOMAIN events /\ p - n \notin 1..kept /\ n + (p - n) = p
      BY <1>1
    <3>. QED BY <3>1
  <2>. QED BY <2>1, <2>2
<1>. QED BY <1>1, <1>2, <1>3, <1>4, <1>5, <1>6 DEF first, k, KeptOK

-----------------------------------------------------------------------------
(* The inductive invariant.                                                 *)

Known == 1..Len(presses)

\* The stages of a press: pending, with a poll, queued, under way, finished and lost.
Pending(p) == Has(daemon.pending, p)
Polled(p) == p # 0 /\ \E q \in DOMAIN polls : polls[q].event.press = p
Queued(p) == Has(queue, p)
Underway(p) == p # 0 /\ running.event.press = p
Finished(p) == Has(done, p)

In(p, s) ==
    \/ s = 1 /\ Pending(p)
    \/ s = 2 /\ Polled(p)
    \/ s = 3 /\ Queued(p)
    \/ s = 4 /\ Underway(p)
    \/ s = 5 /\ Finished(p)
    \/ s = 6 /\ p \in lost

\* What is nowhere else stands for nothing.
BlankInv ==
    /\ \A q \in DOMAIN polls : /\ polls[q].event.press = 0 <=> polls[q].event = Nothing
                               /\ polls[q].state # "served" => polls[q].event = Nothing
    /\ running.event.press = 0 <=> running = NotRunning
    /\ running # NotRunning => running.runs \in DOMAIN Functions

\* Every press is at one stage.
OnePlace ==
    /\ \A p \in Known : \E s \in 1..6 : In(p, s)
    /\ \A p : \A s, t \in 1..6 : In(p, s) /\ In(p, t) => s = t
    /\ \A p : \A s \in 1..6 : In(p, s) => p \in Known

\* It is there once.
PlacesInv ==
    /\ Rising(daemon.pending) /\ Distinct(queue) /\ Distinct(done)
    /\ \A q, r \in DOMAIN polls :
          polls[q].event.press = polls[r].event.press /\ polls[q].event.press # 0 => q = r
    /\ OnePlace

\* A press that is further on is an earlier one.
InOrder == \A p, r \in Known : \A s, t \in 1..5 : In(p, s) /\ In(r, t) /\ t < s => p < r

OrderInv ==
    ~crossed => /\ Rising(queue) /\ Rising(done) /\ InOrder
                /\ \A q, r \in DOMAIN polls :
                      polls[q].event # Nothing /\ polls[r].event # Nothing => q = r

\* The daemon's list is the app's, or an older one.
VersionsInv ==
    /\ daemon.chords.version <= chords.version
    /\ daemon.chords.version = chords.version => daemon.chords = chords
    /\ \A i \in DOMAIN sending : /\ sending[i].version <= chords.version
                                 /\ sending[i].version = chords.version => sending[i] = chords

\* Unless the list was edited since its press, what an event runs is what it meant.
RunsIn(list, e) ==
    IF e.shortcut # "" THEN {e.shortcut} ELSE {list[s].runs : s \in {e.slot} \cap DOMAIN list}

Means(events, list, e) ==
    /\ events[e.press].version <= list.version
    /\ events[e.press].version = list.version => RunsIn(list.list, e) = {events[e.press].runs}

MeansRun(events, list, r) ==
    /\ events[r.event.press].version <= list.version
    /\ events[r.event.press].version = list.version => r.runs = events[r.event.press].runs

MeantInv ==
    /\ \A i \in DOMAIN daemon.pending : Means(presses, chords, daemon.pending[i])
    /\ \A q \in DOMAIN polls : polls[q].event # Nothing => Means(presses, chords, polls[q].event)
    /\ \A i \in DOMAIN queue : Means(presses, chords, queue[i])
    /\ running # NotRunning => MeansRun(presses, chords, running)
    /\ \A i \in DOMAIN done :
          presses[done[i].press].version = done[i].version
              => done[i].runs = presses[done[i].press].runs

\* Each function stores what it makes of the settings as the last one left them, and the one
\* under way will.
Settings == [level |-> level, flag |-> flag]
BeforeIn(results, i) ==
    IF i = 1 THEN [level |-> Start, flag |-> 0]
    ELSE [level |-> results[i - 1].level, flag |-> results[i - 1].flag]
Stored(results, i) ==
    [level |-> results[i].level, flag |-> results[i].flag]
        = IF results[i].ok THEN Effect(results[i].runs, BeforeIn(results, i)) ELSE BeforeIn(results, i)

SettingsInv ==
    /\ \A i \in DOMAIN done : Stored(done, i)
    /\ Settings = BeforeIn(done, Len(done) + 1)
    /\ running # NotRunning =>
          /\ Functions[running.runs].does \in Kinds \ {"mark"}
          /\ Functions[running.runs].does = "step"
                => running.value = Clamp(level + Functions[running.runs].by)
          /\ Functions[running.runs].does = "toggle" => running.value = 1 - flag

\* A button that made a chord is consumed while it is held.
InputInv ==
    /\ chorded \subseteq port.consumed
    /\ shown \cap chorded = {}
    /\ \A p \in Known : ~presses[p].again

SpawnInv ==
    \A i \in DOMAIN spawned.args : \A key \in DOMAIN KindOf :
        spawned.args[i] = <<"press", key>>
            <=> spawned.args[Len(spawned.args) + 1 - i] = <<"release", key>>

Inv == /\ TypeOK /\ BlankInv /\ PlacesInv /\ OrderInv /\ VersionsInv /\ MeantInv /\ SettingsInv
       /\ InputInv /\ SpawnInv

-----------------------------------------------------------------------------
(* What the actions do to the places of presses.                            *)

\* One press moves on.
Move(x, a, b) ==
    /\ x \in Known /\ In(x, a) /\ presses' = presses
    /\ \A p : \A s \in 1..6 : In(p, s)' <=> (In(p, s) /\ ~(p = x /\ s = a)) \/ (p = x /\ s = b)

\* None does.
Stay == presses' = presses /\ \A p : \A s \in 1..6 : In(p, s)' <=> In(p, s)

LEMMA StayFacts ==
    ASSUME OnePlace, Stay PROVE OnePlace' /\ (InOrder => InOrder')
BY DEF OnePlace, InOrder, Stay, Known

LEMMA MoveFacts ==
    ASSUME OnePlace, NEW a \in 1..6, NEW b \in 1..6, NEW x, Move(x, a, b)
    PROVE  /\ OnePlace'
           /\ InOrder /\ b = 6 => InOrder'
           /\ /\ InOrder /\ a < b
              /\ \A p \in Known : In(p, a) => p = x \/ x < p
              /\ \A p \in Known : \A s \in a + 1..b - 1 : ~In(p, s)
              => InOrder'
<1>1. Known' = Known /\ Known \subseteq Int
  BY DEF Move, Known
<1>2. OnePlace'
  <2>1. \A p \in Known : \E s \in 1..6 : In(p, s)'
    BY DEF OnePlace, Move
  <2>2. \A p : \A s, t \in 1..6 : In(p, s)' /\ In(p, t)' => s = t
    BY DEF OnePlace, Move
  <2>3. \A p : \A s \in 1..6 : In(p, s)' => p \in Known
    BY DEF OnePlace, Move
  <2>. QED BY <1>1, <2>1, <2>2, <2>3 DEF OnePlace
<1>3. ASSUME InOrder, b = 6 PROVE InOrder'
  BY <1>1, <1>3 DEF InOrder, Move
<1>4. ASSUME InOrder, a < b, \A p \in Known : In(p, a) => p = x \/ x < p,
             \A p \in Known : \A s \in a + 1..b - 1 : ~In(p, s)
      PROVE  InOrder'
  <2> SUFFICES ASSUME NEW p \in Known, NEW r \in Known, NEW s \in 1..5, NEW t \in 1..5,
                      In(p, s)', In(r, t)', t < s
               PROVE  p < r
    BY <1>1 DEF InOrder
  <2>1. CASE In(p, s) /\ In(r, t)
    BY <2>1, <1>4 DEF InOrder
  <2>2. CASE p = x /\ s = b /\ In(r, t) /\ ~(r = x /\ t = a)
    <3>1. x \in Known /\ In(x, a) /\ a \in 1..5
      BY <1>4 DEF Move
    <3>2. t < a \/ t = a \/ t \in a + 1..b - 1
      BY <2>2
    <3>. QED BY <3>1, <3>2, <2>2, <1>4 DEF InOrder
  <2>3. CASE r = x /\ t = b /\ In(p, s)
    <3>1. x \in Known /\ In(x, a) /\ a \in 1..5 /\ a < s
      BY <1>4, <2>3 DEF Move
    <3>. QED BY <3>1, <2>3, <1>4 DEF InOrder
  <2>4. ~(p = x /\ s = b /\ r = x /\ t = b)
    OBVIOUS
  <2>. QED BY <2>1, <2>2, <2>3, <2>4 DEF Move
<1>. QED BY <1>2, <1>3, <1>4

\* The presses after the last one are entered, k of them as pending.
Entered(events, k) ==
    /\ k \in 0..Len(events)
    /\ daemon'.chords = daemon.chords
    /\ \A p : In(p, 1)' <=> In(p, 1) \/ p \in Len(presses) + 1..Len(presses) + k
    /\ \A p : In(p, 6)' <=> In(p, 6) \/ p \in Len(presses) + k + 1..Len(presses) + Len(events)
    /\ Len(presses') = Len(presses) + Len(events)
    /\ \A p \in Known : presses'[p] = presses[p]
    /\ \A i \in DOMAIN daemon'.pending :
          \/ \E j \in DOMAIN daemon.pending : daemon'.pending[i] = daemon.pending[j]
          \/ \E j \in DOMAIN events : daemon'.pending[i] = events[j]

LEMMA NewPresses ==
    ASSUME TypeOK, MaxEvents \in Nat, Rising(daemon.pending), \A p : Pending(p) => p \in Known,
           NEW events \in Seq(Events), NEW new \in Seq(Presses), Len(new) = Len(events),
           \A i \in DOMAIN events : events[i].press = Len(presses) + i,
           presses' = presses \o new, Enqueue(events)
    PROVE  /\ \E k \in Nat : Entered(events, k)
           /\ daemon' \in [chords : Numbered, pending : Seq(Events)] /\ lost' \subseteq Nat
           /\ presses' \in Seq(Presses) /\ Rising(daemon'.pending)
           /\ \A i \in DOMAIN new : presses'[Len(presses) + i] = new[i]
<1> DEFINE n == Len(presses)
           room == MaxEvents - Len(daemon.pending)
           kept == IF Len(events) < room THEN Len(events) ELSE room
           first == SubSeq(events, 1, kept)
           k == IF kept < 0 THEN 0 ELSE kept
<1>1. /\ daemon.pending \in Seq(Events) /\ daemon.chords \in Numbered /\ presses \in Seq(Presses)
      /\ n \in Nat /\ DOMAIN daemon = {"chords", "pending"} /\ Len(daemon.pending) \in Nat
      /\ daemon = [chords |-> daemon.chords, pending |-> daemon.pending]
  BY DEF TypeOK
<1>2. kept \in Int /\ kept <= Len(events)
  BY <1>1
<1>3. /\ daemon' = [daemon EXCEPT !.pending = @ \o first]
      /\ lost' = lost \cup {events[i].press : i \in DOMAIN events \ 1..kept}
  BY DEF Enqueue
<1> HIDE DEF kept, room
<1>4. /\ first \in Seq(Events) /\ Rising(first) /\ k \in 0..Len(events)
      /\ \A p : Has(first, p) <=> p \in n + 1..n + k
      /\ {events[i].press : i \in DOMAIN events \ 1..kept} = n + k + 1..n + Len(events)
      /\ \A i \in DOMAIN first : i \in DOMAIN events /\ first[i] = events[i]
  <2>1. KeptOK(events, n, first, kept, k)
    BY <1>1, <1>2, KeptFacts
  <2>. QED BY <2>1 DEF KeptOK
<1> HIDE DEF first, k
<1>5. daemon'.pending = daemon.pending \o first /\ daemon'.chords = daemon.chords
  BY <1>1, <1>3
<1>6. \A p, r : Has(daemon.pending, p) /\ Has(first, r) => p < r
  BY <1>1, <1>4 DEF Pending, Known
<1>7. /\ daemon'.pending \in Seq(Events) /\ Rising(daemon'.pending)
      /\ \A p : Has(daemon'.pending, p) <=> Has(daemon.pending, p) \/ Has(first, p)
      /\ \A i \in DOMAIN daemon'.pending :
            \/ \E j \in DOMAIN daemon.pending : daemon'.pending[i] = daemon.pending[j]
            \/ \E j \in DOMAIN first : daemon'.pending[i] = first[j]
  <2>1. daemon.pending \o first \in Seq(Events)
    BY <1>1, <1>4, JoinFacts
  <2>2. Rising(daemon.pending \o first)
    BY <1>1, <1>4, <1>6, JoinFacts
  <2>3. \A p : Has(daemon.pending \o first, p) <=> Has(daemon.pending, p) \/ Has(first, p)
    BY <1>1, <1>4, JoinFacts
  <2>4. OfEither(daemon.pending \o first, daemon.pending, first)
    BY <1>1, <1>4, JoinFacts
  <2>. QED BY <2>1, <2>2, <2>3, <2>4, <1>5 DEF OfEither
<1>8. daemon' \in [chords : Numbered, pending : Seq(Events)]
  BY <1>1, <1>3, <1>5, <1>7
<1>9. lost' \subseteq Nat
  BY <1>1, <1>3, <1>4 DEF TypeOK
<1>10. /\ presses' \in Seq(Presses) /\ Len(presses') = n + Len(events)
       /\ \A p \in 1..n : presses'[p] = presses[p]
       /\ \A i \in DOMAIN new : presses'[n + i] = new[i]
  <2>1. new \in Seq(Presses) /\ presses \in Seq(Presses) /\ DOMAIN new = 1..Len(new)
    BY <1>1
  <2>2. PICK all : all = presses \o new
    OBVIOUS
  <2>3. /\ all \in Seq(Presses) /\ Len(all) = Len(presses) + Len(new)
        /\ \A i \in 1..Len(presses) : all[i] = presses[i]
        /\ \A i \in 1..Len(new) : all[Len(presses) + i] = new[i]
    BY ONLY <2>1, <2>2, ConcatFacts
  <2>4. presses' = all
    BY <2>2
  <2>. QED BY <2>1, <2>3, <2>4
<1>11. Entered(events, k)
  <2>0. \A p : Pending(p)' <=> Pending(p) \/ p \in n + 1..n + k
    BY <1>4, <1>7 DEF Pending
  <2>1. \A p : In(p, 1)' <=> In(p, 1) \/ p \in n + 1..n + k
    BY <2>0 DEF In
  <2>2. \A p : In(p, 6)' <=> In(p, 6) \/ p \in n + k + 1..n + Len(events)
    BY <1>3, <1>4 DEF In
  <2>3. \A i \in DOMAIN daemon'.pending :
            \/ \E j \in DOMAIN daemon.pending : daemon'.pending[i] = daemon.pending[j]
            \/ \E j \in DOMAIN events : daemon'.pending[i] = events[j]
    BY <1>4, <1>7
  <2>. QED BY <1>4, <1>5, <1>10, <2>1, <2>2, <2>3 DEF Entered, Known
<1>. QED BY <1>4, <1>7, <1>8, <1>9, <1>10, <1>11

LEMMA EnteredFacts ==
    ASSUME OnePlace, NEW events \in Seq(Events), NEW k, Entered(events, k), presses \in Seq(Presses),
           \A p : \A s \in 2..5 : In(p, s)' <=> In(p, s)
    PROVE  OnePlace' /\ (InOrder => InOrder')
<1> DEFINE n == Len(presses)
<1>1. /\ n \in Nat /\ k \in 0..Len(events) /\ Len(events) \in Nat /\ Known = 1..n
      /\ Known' = 1..n + Len(events)
  BY DEF Entered, Known
<1> HIDE DEF n
<1>2. /\ \A p : In(p, 1)' <=> In(p, 1) \/ p \in n + 1..n + k
      /\ \A p : In(p, 6)' <=> In(p, 6) \/ p \in n + k + 1..n + Len(events)
  BY DEF Entered, n
<1>3. \A p : \A s \in 1..6 : In(p, s) => p \in 1..n
  BY <1>1 DEF OnePlace
<1>4. ASSUME NEW p \in Known', NEW s \in 1..6
      PROVE  /\ p \in 1..n => (In(p, s)' <=> In(p, s))
             /\ p \notin 1..n => (In(p, s)' <=> IF p \in n + 1..n + k THEN s = 1 ELSE s = 6)
  <2>1. p \in 1..n \/ p \in n + 1..n + k \/ p \in n + k + 1..n + Len(events)
    BY <1>1
  <2>2. s = 1 \/ s = 6 \/ s \in 2..5
    OBVIOUS
  <2>3. CASE s = 1
    BY <2>1, <2>3, <1>1, <1>2, <1>3
  <2>4. CASE s = 6
    BY <2>1, <2>4, <1>1, <1>2, <1>3
  <2>5. CASE s \in 2..5
    BY <2>1, <2>5, <1>1, <1>3
  <2>. QED BY <2>2, <2>3, <2>4, <2>5
<1>5. \A p : \A s \in 1..6 : In(p, s)' => p \in Known'
  <2> SUFFICES ASSUME NEW p, NEW s \in 1..6, In(p, s)' PROVE p \in Known'
    OBVIOUS
  <2>1. In(p, s) => p \in 1..n
    BY <1>3
  <2>2. s = 1 \/ s = 6 \/ s \in 2..5
    OBVIOUS
  <2>. QED BY <2>1, <2>2, <1>1, <1>2
<1>6. OnePlace'
  <2>1. ASSUME NEW p \in Known' PROVE \E s \in 1..6 : In(p, s)'
    <3>1. CASE p \in 1..n
      BY <3>1, <1>1, <1>4 DEF OnePlace
    <3>2. CASE p \notin 1..n
      <4>1. 1 \in 1..6 /\ 6 \in 1..6 /\ (In(p, 1)' \/ In(p, 6)')
        <5>1. p \in n + 1..n + k \/ p \in n + k + 1..n + Len(events)
          BY <3>2, <1>1
        <5>. QED BY <5>1, <1>2
      <4>. QED BY <4>1
    <3>. QED BY <3>1, <3>2
  <2>2. ASSUME NEW p, NEW s \in 1..6, NEW t \in 1..6, In(p, s)', In(p, t)' PROVE s = t
    <3>1. p \in Known'
      BY <2>2, <1>5
    <3>2. CASE p \in 1..n
      BY <3>1, <3>2, <2>2, <1>4 DEF OnePlace
    <3>3. CASE p \notin 1..n
      BY <3>1, <3>3, <2>2, <1>4
    <3>. QED BY <3>2, <3>3
  <2>. QED BY <2>1, <2>2, <1>5 DEF OnePlace
<1>7. ASSUME InOrder PROVE InOrder'
  <2> SUFFICES ASSUME NEW p \in Known', NEW r \in Known', NEW s \in 1..5, NEW t \in 1..5,
                      In(p, s)', In(r, t)', t < s
               PROVE  p < r
    BY DEF InOrder
  <2>1. p \in 1..n
    <3>1. s \in 1..6 /\ s # 1 /\ s # 6
      OBVIOUS
    <3>. QED BY <3>1, <1>4
  <2>2. CASE r \in 1..n
    BY <2>1, <2>2, <1>1, <1>4, <1>7 DEF InOrder
  <2>3. CASE r \notin 1..n
    BY <2>1, <2>3, <1>1
  <2>. QED BY <2>2, <2>3
<1>. QED BY <1>6, <1>7

LEMMA PollFacts ==
    ASSUME TypeOK
    PROVE  /\ DOMAIN polls = {"timer", "status"}
           /\ \A q \in DOMAIN polls : polls[q].event \in Events
           /\ \A q \in DOMAIN polls : \A new :
                 /\ [polls EXCEPT ![q] = new][q] = new
                 /\ \A r \in DOMAIN polls : r # q => [polls EXCEPT ![q] = new][r] = polls[r]
                 /\ DOMAIN [polls EXCEPT ![q] = new] = {"timer", "status"}
BY DEF TypeOK

\* What a poll that has nothing is given is polled, and nothing else changes there.
LEMMA PolledFacts ==
    ASSUME TypeOK, NEW p \in DOMAIN polls, NEW new, polls' = [polls EXCEPT ![p] = new],
           polls[p].event.press = 0 \/ new.event.press = 0, PlacesInv
    PROVE  \A r : Polled(r)' <=> r # 0 /\ ((Polled(r) /\ r # polls[p].event.press) \/ r = new.event.press)
<1>1. /\ DOMAIN polls' = DOMAIN polls /\ polls'[p] = new
      /\ \A q \in DOMAIN polls : q # p => polls'[q] = polls[q]
  BY PollFacts
<1> SUFFICES ASSUME NEW r, r # 0
             PROVE  Polled(r)' <=> (Polled(r) /\ r # polls[p].event.press) \/ r = new.event.press
  BY DEF Polled
<1>2. \A q \in DOMAIN polls :
         polls[q].event.press = polls[p].event.press /\ polls[q].event.press # 0 => q = p
  BY DEF PlacesInv
<1>3. ASSUME Polled(r)' PROVE (Polled(r) /\ r # polls[p].event.press) \/ r = new.event.press
  <2>1. PICK q \in DOMAIN polls : polls'[q].event.press = r
    BY <1>1, <1>3 DEF Polled
  <2>2. CASE q = p
    BY <2>1, <2>2, <1>1
  <2>3. CASE q # p
    BY <2>1, <2>3, <1>1, <1>2 DEF Polled
  <2>. QED BY <2>2, <2>3
<1>4. ASSUME Polled(r), r # polls[p].event.press PROVE Polled(r)'
  <2>1. PICK q \in DOMAIN polls : polls[q].event.press = r
    BY <1>4 DEF Polled
  <2>. QED BY <2>1, <1>1, <1>4 DEF Polled
<1>5. ASSUME r = new.event.press PROVE Polled(r)'
  BY <1>5, <1>1 DEF Polled
<1>. QED BY <1>3, <1>4, <1>5

LEMMA ServeMoves ==
    ASSUME TypeOK, BlankInv, PlacesInv, NEW p \in DOMAIN polls, Serve(p)
    PROVE  /\ polls[p].event = Nothing /\ daemon'.chords = daemon.chords
           /\ IF daemon.pending = <<>>
              THEN Stay /\ polls'[p].event = Nothing /\ daemon'.pending = <<>>
              ELSE /\ Move(Head(daemon.pending).press, 1, 2)
                   /\ daemon'.pending = Tail(daemon.pending)
                   /\ polls'[p].event = Head(daemon.pending)
           /\ \A q \in DOMAIN polls : q # p => polls'[q] = polls[q]
<1> DEFINE event == IF daemon.pending = <<>> THEN Nothing ELSE Head(daemon.pending)
           new == [state |-> "served", event |-> event]
<1>1. /\ polls' = [polls EXCEPT ![p] = new] /\ polls[p].state = "asked"
      /\ daemon' = [daemon EXCEPT !.pending = Remaining(daemon.pending)]
      /\ UNCHANGED <<presses, queue, running, done, lost>>
  BY DEF Serve, controllerVars, actionVars
<1>2. daemon.pending \in Seq(Events) /\ daemon.chords = daemon'.chords
      /\ daemon'.pending = Remaining(daemon.pending)
  BY <1>1 DEF TypeOK
<1>3. new.event = event
  OBVIOUS
<1> HIDE DEF new
<1>4. polls[p].event = Nothing /\ polls[p].event.press = 0 /\ Nothing.press = 0
  BY <1>1 DEF BlankInv, Nothing
<1>5. /\ \A r : Polled(r)' <=> r # 0 /\ (Polled(r) \/ r = event.press)
      /\ polls'[p] = new /\ \A q \in DOMAIN polls : q # p => polls'[q] = polls[q]
  <2>1. \A r : Polled(r)' <=> r # 0 /\ ((Polled(r) /\ r # polls[p].event.press) \/ r = new.event.press)
    BY <1>1, <1>4, PolledFacts
  <2>. QED BY <2>1, <1>1, <1>3, <1>4, PollFacts
<1>6. \A r : /\ Queued(r)' <=> Queued(r)
             /\ Underway(r)' <=> Underway(r)
             /\ Finished(r)' <=> Finished(r)
             /\ r \in lost' <=> r \in lost
  BY <1>1 DEF Queued, Underway, Finished
<1>7. CASE daemon.pending = <<>>
  <2>1. event = Nothing /\ daemon'.pending = <<>>
    BY <1>2, <1>7 DEF Remaining
  <2>2. \A r : Polled(r)' <=> Polled(r)
    BY <1>4, <1>5, <2>1 DEF Polled
  <2>3. \A r : Pending(r)' <=> Pending(r)
    BY <2>1, <1>7 DEF Pending
  <2>4. Stay
    BY <1>1, <1>6, <2>2, <2>3 DEF Stay, In
  <2>. QED BY <1>2, <1>3, <1>4, <1>5, <1>7, <2>1, <2>4
<1>8. CASE daemon.pending # <<>>
  <2> DEFINE x == Head(daemon.pending).press
  <2>1. event = Head(daemon.pending) /\ daemon'.pending = Tail(daemon.pending)
    BY <1>2, <1>8 DEF Remaining
  <2>2. \A r : Pending(r) <=> Pending(r)' \/ r = x
    BY <1>2, <1>8, <2>1, TailFacts DEF Pending
  <2>3. Rising(daemon.pending) /\ \A r : Pending(r)' => x < r
    BY <1>2, <1>8, <2>1, TailFacts DEF Pending, PlacesInv
  <2>4. In(x, 1) /\ x \in Known /\ x # 0
    <3>1. In(x, 1)
      BY <2>2 DEF In
    <3>2. x \in Known
      BY <3>1 DEF PlacesInv, OnePlace
    <3>. QED BY <3>1, <3>2 DEF Known
  <2>5. \A r : Pending(r)' <=> Pending(r) /\ r # x
    BY <2>2, <2>3, <2>4 DEF Known
  <2>6. \A r : Polled(r)' <=> Polled(r) \/ r = x
    BY <1>5, <2>1, <2>4 DEF Polled
  <2> HIDE DEF x
  <2>7. Move(x, 1, 2)
    BY <1>1, <1>6, <2>4, <2>5, <2>6 DEF Move, In
  <2>. QED BY <1>2, <1>3, <1>4, <1>5, <1>8, <2>1, <2>7 DEF x
<1>. QED BY <1>7, <1>8

LEMMA ReceiveMoves ==
    ASSUME TypeOK, BlankInv, PlacesInv, NEW p \in DOMAIN polls, Receive(p)
    PROVE  /\ IF polls[p].event = Nothing THEN Stay /\ queue' = queue
              ELSE Move(polls[p].event.press, 2, 3) /\ queue' = Append(queue, polls[p].event)
           /\ polls'[p].event = Nothing
           /\ \A q \in DOMAIN polls : q # p => polls'[q] = polls[q]
<1> DEFINE x == polls[p].event.press
<1>1. /\ polls' = [polls EXCEPT ![p] = Idle]
      /\ UNCHANGED <<presses, daemon, running, done, lost>>
      /\ queue' = IF polls[p].event = Nothing THEN queue ELSE Append(queue, polls[p].event)
  BY DEF Receive, controllerVars
<1>2. Idle.event = Nothing /\ Nothing.press = 0
  BY DEF Idle, Nothing
<1>3. /\ \A r : Polled(r)' <=> Polled(r) /\ r # x
      /\ polls'[p] = Idle /\ \A q \in DOMAIN polls : q # p => polls'[q] = polls[q]
  <2>1. \A r : Polled(r)' <=> r # 0 /\ ((Polled(r) /\ r # polls[p].event.press) \/ r = Idle.event.press)
    BY <1>1, <1>2, PolledFacts
  <2>. QED BY <2>1, <1>1, <1>2, PollFacts DEF Polled
<1>4. \A r : /\ Pending(r)' <=> Pending(r)
             /\ Underway(r)' <=> Underway(r)
             /\ Finished(r)' <=> Finished(r)
             /\ r \in lost' <=> r \in lost
  BY <1>1 DEF Pending, Underway, Finished
<1>5. CASE polls[p].event = Nothing
  <2>1. /\ \A r : Polled(r)' <=> Polled(r)
        /\ \A r : Queued(r)' <=> Queued(r)
        /\ queue' = queue
    BY <1>1, <1>2, <1>3, <1>5 DEF Polled, Queued
  <2>2. Stay
    BY <1>1, <1>4, <2>1 DEF Stay, In
  <2>. QED BY <1>2, <1>3, <1>5, <2>1, <2>2
<1>6. CASE polls[p].event # Nothing
  <2>1. x # 0 /\ Polled(x)
    BY <1>6 DEF BlankInv, Polled
  <2>2. In(x, 2)
    BY <2>1 DEF In
  <2>3. x \in Known
    BY <2>2 DEF PlacesInv, OnePlace
  <2>4. queue' = Append(queue, polls[p].event) /\ queue \in Seq(Events) /\ polls[p].event \in Events
    BY <1>1, <1>6, PollFacts DEF TypeOK
  <2>5. \A r : Queued(r)' <=> Queued(r) \/ r = x
    BY <2>4, AppendFacts DEF Queued
  <2> HIDE DEF x
  <2>6. Move(x, 2, 3)
    BY <1>1, <1>3, <1>4, <2>2, <2>3, <2>5 DEF Move, In
  <2>. QED BY <1>2, <1>3, <1>6, <2>4, <2>6 DEF x
<1>. QED BY <1>5, <1>6

LEMMA PollFailsMoves ==
    ASSUME TypeOK, BlankInv, PlacesInv, NEW p \in DOMAIN polls, PollFails(p)
    PROVE  /\ IF polls[p].event = Nothing THEN Stay ELSE Move(polls[p].event.press, 2, 6)
           /\ polls'[p].event = Nothing
           /\ \A q \in DOMAIN polls : q # p => polls'[q] = polls[q]
<1> DEFINE x == polls[p].event.press
<1>1. /\ polls' = [polls EXCEPT ![p] = Idle]
      /\ UNCHANGED <<presses, daemon, queue, running, done>>
      /\ lost' = lost \cup ({x} \ {0})
  BY DEF PollFails, controllerVars, actionVars
<1>2. Idle.event = Nothing /\ Nothing.press = 0
  BY DEF Idle, Nothing
<1>3. /\ \A r : Polled(r)' <=> Polled(r) /\ r # x
      /\ polls'[p] = Idle /\ \A q \in DOMAIN polls : q # p => polls'[q] = polls[q]
  <2>1. \A r : Polled(r)' <=> r # 0 /\ ((Polled(r) /\ r # polls[p].event.press) \/ r = Idle.event.press)
    BY <1>1, <1>2, PolledFacts
  <2>. QED BY <2>1, <1>1, <1>2, PollFacts DEF Polled
<1>4. \A r : /\ Pending(r)' <=> Pending(r)
             /\ Queued(r)' <=> Queued(r)
             /\ Underway(r)' <=> Underway(r)
             /\ Finished(r)' <=> Finished(r)
  BY <1>1 DEF Pending, Queued, Underway, Finished
<1>5. CASE polls[p].event = Nothing
  <2>1. /\ \A r : Polled(r)' <=> Polled(r)
        /\ \A r : r \in lost' <=> r \in lost
    BY <1>1, <1>2, <1>3, <1>5 DEF Polled
  <2>2. Stay
    BY <1>1, <1>4, <2>1 DEF Stay, In
  <2>. QED BY <1>2, <1>3, <1>5, <2>2
<1>6. CASE polls[p].event # Nothing
  <2>1. x # 0 /\ Polled(x)
    BY <1>6 DEF BlankInv, Polled
  <2>2. In(x, 2)
    BY <2>1 DEF In
  <2>3. x \in Known
    BY <2>2 DEF PlacesInv, OnePlace
  <2>4. \A r : r \in lost' <=> r \in lost \/ r = x
    BY <1>1, <2>1
  <2> HIDE DEF x
  <2>5. Move(x, 2, 6)
    BY <1>1, <1>3, <1>4, <2>2, <2>3, <2>4 DEF Move, In
  <2>. QED BY <1>2, <1>3, <1>6, <2>5 DEF x
<1>. QED BY <1>5, <1>6

LEMMA FunctionFacts ==
    ASSUME NEW S, NEW n \in Nat, NEW f \in [1..n -> S]
    PROVE  f \in Seq(S) /\ Len(f) = n /\ DOMAIN f = 1..n
OBVIOUS

LEMMA ElementFacts ==
    ASSUME NEW S, NEW list \in Seq(S) PROVE \A i \in DOMAIN list : list[i] \in S
OBVIOUS

LEMMA RunsFacts ==
    ASSUME TypeOK, NEW event \in Events
    PROVE  \A f \in Runs(event) : f \in DOMAIN Functions
<1>1. \A s \in DOMAIN chords.list : chords.list[s].runs \in DOMAIN Functions
  <2>1. chords.list \in Seq([starter : Starters, button : Buttons, runs : DOMAIN Functions])
    BY DEF TypeOK, Numbered, Lists
  <2>2. \A s \in DOMAIN chords.list :
           chords.list[s] \in [starter : Starters, button : Buttons, runs : DOMAIN Functions]
    BY <2>1, ElementFacts
  <2>. QED BY <2>2
<1>2. event.shortcut \in DOMAIN Functions \cup {""}
  BY DEF Events, Names
<1>. QED BY <1>1, <1>2 DEF Runs

\* What Dispatch does with an event: a function of it is under way, or it has ended.
Starts(event, runs, value) ==
    /\ Begun(event, runs, value) /\ runs \in Runs(event) /\ value \in Int
    /\ level' = level /\ flag' = flag
    /\ Functions[runs].does \in Kinds \ {"mark"}
    /\ Functions[runs].does = "step" => value = Clamp(level + Functions[runs].by)
    /\ Functions[runs].does = "toggle" => value = 1 - flag

Ends(event, runs, ok) ==
    /\ Ended(event, runs, ok) /\ running' = running
    /\ (Runs(event) = {} /\ runs = "") \/ runs \in Runs(event)
    /\ level' \in Int /\ flag' \in Int
    /\ Settings' = IF ok THEN Effect(runs, Settings) ELSE Settings

LEMMA ClampFacts ==
    ASSUME Top \in Nat, NEW v \in Int PROVE Clamp(v) \in Int
BY DEF Clamp

LEMMA ExecuteFacts ==
    ASSUME ConstantsOK, TypeOK, NEW event \in Events, NEW f \in Runs(event), Execute(event, f)
    PROVE  \/ \E value \in Int : Starts(event, f, value)
           \/ \E ok \in BOOLEAN : Ends(event, f, ok)
<1>1. /\ Functions[f] \in [does : Kinds, keys : Seq(DOMAIN KindOf), by : Int]
      /\ level \in Int /\ flag \in Int /\ Top \in Nat
  BY RunsFacts DEF ConstantsOK, TypeOK
<1>2. Functions[f].does \in Kinds /\ Functions[f].by \in Int
  BY <1>1
<1>3. CASE DispatchKeys(event, f)
  <2>1. CASE Typable(Functions[f].keys)
    BY <2>1, <1>2, <1>3 DEF DispatchKeys, Starts, Begun, Kinds
  <2>2. CASE ~Typable(Functions[f].keys)
    BY <2>2, <1>1, <1>3 DEF DispatchKeys, DispatchNothing, Ends, Settings
  <2>. QED BY <2>1, <2>2
<1>4. CASE DispatchMedia(event, f)
  BY <1>4, <1>2 DEF DispatchMedia, Starts, Begun, Kinds
<1>5. CASE DispatchStep(event, f)
  <2> DEFINE value == Clamp(level + Functions[f].by)
  <2>1. value \in Int
    <3>1. level + Functions[f].by \in Int
      BY <1>1, <1>2
    <3>. QED BY <3>1, <1>1, ClampFacts
  <2>2. Functions[f].does = "step" /\ level' = level /\ flag' = flag
    BY <1>5 DEF DispatchStep
  <2>3. CASE value # level
    BY <2>1, <2>2, <2>3, <1>5 DEF DispatchStep, Starts, Begun, Kinds
  <2>4. CASE value = level
    <3>1. Effect(f, Settings) = [Settings EXCEPT !.level = Clamp(Settings.level + Functions[f].by)]
      BY <2>2 DEF Effect
    <3>2. Settings' = Effect(f, Settings)
      BY <3>1, <2>2, <2>4 DEF Settings
    <3>. QED BY <3>2, <2>2, <2>4, <1>1, <1>5 DEF DispatchStep, Ends
  <2>. QED BY <2>3, <2>4
<1>6. CASE DispatchCommand(event, f)
  <2>1. IF Functions[f].does = "toggle" THEN 1 - flag \in Int ELSE 0 \in Int
    BY <1>1
  <2>. QED BY <2>1, <1>2, <1>6 DEF DispatchCommand, Starts, Begun, Kinds
<1>7. CASE DispatchMark(event, f)
  <2>1. Functions[f].does = "mark" /\ level' = level /\ flag' = Functions[f].by
    BY <1>7 DEF DispatchMark
  <2>2. Effect(f, Settings) = [Settings EXCEPT !.flag = Functions[f].by]
    BY <2>1 DEF Effect
  <2>3. Settings' = Effect(f, Settings)
    BY <2>1, <2>2 DEF Settings
  <2>. QED BY <2>1, <2>3, <1>1, <1>2, <1>7 DEF DispatchMark, Ends
<1>. QED BY <1>3, <1>4, <1>5, <1>6, <1>7 DEF Execute

LEMMA DispatchFacts ==
    ASSUME ConstantsOK, TypeOK, BlankInv, Dispatch
    PROVE  /\ Head(queue) \in Events /\ queue # <<>> /\ queue' = Tail(queue) /\ running = NotRunning
           /\ UNCHANGED <<presses, daemon, chords, sending, polls, lost, crossed>>
           /\ \E runs \in Names : \/ \E value \in Int : Starts(Head(queue), runs, value)
                                  \/ \E ok \in BOOLEAN : Ends(Head(queue), runs, ok)
<1> DEFINE e == Head(queue)
<1>1. /\ queue # <<>> /\ queue' = Tail(queue) /\ running = NotRunning
      /\ UNCHANGED <<presses, daemon, chords, sending, polls, lost, crossed>>
  BY DEF Dispatch, controllerVars, listVars, pollVars
<1>2. e \in Events
  BY <1>1, TailFacts DEF TypeOK
<1>3. \A f \in Runs(e) : f \in Names
  BY <1>2, RunsFacts DEF Names
<1>4. ASSUME NEW runs, DispatchNothing(e, runs), (Runs(e) = {} /\ runs = "") \/ runs \in Runs(e)
      PROVE  runs \in Names /\ Ends(e, runs, FALSE)
  BY <1>3, <1>4 DEF DispatchNothing, Ends, Settings, TypeOK, Names
<1>5. ASSUME NEW f \in Runs(e), Execute(e, f)
      PROVE  f \in Names /\ (\/ \E value \in Int : Starts(e, f, value)
                             \/ \E ok \in BOOLEAN : Ends(e, f, ok))
  BY <1>2, <1>3, <1>5, ExecuteFacts
<1> HIDE DEF e
<1>6. \/ Runs(e) = {} /\ DispatchNothing(e, "")
      \/ \E f \in Runs(e) \cap blocked : DispatchNothing(e, f)
      \/ \E f \in Runs(e) \ blocked : Execute(e, f)
  BY DEF Dispatch, e
<1>. QED BY <1>1, <1>2, <1>4, <1>5, <1>6 DEF e

LEMMA StartsMoves ==
    ASSUME TypeOK, BlankInv, PlacesInv, queue # <<>>, queue' = Tail(queue), running = NotRunning,
           UNCHANGED <<presses, daemon, polls, lost>>,
           NEW runs, NEW value, Starts(Head(queue), runs, value)
    PROVE  /\ Move(Head(queue).press, 3, 4) /\ done' = done
           /\ running' = [event |-> Head(queue), runs |-> runs, value |-> value]
<1> DEFINE x == Head(queue).press
<1>1. /\ running' = [event |-> Head(queue), runs |-> runs, value |-> value] /\ done' = done
      /\ queue \in Seq(Events)
  BY DEF Starts, Begun, TypeOK
<1>2. \A r : Queued(r) <=> Queued(r)' \/ r = x
  BY <1>1, TailFacts DEF Queued
<1>3. In(x, 3)
  BY <1>2 DEF In
<1>4. x \in Known /\ x # 0
  <2>1. x \in Known
    BY <1>3 DEF PlacesInv, OnePlace
  <2>. QED BY <2>1 DEF Known
<1>5. \A r : Queued(r)' <=> Queued(r) /\ r # x
  <2>1. Distinct(queue) => ~Has(Tail(queue), x)
    BY <1>1, TailFacts
  <2>2. ~Has(queue', x)
    BY <2>1 DEF PlacesInv
  <2>. QED BY <2>2, <1>2 DEF Queued
<1>6. \A r : /\ Pending(r)' <=> Pending(r)
             /\ Polled(r)' <=> Polled(r)
             /\ Underway(r)' <=> r = x
             /\ ~Underway(r)
             /\ Finished(r)' <=> Finished(r)
             /\ r \in lost' <=> r \in lost
  BY <1>1, <1>4 DEF Pending, Polled, Finished, Underway, NotRunning, Nothing
<1> HIDE DEF x
<1>7. Move(x, 3, 4)
  BY <1>3, <1>4, <1>5, <1>6 DEF Move, In
<1>. QED BY <1>1, <1>7 DEF x

LEMMA EndsMoves ==
    ASSUME TypeOK, BlankInv, PlacesInv, queue # <<>>, queue' = Tail(queue), running = NotRunning,
           UNCHANGED <<presses, daemon, polls, lost>>,
           NEW runs, NEW ok, Ended(Head(queue), runs, ok), running' = running,
           runs \in Names, ok \in BOOLEAN, level' \in Int, flag' \in Int
    PROVE  /\ Move(Head(queue).press, 3, 5)
           /\ \E result \in Results : done' = Append(done, result) /\ result.press = Head(queue).press
<1> DEFINE x == Head(queue).press
           result == [press |-> x, runs |-> runs, ok |-> ok, version |-> chords.version,
                      level |-> level', flag |-> flag']
<1>1. /\ done' = Append(done, result) /\ queue \in Seq(Events) /\ done \in Seq(Results)
      /\ Head(queue) \in Events
  BY TailFacts DEF Ended, TypeOK
<1>2. x \in Nat /\ chords.version \in Nat
  BY <1>1 DEF Events, TypeOK, Numbered
<1>3. result \in Results /\ result.press = x
  BY <1>2 DEF Results
<1> HIDE DEF result
<1>4. \A r : Queued(r) <=> Queued(r)' \/ r = x
  BY <1>1, TailFacts DEF Queued
<1>5. In(x, 3)
  BY <1>4 DEF In
<1>6. x \in Known
  BY <1>5 DEF PlacesInv, OnePlace
<1>7. \A r : Queued(r)' <=> Queued(r) /\ r # x
  <2>1. Distinct(queue) => ~Has(Tail(queue), x)
    BY <1>1, TailFacts
  <2>2. ~Has(queue', x)
    BY <2>1 DEF PlacesInv
  <2>. QED BY <2>2, <1>4 DEF Queued
<1>8. \A r : Finished(r)' <=> Finished(r) \/ r = x
  BY <1>1, <1>3, AppendFacts DEF Finished
<1>9. \A r : /\ Pending(r)' <=> Pending(r)
             /\ Polled(r)' <=> Polled(r)
             /\ Underway(r)' <=> Underway(r)
             /\ r \in lost' <=> r \in lost
  BY DEF Pending, Polled, Underway
<1> HIDE DEF x
<1>10. Move(x, 3, 5)
  BY <1>5, <1>6, <1>7, <1>8, <1>9 DEF Move, In
<1>. QED BY <1>1, <1>3, <1>10 DEF x

LEMMA ExecuteEndsMoves ==
    ASSUME TypeOK, BlankInv, PlacesInv, NEW ok \in BOOLEAN, ExecuteEnds(ok), level' \in Int, flag' \in Int
    PROVE  /\ Move(running.event.press, 4, 5)
           /\ \E result \in Results :
                 done' = Append(done, result) /\ result.press = running.event.press
           /\ running' = NotRunning /\ UNCHANGED <<presses, daemon, polls, queue, lost>>
<1> DEFINE x == running.event.press
           result == [press |-> x, runs |-> running.runs, ok |-> ok, version |-> chords.version,
                      level |-> level', flag |-> flag']
<1>1. /\ done' = Append(done, result) /\ done \in Seq(Results) /\ running # NotRunning
      /\ running' = NotRunning /\ UNCHANGED <<presses, daemon, polls, queue, lost>>
  BY DEF ExecuteEnds, Ended, TypeOK, controllerVars, pollVars
<1>2. x \in Nat /\ chords.version \in Nat /\ running.runs \in Names
  BY DEF Events, TypeOK, Numbered
<1>3. result \in Results /\ result.press = x
  BY <1>2 DEF Results
<1> HIDE DEF result
<1>4. x # 0 /\ In(x, 4)
  BY <1>1 DEF BlankInv, In, Underway
<1>5. x \in Known
  BY <1>4 DEF PlacesInv, OnePlace
<1>6. \A r : Finished(r)' <=> Finished(r) \/ r = x
  BY <1>1, <1>3, AppendFacts DEF Finished
<1>7. \A r : /\ Pending(r)' <=> Pending(r)
             /\ Polled(r)' <=> Polled(r)
             /\ Queued(r)' <=> Queued(r)
             /\ Underway(r)' <=> Underway(r) /\ r # x
             /\ r \in lost' <=> r \in lost
  BY <1>1 DEF Pending, Polled, Queued, Underway, NotRunning, Nothing
<1> HIDE DEF x
<1>8. Move(x, 4, 5)
  BY <1>1, <1>4, <1>5, <1>6, <1>7 DEF Move, In
<1>. QED BY <1>1, <1>3, <1>8 DEF x

\* Forgotten events are lost, and the others are where they were.
LEMMA ArriveMoves ==
    ASSUME TypeOK, PlacesInv, BindingsArrive
    PROVE  /\ OnePlace' /\ (InOrder => InOrder')
           /\ daemon'.pending = <<>> /\ daemon'.chords = Head(sending)
           /\ UNCHANGED <<presses, polls, queue, running, done, crossed>>
<1>1. /\ daemon' = [chords |-> Head(sending), pending |-> <<>>]
      /\ lost' = lost \cup {e.press : e \in ToSet(daemon.pending)}
      /\ UNCHANGED <<presses, polls, queue, running, done, crossed>>
  BY DEF BindingsArrive, controllerVars, pollVars, actionVars
<1>2. \A r : r \in lost' <=> r \in lost \/ Pending(r)
  BY <1>1 DEF ToSet, Pending, Has
<1>3. \A r : ~Pending(r)'
  BY <1>1 DEF Pending, Has
<1>4. \A r : /\ Polled(r)' <=> Polled(r)
             /\ Queued(r)' <=> Queued(r)
             /\ Underway(r)' <=> Underway(r)
             /\ Finished(r)' <=> Finished(r)
  BY <1>1 DEF Polled, Queued, Underway, Finished
<1>5. Known' = Known
  BY <1>1 DEF Known
<1>6. \A r : \A s \in 1..6 : In(r, s)' <=> s # 1 /\ (In(r, s) \/ (s = 6 /\ In(r, 1)))
  <2> SUFFICES ASSUME NEW r, NEW s \in 1..6
               PROVE  In(r, s)' <=> s # 1 /\ (In(r, s) \/ (s = 6 /\ In(r, 1)))
    OBVIOUS
  <2>1. In(r, 1) <=> Pending(r)
    BY DEF In
  <2>2. CASE s = 1
    BY <2>2, <1>3 DEF In
  <2>3. CASE s = 6
    BY <2>1, <2>3, <1>2 DEF In
  <2>4. CASE s \in 2..5
    BY <2>4, <1>4 DEF In
  <2>. QED BY <2>2, <2>3, <2>4
<1>7. OnePlace'
  <2>1. ASSUME NEW r \in Known PROVE \E s \in 1..6 : In(r, s)'
    <3>1. PICK s \in 1..6 : In(r, s)
      BY DEF PlacesInv, OnePlace
    <3>2. CASE s = 1
      <4>1. In(r, 6)'
        BY <3>1, <3>2, <1>2 DEF In
      <4>. QED BY <4>1
    <3>3. CASE s # 1
      BY <3>1, <3>3, <1>6
    <3>. QED BY <3>2, <3>3
  <2>2. ASSUME NEW r, NEW s \in 1..6, NEW t \in 1..6, In(r, s)', In(r, t)' PROVE s = t
    <3>1. \A u \in 1..6 : \A v \in 1..6 : In(r, u) /\ In(r, v) => u = v
      BY DEF PlacesInv, OnePlace
    <3>. QED BY <2>2, <3>1, <1>6
  <2>3. ASSUME NEW r, NEW s \in 1..6, In(r, s)' PROVE r \in Known
    BY <2>3, <1>6 DEF PlacesInv, OnePlace
  <2>. QED BY <2>1, <2>2, <2>3, <1>5 DEF OnePlace
<1>8. ASSUME InOrder PROVE InOrder'
  BY <1>5, <1>6, <1>8 DEF InOrder
<1>. QED BY <1>1, <1>7, <1>8

\* Presses may be entered, none of a button that made a chord, each for what it means.
Pressed ==
    /\ OnePlace' /\ (InOrder => InOrder')
    /\ daemon' \in [chords : Numbered, pending : Seq(Events)] /\ daemon'.chords = daemon.chords
    /\ Rising(daemon'.pending) /\ lost' \subseteq Nat /\ presses' \in Seq(Presses)
    /\ Len(presses') >= Len(presses)
    /\ \A p \in Known : presses'[p] = presses[p]
    /\ \A p \in Known' : p \notin Known => ~presses'[p].again
    /\ \A i \in DOMAIN daemon'.pending :
          \/ \E j \in DOMAIN daemon.pending : daemon'.pending[i] = daemon.pending[j]
          \/ Means(presses', chords', daemon'.pending[i])
    /\ UNCHANGED <<chords, sending, polls, crossed, queue, running, level, flag, spawned, done>>

\* The event stands for the press.
StandsFor(event, press) ==
    /\ ~press.again /\ press.version <= chords.version
    /\ press.version = chords.version => Runs(event) = {press.runs}

LEMMA PressedFacts ==
    ASSUME ConstantsOK, TypeOK, PlacesInv,
           NEW events \in Seq(Events), NEW new \in Seq(Presses), Len(new) = Len(events),
           \A i \in DOMAIN events : /\ events[i].press = Len(presses) + i
                                    /\ StandsFor(events[i], new[i]),
           presses' = presses \o new, Enqueue(events),
           UNCHANGED <<chords, sending, polls, crossed, queue, running, level, flag, spawned, done>>
    PROVE  Pressed
<1>1. /\ MaxEvents \in Nat /\ Rising(daemon.pending) /\ presses \in Seq(Presses)
      /\ Len(presses) \in Nat /\ Len(events) \in Nat /\ DOMAIN events = 1..Len(events)
      /\ DOMAIN new = DOMAIN events
  <2>1. MaxEvents \in Nat
    BY DEF ConstantsOK
  <2>2. presses \in Seq(Presses)
    BY DEF TypeOK
  <2>3. Rising(daemon.pending)
    BY DEF PlacesInv
  <2>. QED BY <2>1, <2>2, <2>3
<1>2. \A p : Pending(p) => p \in Known
  <2>1. ASSUME NEW p, Pending(p) PROVE p \in Known
    <3>1. In(p, 1)
      BY <2>1 DEF In
    <3>. QED BY <3>1 DEF PlacesInv, OnePlace
  <2>. QED BY <2>1
<1>3. /\ \E k \in Nat : Entered(events, k)
      /\ daemon' \in [chords : Numbered, pending : Seq(Events)] /\ lost' \subseteq Nat
      /\ presses' \in Seq(Presses) /\ Rising(daemon'.pending)
      /\ \A i \in DOMAIN new : presses'[Len(presses) + i] = new[i]
  BY <1>1, <1>2, NewPresses
<1>4. PICK k \in Nat : Entered(events, k)
  BY <1>3
<1>5. \A p : \A s \in 2..5 : In(p, s)' <=> In(p, s)
  <2>1. \A p : /\ Polled(p)' <=> Polled(p)
               /\ Queued(p)' <=> Queued(p)
               /\ Underway(p)' <=> Underway(p)
               /\ Finished(p)' <=> Finished(p)
    BY DEF Polled, Queued, Underway, Finished
  <2>. QED BY <2>1 DEF In
<1>6. OnePlace' /\ (InOrder => InOrder')
  BY <1>1, <1>4, <1>5, EnteredFacts DEF PlacesInv
<1>7. /\ daemon'.chords = daemon.chords /\ \A p \in Known : presses'[p] = presses[p]
      /\ Len(presses') = Len(presses) + Len(events)
      /\ \A i \in DOMAIN daemon'.pending :
            \/ \E j \in DOMAIN daemon.pending : daemon'.pending[i] = daemon.pending[j]
            \/ \E j \in DOMAIN events : daemon'.pending[i] = events[j]
  BY <1>4 DEF Entered
<1>8. ASSUME NEW j \in DOMAIN events
      PROVE  Means(presses', chords', events[j])
  <2>1. presses'[events[j].press] = new[j]
    BY <1>1, <1>3
  <2>2. Runs(events[j]) = RunsIn(chords.list, events[j])
    BY DEF Runs, RunsIn
  <2>. QED BY <2>1, <2>2 DEF Means, StandsFor
<1>9. \A p \in Known' : p \notin Known => ~presses'[p].again
  <2> SUFFICES ASSUME NEW p \in Known', p \notin Known PROVE ~presses'[p].again
    OBVIOUS
  <2>1. p - Len(presses) \in DOMAIN events /\ Len(presses) + (p - Len(presses)) = p
    BY <1>1, <1>7 DEF Known
  <2>2. presses'[p] = new[p - Len(presses)]
    BY <2>1, <1>1, <1>3
  <2>. QED BY <2>1, <2>2 DEF StandsFor
<1>10. ASSUME NEW i \in DOMAIN daemon'.pending
       PROVE  \/ \E j \in DOMAIN daemon.pending : daemon'.pending[i] = daemon.pending[j]
              \/ Means(presses', chords', daemon'.pending[i])
  BY <1>7, <1>8
<1>11. Len(presses') >= Len(presses)
  BY <1>1, <1>7
<1>. QED BY <1>3, <1>6, <1>7, <1>9, <1>10, <1>11 DEF Pressed

\* The chords that strike: their buttons have not made one, and are consumed from now on.
LEMMA StruckFacts ==
    ASSUME TypeOK, NEW pressed, chorded \subseteq port.consumed
    PROVE  /\ Struck(pressed, port.consumed \cap pressed) \subseteq DOMAIN daemon.chords.list
           /\ IsFiniteSet(Struck(pressed, port.consumed \cap pressed))
           /\ \A s \in Struck(pressed, port.consumed \cap pressed) :
                 /\ daemon.chords.list[s].button \notin chorded
                 /\ daemon.chords.list[s].button \in Covered(pressed)
<1> DEFINE list == daemon.chords.list
           struck == Struck(pressed, port.consumed \cap pressed)
<1>1. list \in Lists
  BY DEF TypeOK, Numbered
<1>2. \A s \in struck : /\ s \in DOMAIN list
                        /\ list[s].starter \in pressed /\ list[s].button \in pressed
                        /\ list[s].button \notin port.consumed \cap pressed
  BY DEF Struck
<1>3. DOMAIN list = 1..Len(list) /\ Len(list) \in Nat
  BY <1>1 DEF Lists
<1>4. IsFiniteSet(struck)
  <2>1. IsFiniteSet(1..Len(list))
    BY <1>3, FS_Interval
  <2>. QED BY <1>2, <1>3, <2>1, FS_Subset
<1> HIDE DEF struck
<1>5. ASSUME NEW s \in struck PROVE list[s].button \in Covered(pressed)
  <2>1. list[s] \in ToSet(list)
    BY <1>2 DEF ToSet
  <2>2. {list[s].starter, list[s].button} \subseteq pressed
    BY <1>2
  <2>. QED BY <2>1, <2>2 DEF Covered
<1>. QED BY <1>2, <1>4, <1>5 DEF struck

LEMMA StrikeFacts ==
    ASSUME ConstantsOK, TypeOK, PlacesInv, VersionsInv,
           NEW slots, NEW n \in Nat, slots \in [1..n -> DOMAIN daemon.chords.list],
           \A i \in 1..n : daemon.chords.list[slots[i]].button \notin chorded,
           Strike(slots),
           UNCHANGED <<chords, sending, polls, crossed, queue, running, level, flag, spawned, done>>
    PROVE  Pressed
<1> DEFINE list == daemon.chords.list
           eventOf(i) == [press |-> Len(presses) + i, slot |-> slots[i], shortcut |-> ""]
           pressOf(i) == [version |-> daemon.chords.version, runs |-> list[slots[i]].runs,
                          again |-> list[slots[i]].button \in chorded]
<1>1. /\ DOMAIN slots = 1..n /\ \A i \in 1..n : slots[i] \in DOMAIN list
      /\ Len(presses) \in Nat /\ daemon.chords.version \in Nat
  BY DEF TypeOK, Numbered
<1>2. /\ \A i \in DOMAIN list : list[i].runs \in DOMAIN Functions
      /\ DOMAIN list \subseteq Nat
  <2>1. list \in Seq([starter : Starters, button : Buttons, runs : DOMAIN Functions])
    BY DEF TypeOK, Numbered, Lists
  <2>2. \A i \in DOMAIN list : list[i] \in [starter : Starters, button : Buttons, runs : DOMAIN Functions]
    BY <2>1, ElementFacts
  <2>3. DOMAIN list \subseteq Nat
    BY <2>1
  <2>. QED BY <2>2, <2>3
<1>3. \A i \in 1..n : /\ eventOf(i) \in Events /\ eventOf(i).press = Len(presses) + i
                       /\ eventOf(i).shortcut = "" /\ eventOf(i).slot = slots[i]
  BY <1>1, <1>2 DEF Events, Names
<1>4. \A i \in 1..n : /\ pressOf(i) \in Presses /\ ~pressOf(i).again
                       /\ pressOf(i).version = daemon.chords.version
                       /\ pressOf(i).runs = list[slots[i]].runs
  <2> SUFFICES ASSUME NEW i \in 1..n
               PROVE  /\ pressOf(i) \in Presses /\ ~pressOf(i).again
                      /\ pressOf(i).version = daemon.chords.version
                      /\ pressOf(i).runs = list[slots[i]].runs
    OBVIOUS
  <2>1. /\ daemon.chords.version \in Nat /\ list[slots[i]].runs \in DOMAIN Functions
        /\ (list[slots[i]].button \in chorded) \in BOOLEAN
    BY <1>1, <1>2
  <2>2. pressOf(i) \in Presses
    BY <2>1 DEF Presses
  <2>3. pressOf(i).again = (list[slots[i]].button \in chorded)
    BY Zenon
  <2>4. ~pressOf(i).again
    BY <2>3
  <2>5. pressOf(i).version = daemon.chords.version /\ pressOf(i).runs = list[slots[i]].runs
    BY Zenon
  <2>. QED BY <2>2, <2>4, <2>5
<1>5. PICK events, new : /\ events = [i \in 1..n |-> eventOf(i)] /\ new = [i \in 1..n |-> pressOf(i)]
                         /\ presses' = presses \o new /\ Enqueue(events)
  BY <1>1 DEF Strike
<1> HIDE DEF eventOf, pressOf
<1>6. /\ events \in Seq(Events) /\ new \in Seq(Presses) /\ Len(events) = n /\ Len(new) = n
      /\ DOMAIN events = 1..n /\ \A i \in 1..n : events[i] = eventOf(i) /\ new[i] = pressOf(i)
  <2>1. events \in [1..n -> Events] /\ new \in [1..n -> Presses]
    BY <1>3, <1>4, <1>5
  <2>. QED BY <2>1, <1>5, FunctionFacts
<1>7. ASSUME NEW i \in 1..n
      PROVE  events[i].press = Len(presses) + i /\ StandsFor(events[i], new[i])
  <2>1. ~new[i].again /\ new[i].version <= chords.version
    BY <1>4, <1>6 DEF VersionsInv
  <2>2. ASSUME daemon.chords.version = chords.version
        PROVE  Runs(events[i]) = {list[slots[i]].runs}
    <3>1. chords.list = list
      BY <2>2 DEF VersionsInv
    <3>2. events[i].shortcut = "" /\ events[i].slot = slots[i]
      BY <1>3, <1>6
    <3>3. Runs(events[i]) = {chords.list[s].runs : s \in {slots[i]} \cap DOMAIN chords.list}
      BY <3>2 DEF Runs
    <3>. QED BY <3>1, <3>3, <1>1
  <2>. QED BY <2>1, <2>2, <1>3, <1>4, <1>6 DEF StandsFor
<1>. QED BY <1>5, <1>6, <1>7, PressedFacts

LEMMA FirmwarePressed ==
    ASSUME ConstantsOK, TypeOK, PlacesInv, NEW shortcut \in Shortcuts, FirmwareShortcut(shortcut)
    PROVE  Pressed /\ UNCHANGED <<port, shown, chorded>>
<1> DEFINE event == [press |-> Len(presses) + 1, slot |-> 0, shortcut |-> shortcut]
           press == [version |-> 0, runs |-> shortcut, again |-> FALSE]
<1>1. shortcut \in DOMAIN Functions /\ shortcut # ""
  BY Zenon DEF ConstantsOK
<1>0. Len(presses) \in Nat /\ chords.version \in Nat
  BY DEF TypeOK, Numbered
<1>2. event \in Events /\ event.press = Len(presses) + 1
  <2>1. Len(presses) + 1 \in Nat /\ 0 \in Nat
    BY <1>0
  <2>2. shortcut \in Names
    BY <1>1, Zenon DEF Names
  <2>3. event \in Events
    BY <2>1, <2>2 DEF Events
  <2>. QED BY <2>3
<1>3. press \in Presses
  BY <1>1 DEF Presses
<1>4. StandsFor(event, press)
  <2>1. Runs(event) = {shortcut} /\ press.runs = shortcut
    BY <1>1 DEF Runs
  <2>2. ~press.again /\ press.version <= chords.version
    BY <1>0
  <2>. QED BY <2>1, <2>2 DEF StandsFor
<1>5. /\ presses' = Append(presses, press) /\ Enqueue(<<event>>)
      /\ UNCHANGED <<port, shown, chorded>>
      /\ UNCHANGED <<chords, sending, polls, crossed, queue, running, level, flag, spawned, done>>
  BY DEF FirmwareShortcut, listVars, pollVars, actionVars
<1> HIDE DEF event, press
<1>6. presses' = presses \o <<press>>
  BY <1>3, <1>5 DEF TypeOK
<1>7. /\ <<event>> \in Seq(Events) /\ <<press>> \in Seq(Presses)
      /\ Len(<<event>>) = 1 /\ Len(<<press>>) = 1 /\ DOMAIN <<event>> = {1}
      /\ <<event>>[1] = event /\ <<press>>[1] = press
  BY <1>2, <1>3
<1>8. Pressed
  BY <1>2, <1>4, <1>5, <1>6, <1>7, PressedFacts
<1>. QED BY <1>5, <1>8

LEMMA InputPressed ==
    ASSUME ConstantsOK, TypeOK, PlacesInv, VersionsInv, InputInv,
           NEW pressed \in SUBSET (Starters \cup Buttons), Input(pressed)
    PROVE  /\ Pressed
           /\ port' \in [previous : SUBSET (Starters \cup Buttons), consumed : SUBSET (Starters \cup Buttons)]
           /\ chorded' \subseteq port'.consumed /\ shown' \cap chorded' = {}
<1> DEFINE struck == Struck(pressed, port.consumed \cap pressed)
           buttons == {daemon.chords.list[s].button : s \in struck}
<1>1. TranslateInput(pressed)
      /\ UNCHANGED <<chords, sending, polls, crossed, queue, running, level, flag, spawned, done>>
  BY DEF Input, listVars, pollVars, actionVars
<1>2. CASE daemon.chords.list = <<>>
  <2>1. shown' = pressed /\ chorded' = {} /\ UNCHANGED <<port, daemon, presses, lost>>
    BY <1>1, <1>2 DEF TranslateInput
  <2>2. Stay
    <3>1. \A p : /\ Pending(p)' <=> Pending(p)
                 /\ Polled(p)' <=> Polled(p)
                 /\ Queued(p)' <=> Queued(p)
                 /\ Underway(p)' <=> Underway(p)
                 /\ Finished(p)' <=> Finished(p)
                 /\ p \in lost' <=> p \in lost
      BY <1>1, <2>1 DEF Pending, Polled, Queued, Underway, Finished
    <3>. QED BY <2>1, <3>1 DEF Stay, In
  <2>3. OnePlace' /\ (InOrder => InOrder')
    BY <2>2, StayFacts DEF PlacesInv
  <2>4. /\ daemon \in [chords : Numbered, pending : Seq(Events)] /\ Rising(daemon.pending)
        /\ lost \subseteq Nat /\ presses \in Seq(Presses) /\ Len(presses) \in Nat /\ Known' = Known
    BY <2>1 DEF TypeOK, PlacesInv, Known
  <2>5. Pressed
    BY <1>1, <2>1, <2>3, <2>4 DEF Pressed
  <2>. QED BY <2>1, <2>5 DEF TypeOK
<1>3. CASE daemon.chords.list # <<>>
  <2>1. PICK slots \in Ordered(struck) :
           /\ port' = [previous |-> pressed, consumed |-> (port.consumed \cap pressed) \cup Covered(pressed)]
           /\ shown' = pressed \ port'.consumed
           /\ chorded' = (chorded \cap pressed) \cup buttons
           /\ Strike(slots)
    BY <1>1, <1>3 DEF TranslateInput
  <2>2. /\ struck \subseteq DOMAIN daemon.chords.list /\ IsFiniteSet(struck)
        /\ \A s \in struck : /\ daemon.chords.list[s].button \notin chorded
                             /\ daemon.chords.list[s].button \in Covered(pressed)
    BY StruckFacts DEF InputInv
  <2>3. /\ Cardinality(struck) \in Nat
        /\ slots \in [1..Cardinality(struck) -> struck]
    BY <2>2, FS_CardinalityType DEF Ordered
  <2> HIDE DEF struck
  <2>4. Pressed
    <3>1. /\ slots \in [1..Cardinality(struck) -> DOMAIN daemon.chords.list]
          /\ \A i \in 1..Cardinality(struck) : daemon.chords.list[slots[i]].button \notin chorded
      BY <2>2, <2>3
    <3>. QED BY <3>1, <2>1, <2>3, <1>1, StrikeFacts
  <2>5. port'.consumed = (port.consumed \cap pressed) \cup Covered(pressed)
    BY <2>1
  <2>6. chorded' \subseteq port'.consumed
    BY <2>1, <2>2, <2>5 DEF InputInv
  <2>7. Covered(pressed) \subseteq pressed
    BY DEF Covered
  <2>8. port' \in [previous : SUBSET (Starters \cup Buttons), consumed : SUBSET (Starters \cup Buttons)]
    BY <2>1, <2>7
  <2>. QED BY <2>1, <2>4, <2>6, <2>8
<1>. QED BY <1>2, <1>3

-----------------------------------------------------------------------------
(* The steps.                                                               *)

Polls == [{"timer", "status"} -> [state : {"idle", "asked", "served"}, event : Events]]
Ports == [previous : SUBSET (Starters \cup Buttons), consumed : SUBSET (Starters \cup Buttons)]

\* A step that moves no press.
Quiet ==
    /\ UNCHANGED <<port, shown, chorded, daemon, crossed, queue, running, level, flag, spawned,
                   presses, done, lost>>
    /\ polls' \in Polls
    /\ \A q \in DOMAIN polls : /\ polls'[q].event = polls[q].event
                               /\ polls'[q].state = "served" <=> polls[q].state = "served"
    /\ chords' \in Numbered /\ sending' \in Seq(Numbered) /\ VersionsInv'
    /\ chords' = chords \/ chords.version < chords'.version

LEMMA EditFacts ==
    ASSUME ConstantsOK, TypeOK, VersionsInv, SetChordAssignments
    PROVE  /\ chords' \in Numbered /\ sending' \in Seq(Numbered) /\ chords.version < chords'.version
           /\ VersionsInv'
<1>1. PICK list \in ChordLists : chords' = [version |-> chords.version + 1, list |-> list]
  BY DEF SetChordAssignments, Versioned
<1>2. list \in Lists
  BY DEF ConstantsOK, Lists
<1>3. chords.version \in Nat /\ sending \in Seq(Numbered) /\ daemon.chords.version \in Nat
  BY DEF TypeOK, Numbered
<1>4. chords' \in Numbered /\ chords'.version = chords.version + 1
  BY <1>1, <1>2, <1>3 DEF Numbered
<1>5. sending' = Append(sending, chords') /\ daemon' = daemon
  BY DEF SetChordAssignments
<1>6. \A i \in DOMAIN sending' : \/ sending'[i] = chords'
                                 \/ i \in DOMAIN sending /\ sending'[i] = sending[i]
  BY <1>3, <1>4, <1>5
<1>7. sending' \in Seq(Numbered)
  BY <1>3, <1>4, <1>5
<1>8. \A i \in DOMAIN sending : sending[i].version \in Nat /\ sending[i].version <= chords.version
  <2>1. \A i \in DOMAIN sending : sending[i] \in Numbered
    BY <1>3, ElementFacts
  <2>. QED BY <2>1 DEF VersionsInv, Numbered
<1>9. VersionsInv'
  BY <1>3, <1>4, <1>5, <1>6, <1>8 DEF VersionsInv
<1>. QED BY <1>3, <1>4, <1>7, <1>9

LEMMA FailFacts ==
    ASSUME TypeOK, VersionsInv, sending # <<>>
    PROVE  /\ Tail(sending) \in Seq(Numbered) /\ Head(sending) \in Numbered
           /\ Head(sending).version <= chords.version
           /\ Head(sending).version = chords.version => Head(sending) = chords
           /\ \A i \in DOMAIN Tail(sending) :
                 /\ Tail(sending)[i].version <= chords.version
                 /\ Tail(sending)[i].version = chords.version => Tail(sending)[i] = chords
<1>1. sending \in Seq(Numbered)
  BY DEF TypeOK
<1>2. /\ Tail(sending) \in Seq(Numbered) /\ Head(sending) \in Numbered
      /\ 1 \in DOMAIN sending /\ Head(sending) = sending[1]
      /\ \A i \in DOMAIN Tail(sending) : i + 1 \in DOMAIN sending /\ Tail(sending)[i] = sending[i + 1]
  BY <1>1
<1>. QED BY <1>2 DEF VersionsInv

LEMMA QuietFacts ==
    ASSUME ConstantsOK, TypeOK, VersionsInv,
           \/ BindingsFail \/ SetChordAssignments \/ ReapplyChordBindings
           \/ \E p \in DOMAIN polls : Ask(p)
           \/ RetryDue \/ UNCHANGED vars
    PROVE  Quiet
<1> USE DEF controllerVars, listVars, pollVars, actionVars
<1>1. CASE BindingsFail
  <2>1. /\ sending # <<>> /\ sending' = Tail(sending) /\ chords' = chords /\ daemon' = daemon
        /\ polls' = polls
        /\ UNCHANGED <<port, shown, chorded, daemon, crossed, queue, running, level, flag, spawned,
                       presses, done, lost>>
    BY <1>1 DEF BindingsFail
  <2>2. VersionsInv'
    BY <2>1, FailFacts DEF VersionsInv
  <2>. QED BY <2>1, <2>2, FailFacts DEF Quiet, TypeOK, Polls
<1>2. CASE SetChordAssignments
  <2>1. /\ polls' = polls
        /\ UNCHANGED <<port, shown, chorded, daemon, crossed, queue, running, level, flag, spawned,
                       presses, done, lost>>
    BY <1>2 DEF SetChordAssignments
  <2>. QED BY <1>2, <2>1, EditFacts DEF Quiet, TypeOK, Polls
<1>3. CASE ReapplyChordBindings
  <2>1. /\ sending' = <<chords>> /\ chords' = chords /\ daemon' = daemon /\ polls' = polls
        /\ UNCHANGED <<port, shown, chorded, daemon, crossed, queue, running, level, flag, spawned,
                       presses, done, lost>>
    BY <1>3 DEF ReapplyChordBindings
  <2>2. chords \in Numbered /\ chords.version \in Nat
    BY DEF TypeOK, Numbered
  <2>3. sending' \in Seq(Numbered) /\ \A i \in DOMAIN sending' : sending'[i] = chords
    BY <2>1, <2>2
  <2>4. VersionsInv'
    BY <2>1, <2>2, <2>3 DEF VersionsInv
  <2>. QED BY <2>1, <2>2, <2>3, <2>4 DEF Quiet, TypeOK, Polls
<1>4. ASSUME NEW p \in DOMAIN polls, Ask(p) PROVE Quiet
  <2>1. /\ polls[p].state = "idle"
        /\ polls' = [polls EXCEPT ![p].state = "asked"] /\ UNCHANGED <<chords, sending, daemon>>
        /\ UNCHANGED <<port, shown, chorded, daemon, crossed, queue, running, level, flag, spawned,
                       presses, done, lost>>
    BY <1>4 DEF Ask
  <2>2. polls \in Polls
    BY DEF TypeOK, Polls
  <2>3. /\ polls' \in Polls
        /\ \A q \in DOMAIN polls : /\ polls'[q].event = polls[q].event
                                   /\ polls'[q].state = "served" <=> polls[q].state = "served"
    BY <2>1, <2>2 DEF Polls
  <2>4. VersionsInv'
    BY <2>1 DEF VersionsInv
  <2>. QED BY <2>1, <2>3, <2>4 DEF Quiet, TypeOK
<1>5. CASE RetryDue \/ UNCHANGED vars
  <2>1. /\ polls' = polls /\ UNCHANGED <<chords, sending, daemon>>
        /\ UNCHANGED <<port, shown, chorded, daemon, crossed, queue, running, level, flag, spawned,
                       presses, done, lost>>
    BY <1>5 DEF RetryDue, vars
  <2>2. VersionsInv'
    BY <2>1 DEF VersionsInv
  <2>. QED BY <2>1, <2>2 DEF Quiet, TypeOK, Polls
<1>. QED BY <1>1, <1>2, <1>3, <1>4, <1>5

\* The kinds of step.
Moving ==
    \/ BindingsArrive
    \/ \E p \in DOMAIN polls : Serve(p) \/ Receive(p) \/ PollFails(p)
    \/ Dispatch
    \/ \E ok \in BOOLEAN : ExecuteEnds(ok)

Reported ==
    /\ Pressed /\ port' \in Ports /\ chorded' \subseteq port'.consumed /\ shown' \cap chorded' = {}

LEMMA StepCases ==
    ASSUME ConstantsOK, Inv, [Next]_vars
    PROVE  Quiet \/ Reported \/ Moving
<1>1. TypeOK /\ PlacesInv /\ VersionsInv /\ InputInv
  BY DEF Inv
<1>2. ASSUME NEW pressed \in SUBSET (Starters \cup Buttons) \ {held}, Input(pressed) PROVE Reported
  BY <1>1, <1>2, InputPressed DEF Reported, Ports
<1>3. ASSUME NEW shortcut \in Shortcuts, FirmwareShortcut(shortcut) PROVE Reported
  <2>1. Pressed /\ UNCHANGED <<port, shown, chorded>>
    BY <1>1, <1>3, FirmwarePressed
  <2>. QED BY <2>1, <1>1 DEF Reported, Ports, TypeOK, InputInv
<1>4. CASE \/ BindingsFail \/ SetChordAssignments \/ ReapplyChordBindings
           \/ \E p \in DOMAIN polls : Ask(p)
           \/ RetryDue \/ UNCHANGED vars
  BY <1>1, <1>4, QuietFacts
<1>5. CASE ExecuteEnds(TRUE) \/ ExecuteEnds(FALSE)
  BY <1>5 DEF Moving
<1>. QED BY <1>2, <1>3, <1>4, <1>5 DEF Next, Moving

\* What the moving steps leave alone.
LEMMA MovingFacts ==
    ASSUME ConstantsOK, TypeOK, Moving
    PROVE  UNCHANGED <<port, shown, chorded, chords, presses>>
BY DEF Moving, BindingsArrive, Serve, Receive, PollFails, Dispatch, ExecuteEnds,
       controllerVars, listVars

LEMMA ExecuteEndsTypes ==
    ASSUME TypeOK, BlankInv, SettingsInv, NEW ok \in BOOLEAN, ExecuteEnds(ok)
    PROVE  level' \in Int /\ flag' \in Int
<1>1. running.value \in Int /\ level \in Int /\ flag \in Int
  BY DEF TypeOK
<1>. QED BY <1>1 DEF ExecuteEnds

LEMMA TypeStep ==
    ASSUME ConstantsOK, Inv, [Next]_vars PROVE TypeOK'
<1>0. TypeOK /\ BlankInv /\ PlacesInv /\ SettingsInv /\ VersionsInv
  BY DEF Inv
<1>1. CASE Quiet
  BY <1>0, <1>1 DEF Quiet, TypeOK, Polls
<1>2. CASE Reported
  BY <1>0, <1>2 DEF Reported, Pressed, TypeOK, Ports
<1>3. CASE BindingsArrive
  <2>1. /\ UNCHANGED <<port, chords, polls, crossed, queue, running, level, flag, presses, done>>
        /\ sending # <<>> /\ sending' = Tail(sending)
        /\ daemon' = [chords |-> Head(sending), pending |-> <<>>]
        /\ lost' = lost \cup {e.press : e \in ToSet(daemon.pending)}
    BY <1>3 DEF BindingsArrive, controllerVars, pollVars, actionVars
  <2>2. Head(sending) \in Numbered /\ sending' \in Seq(Numbered) /\ <<>> \in Seq(Events)
    BY <1>0, <2>1, FailFacts
  <2>3. lost' \subseteq Nat
    <3>1. \A i \in DOMAIN daemon.pending : daemon.pending[i] \in Events
      BY <1>0, ElementFacts DEF TypeOK
    <3>2. \A i \in DOMAIN daemon.pending : daemon.pending[i].press \in Nat
      BY <3>1 DEF Events
    <3>3. \A e \in ToSet(daemon.pending) : e.press \in Nat
      BY <3>2 DEF ToSet
    <3>4. lost \subseteq Nat
      BY <1>0 DEF TypeOK
    <3>. QED BY <3>3, <3>4, <2>1
  <2>4. daemon' \in [chords : Numbered, pending : Seq(Events)]
    BY <2>1, <2>2
  <2>. QED BY <1>0, <2>1, <2>2, <2>3, <2>4 DEF TypeOK
<1>4. ASSUME NEW p \in DOMAIN polls, Serve(p) PROVE TypeOK'
  <2>1. /\ UNCHANGED <<port, chords, sending, queue, running, level, flag, presses, done, lost>>
        /\ polls' = [polls EXCEPT ![p] = [state |-> "served",
                       event |-> IF daemon.pending = <<>> THEN Nothing ELSE Head(daemon.pending)]]
        /\ daemon' = [daemon EXCEPT !.pending = Remaining(daemon.pending)]
        /\ crossed' \in BOOLEAN
    BY <1>4, <1>0 DEF Serve, controllerVars, listVars, actionVars, TypeOK
  <2>2. Nothing \in Events
    BY DEF Nothing, Events, Names
  <2>3. daemon.pending \in Seq(Events) /\ daemon.chords \in Numbered
    BY <1>0 DEF TypeOK
  <2>4. Remaining(daemon.pending) \in Seq(Events)
    BY <2>3, TailFacts DEF Remaining
  <2>5. daemon' \in [chords : Numbered, pending : Seq(Events)]
    BY <1>0, <2>1, <2>4 DEF TypeOK
  <2>6. (IF daemon.pending = <<>> THEN Nothing ELSE Head(daemon.pending)) \in Events
    BY <2>2, <2>3, TailFacts
  <2>7. polls' \in Polls
    BY <1>0, <2>1, <2>6 DEF TypeOK, Polls
  <2>. QED BY <1>0, <2>1, <2>5, <2>7 DEF TypeOK, Polls
<1>5. ASSUME NEW p \in DOMAIN polls, Receive(p) PROVE TypeOK'
  <2>1. /\ UNCHANGED <<port, daemon, chords, sending, crossed, running, level, flag, presses, done, lost>>
        /\ polls' = [polls EXCEPT ![p] = Idle]
        /\ queue' = IF polls[p].event = Nothing THEN queue ELSE Append(queue, polls[p].event)
    BY <1>5 DEF Receive, controllerVars, listVars
  <2>2. Idle \in [state : {"idle", "asked", "served"}, event : Events]
    BY DEF Idle, Nothing, Events, Names
  <2>3. polls' \in Polls
    BY <1>0, <2>1, <2>2 DEF TypeOK, Polls
  <2>4. queue \in Seq(Events) /\ polls[p].event \in Events
    BY <1>0, PollFacts DEF TypeOK
  <2>5. queue' \in Seq(Events)
    BY <2>1, <2>4
  <2>. QED BY <1>0, <2>1, <2>3, <2>5 DEF TypeOK, Polls
<1>6. ASSUME NEW p \in DOMAIN polls, PollFails(p) PROVE TypeOK'
  <2>1. /\ UNCHANGED <<port, daemon, chords, sending, crossed, queue, running, level, flag, presses, done>>
        /\ polls' = [polls EXCEPT ![p] = Idle]
        /\ lost' = lost \cup ({polls[p].event.press} \ {0})
    BY <1>6 DEF PollFails, controllerVars, listVars, actionVars
  <2>2. Idle \in [state : {"idle", "asked", "served"}, event : Events]
    BY DEF Idle, Nothing, Events, Names
  <2>3. polls' \in Polls
    BY <1>0, <2>1, <2>2 DEF TypeOK, Polls
  <2>4. polls[p].event.press \in Nat
    BY <1>0, PollFacts DEF Events
  <2>. QED BY <1>0, <2>1, <2>3, <2>4 DEF TypeOK, Polls
<1>7. CASE Dispatch
  <2>1. /\ Head(queue) \in Events /\ queue # <<>> /\ queue' = Tail(queue) /\ running = NotRunning
        /\ UNCHANGED <<presses, daemon, chords, sending, polls, lost, crossed>>
        /\ \E runs \in Names : \/ \E value \in Int : Starts(Head(queue), runs, value)
                               \/ \E ok \in BOOLEAN : Ends(Head(queue), runs, ok)
    BY <1>0, <1>7, DispatchFacts
  <2>2. queue' \in Seq(Events) /\ port' = port
    <3>1. queue \in Seq(Events)
      BY <1>0 DEF TypeOK
    <3>2. queue' \in Seq(Events)
      BY <3>1, <2>1, TailFacts
    <3>3. port' = port
      BY <1>7 DEF Dispatch, controllerVars
    <3>. QED BY <3>2, <3>3
  <2>3. ASSUME NEW runs \in Names, NEW value \in Int, Starts(Head(queue), runs, value)
        PROVE  TypeOK'
    <3>1. /\ running' = [event |-> Head(queue), runs |-> runs, value |-> value] /\ done' = done
          /\ level' = level /\ flag' = flag
      BY <2>3 DEF Starts, Begun
    <3>2. running' \in [event : Events, runs : Names, value : Int]
      BY <3>1, <2>1
    <3>. QED BY <1>0, <2>1, <2>2, <3>1, <3>2 DEF TypeOK
  <2>4. ASSUME NEW runs \in Names, NEW ok \in BOOLEAN, Ends(Head(queue), runs, ok)
        PROVE  TypeOK'
    <3>1. /\ Ended(Head(queue), runs, ok) /\ running' = running /\ level' \in Int /\ flag' \in Int
      BY <2>4 DEF Ends
    <3>2. PICK result \in Results : done' = Append(done, result)
      BY <1>0, <2>1, <3>1, EndsMoves
    <3>3. done' \in Seq(Results)
      BY <1>0, <3>2 DEF TypeOK
    <3>. QED BY <1>0, <2>1, <2>2, <3>1, <3>3 DEF TypeOK
  <2>. QED BY <2>1, <2>3, <2>4
<1>8. ASSUME NEW ok \in BOOLEAN, ExecuteEnds(ok) PROVE TypeOK'
  <2>1. level' \in Int /\ flag' \in Int
    BY <1>0, <1>8, ExecuteEndsTypes
  <2>2. PICK result \in Results : done' = Append(done, result)
    BY <1>0, <1>8, <2>1, ExecuteEndsMoves
  <2>3. running' = NotRunning /\ UNCHANGED <<presses, daemon, polls, queue, lost>>
    BY <1>0, <1>8, <2>1, ExecuteEndsMoves
  <2>4. UNCHANGED <<port, chords, sending, crossed>>
    BY <1>8 DEF ExecuteEnds, controllerVars, listVars, pollVars
  <2>5. NotRunning \in [event : Events, runs : Names, value : Int]
    BY DEF NotRunning, Nothing, Events, Names
  <2>6. done' \in Seq(Results)
    BY <1>0, <2>2 DEF TypeOK
  <2>. QED BY <1>0, <2>1, <2>3, <2>4, <2>5, <2>6 DEF TypeOK
<1>. QED BY <1>1, <1>2, <1>3, <1>4, <1>5, <1>6, <1>7, <1>8, StepCases DEF Moving

LEMMA BlankStep ==
    ASSUME ConstantsOK, Inv, [Next]_vars PROVE BlankInv'
<1>0. TypeOK /\ BlankInv /\ PlacesInv /\ SettingsInv
  BY DEF Inv
<1>1. DOMAIN polls = {"timer", "status"} /\ DOMAIN polls' = {"timer", "status"}
  BY <1>0, TypeStep DEF TypeOK
<1>2. \A r : \A s \in 1..6 : In(r, s) => r # 0
  BY <1>0 DEF PlacesInv, OnePlace, Known
<1>20. Nothing.press = 0 /\ NotRunning.event = Nothing
  BY DEF Nothing, NotRunning
<1>3. CASE Quiet
  <2>1. running' = running
    BY <1>3 DEF Quiet
  <2>2. \A q \in DOMAIN polls : /\ polls'[q].event = polls[q].event
                                /\ polls'[q].state = "served" <=> polls[q].state = "served"
    BY <1>3 DEF Quiet
  <2>. QED BY <1>0, <1>1, <2>1, <2>2 DEF BlankInv
<1>4. CASE Reported
  BY <1>0, <1>1, <1>4 DEF Reported, Pressed, BlankInv
<1>5. CASE BindingsArrive
  <2>1. UNCHANGED <<polls, running>>
    BY <1>5 DEF BindingsArrive, pollVars, actionVars
  <2>. QED BY <1>0, <2>1 DEF BlankInv
<1>6. ASSUME NEW p \in DOMAIN polls, Serve(p) PROVE BlankInv'
  <2>1. /\ IF daemon.pending = <<>> THEN polls'[p].event = Nothing
           ELSE /\ Move(Head(daemon.pending).press, 1, 2)
                /\ polls'[p].event = Head(daemon.pending)
        /\ \A q \in DOMAIN polls : q # p => polls'[q] = polls[q]
    BY <1>0, <1>6, ServeMoves
  <2>2. polls'[p].state = "served" /\ running' = running
    <3>1. running' = running
      BY <1>6 DEF Serve, actionVars
    <3>2. polls'[p].state = "served"
      BY <1>0, <1>6, PollFacts DEF Serve
    <3>. QED BY <3>1, <3>2
  <2>3. polls'[p].event = Nothing \/ polls'[p].event.press # 0
    <3>1. ASSUME daemon.pending # <<>> PROVE Head(daemon.pending).press # 0
      BY <2>1, <3>1, <1>2 DEF Move
    <3>. QED BY <3>1, <2>1
  <2>. QED BY <2>1, <2>2, <2>3, <1>0, <1>1, <1>20 DEF BlankInv
<1>7. ASSUME NEW p \in DOMAIN polls, Receive(p) \/ PollFails(p) PROVE BlankInv'
  <2>1. polls'[p].event = Nothing /\ \A q \in DOMAIN polls : q # p => polls'[q] = polls[q]
    BY <1>0, <1>7, ReceiveMoves, PollFailsMoves
  <2>2. running' = running
    BY <1>7 DEF Receive, PollFails, actionVars
  <2>. QED BY <2>1, <2>2, <1>0, <1>1, <1>20 DEF BlankInv
<1>8. CASE Dispatch
  <2>1. /\ Head(queue) \in Events /\ queue # <<>> /\ queue' = Tail(queue) /\ running = NotRunning
        /\ UNCHANGED <<presses, daemon, polls, lost>>
        /\ \E runs \in Names : \/ \E value \in Int : Starts(Head(queue), runs, value)
                               \/ \E ok \in BOOLEAN : Ends(Head(queue), runs, ok)
    BY <1>0, <1>8, DispatchFacts
  <2>2. ASSUME NEW runs \in Names, NEW value \in Int, Starts(Head(queue), runs, value)
        PROVE  BlankInv'
    <3>1. /\ Move(Head(queue).press, 3, 4)
          /\ running' = [event |-> Head(queue), runs |-> runs, value |-> value]
      BY <1>0, <2>1, <2>2, StartsMoves
    <3>2. Head(queue).press # 0
      BY <3>1, <1>2 DEF Move
    <3>3. running' # NotRunning /\ running'.event.press # 0 /\ running'.runs = runs
      BY <3>1, <3>2, <1>20
    <3>4. runs \in DOMAIN Functions
      BY <1>0, <2>1, <2>2, RunsFacts DEF Starts
    <3>. QED BY <2>1, <3>3, <3>4, <1>0 DEF BlankInv
  <2>3. ASSUME NEW runs, NEW ok, Ends(Head(queue), runs, ok) PROVE BlankInv'
    BY <2>1, <2>3, <1>0 DEF Ends, BlankInv
  <2>. QED BY <2>1, <2>2, <2>3
<1>9. ASSUME NEW ok \in BOOLEAN, ExecuteEnds(ok) PROVE BlankInv'
  <2>1. running' = NotRunning /\ polls' = polls
    BY <1>9 DEF ExecuteEnds, pollVars
  <2>. QED BY <2>1, <1>0, <1>20 DEF BlankInv
<1>. QED BY <1>3, <1>4, <1>5, <1>6, <1>7, <1>8, <1>9, StepCases DEF Moving

LEMMA OrderCases ==
    ASSUME TypeOK, BlankInv, PlacesInv, OrderInv, ~crossed
    PROVE  /\ InOrder /\ Rising(queue) /\ Rising(done) /\ Rising(daemon.pending)
           /\ \A q, r \in DOMAIN polls : polls[q].event # Nothing /\ polls[r].event # Nothing => q = r
           /\ \A q \in DOMAIN polls : polls[q].event # Nothing =>
                 \A p : Polled(p) => p = polls[q].event.press
<1>1. \A q, r \in DOMAIN polls : polls[q].event # Nothing /\ polls[r].event # Nothing => q = r
  BY DEF OrderInv
<1>2. ASSUME NEW q \in DOMAIN polls, polls[q].event # Nothing, NEW p, Polled(p)
      PROVE  p = polls[q].event.press
  <2>1. PICK r \in DOMAIN polls : polls[r].event.press = p /\ p # 0
    BY <1>2 DEF Polled
  <2>2. Nothing.press = 0
    BY DEF Nothing
  <2>3. polls[r].event # Nothing
    BY <2>1, <2>2
  <2>. QED BY <2>1, <2>3, <1>1, <1>2
<1>. QED BY <1>1, <1>2 DEF OrderInv, PlacesInv

LEMMA PlacesStep ==
    ASSUME ConstantsOK, Inv, [Next]_vars PROVE PlacesInv'
<1>0. TypeOK /\ BlankInv /\ PlacesInv /\ SettingsInv /\ OnePlace
  BY DEF Inv, PlacesInv
<1>1. /\ daemon.pending \in Seq(Events) /\ queue \in Seq(Events) /\ done \in Seq(Results)
      /\ DOMAIN polls = {"timer", "status"} /\ DOMAIN polls' = {"timer", "status"}
  BY <1>0, TypeStep DEF TypeOK
<1>2. Nothing.press = 0
  BY DEF Nothing
<1>3. CASE Quiet
  <2>1. /\ UNCHANGED <<daemon, queue, running, presses, done, lost>>
        /\ \A q \in DOMAIN polls : polls'[q].event = polls[q].event
    BY <1>3 DEF Quiet
  <2>2. \A p : /\ Pending(p)' <=> Pending(p)
               /\ Polled(p)' <=> Polled(p)
               /\ Queued(p)' <=> Queued(p)
               /\ Underway(p)' <=> Underway(p)
               /\ Finished(p)' <=> Finished(p)
               /\ p \in lost' <=> p \in lost
    BY <1>1, <2>1 DEF Pending, Polled, Queued, Underway, Finished
  <2>3. Stay
    BY <2>1, <2>2 DEF Stay, In
  <2>4. OnePlace'
    BY <1>0, <2>3, StayFacts
  <2>. QED BY <1>0, <1>1, <2>1, <2>4 DEF PlacesInv
<1>4. CASE Reported
  BY <1>0, <1>4 DEF Reported, Pressed, PlacesInv
<1>5. CASE BindingsArrive
  <2>1. OnePlace' /\ daemon'.pending = <<>> /\ UNCHANGED <<polls, queue, done>>
    BY <1>0, <1>5, ArriveMoves
  <2>2. Rising(<<>>)
    BY DEF Rising
  <2>. QED BY <1>0, <2>1, <2>2 DEF PlacesInv
<1>6. ASSUME NEW p \in DOMAIN polls, Serve(p) PROVE PlacesInv'
  <2>1. /\ polls[p].event = Nothing
        /\ IF daemon.pending = <<>>
           THEN Stay /\ polls'[p].event = Nothing /\ daemon'.pending = <<>>
           ELSE /\ Move(Head(daemon.pending).press, 1, 2)
                /\ daemon'.pending = Tail(daemon.pending)
                /\ polls'[p].event = Head(daemon.pending)
        /\ \A q \in DOMAIN polls : q # p => polls'[q] = polls[q]
    BY <1>0, <1>6, ServeMoves
  <2>2. UNCHANGED <<queue, done>>
    BY <1>6 DEF Serve, actionVars
  <2>3. CASE daemon.pending = <<>>
    <3>1. OnePlace'
      BY <1>0, <2>1, <2>3, StayFacts
    <3>. QED BY <1>0, <1>1, <1>2, <2>1, <2>2, <2>3, <3>1 DEF PlacesInv
  <2>4. CASE daemon.pending # <<>>
    <3> DEFINE x == Head(daemon.pending).press
    <3>1. Move(x, 1, 2) /\ polls'[p].event.press = x
      BY <2>1, <2>4
    <3> HIDE DEF x
    <3>2. OnePlace'
      BY <1>0, <3>1, MoveFacts
    <3>3. Rising(daemon'.pending)
      BY <1>0, <1>1, <2>1, <2>4, TailFacts DEF PlacesInv
    <3>4. \A q \in DOMAIN polls : polls[q].event.press = x => x = 0
      <4>1. x \in Known /\ In(x, 1) /\ ~In(x, 2)
        BY <1>0, <3>1 DEF Move, OnePlace
      <4>. QED BY <4>1 DEF In, Polled
    <3>. QED BY <1>0, <1>1, <2>1, <2>2, <3>1, <3>2, <3>3, <3>4 DEF PlacesInv
  <2>. QED BY <2>3, <2>4
<1>7. ASSUME NEW p \in DOMAIN polls, Receive(p) PROVE PlacesInv'
  <2>1. /\ IF polls[p].event = Nothing THEN Stay /\ queue' = queue
           ELSE Move(polls[p].event.press, 2, 3) /\ queue' = Append(queue, polls[p].event)
        /\ polls'[p].event = Nothing
        /\ \A q \in DOMAIN polls : q # p => polls'[q] = polls[q]
    BY <1>0, <1>7, ReceiveMoves
  <2>2. UNCHANGED <<daemon, done>>
    BY <1>7 DEF Receive
  <2>3. \A q, r \in DOMAIN polls :
           polls'[q].event.press = polls'[r].event.press /\ polls'[q].event.press # 0 => q = r
    BY <1>0, <1>2, <2>1 DEF PlacesInv
  <2>4. CASE polls[p].event = Nothing
    <3>1. OnePlace' /\ queue' = queue
      BY <1>0, <2>1, <2>4, StayFacts
    <3>. QED BY <1>0, <1>1, <2>2, <2>3, <3>1 DEF PlacesInv
  <2>5. CASE polls[p].event # Nothing
    <3> DEFINE x == polls[p].event.press
    <3>1. Move(x, 2, 3) /\ queue' = Append(queue, polls[p].event) /\ polls[p].event \in Events
      BY <1>0, <2>1, <2>5, PollFacts
    <3>2. ~Has(queue, x)
      <4>1. In(x, 2) /\ ~In(x, 3)
        BY <1>0, <3>1 DEF Move, OnePlace
      <4>. QED BY <4>1 DEF In, Queued
    <3>3. Distinct(queue')
      BY <1>0, <1>1, <3>1, <3>2, AppendFacts DEF PlacesInv
    <3> HIDE DEF x
    <3>4. OnePlace'
      BY <1>0, <3>1, MoveFacts
    <3>. QED BY <1>0, <1>1, <2>2, <2>3, <3>3, <3>4 DEF PlacesInv
  <2>. QED BY <2>4, <2>5
<1>8. ASSUME NEW p \in DOMAIN polls, PollFails(p) PROVE PlacesInv'
  <2>1. /\ IF polls[p].event = Nothing THEN Stay ELSE Move(polls[p].event.press, 2, 6)
        /\ polls'[p].event = Nothing
        /\ \A q \in DOMAIN polls : q # p => polls'[q] = polls[q]
    BY <1>0, <1>8, PollFailsMoves
  <2>2. UNCHANGED <<daemon, queue, done>>
    BY <1>8 DEF PollFails, actionVars
  <2>3. \A q, r \in DOMAIN polls :
           polls'[q].event.press = polls'[r].event.press /\ polls'[q].event.press # 0 => q = r
    BY <1>0, <1>2, <2>1 DEF PlacesInv
  <2>4. OnePlace'
    BY <1>0, <2>1, StayFacts, MoveFacts
  <2>. QED BY <1>0, <1>1, <2>2, <2>3, <2>4 DEF PlacesInv
<1>9. CASE Dispatch
  <2>1. /\ Head(queue) \in Events /\ queue # <<>> /\ queue' = Tail(queue) /\ running = NotRunning
        /\ UNCHANGED <<presses, daemon, polls, lost>>
        /\ \E runs \in Names : \/ \E value \in Int : Starts(Head(queue), runs, value)
                               \/ \E ok \in BOOLEAN : Ends(Head(queue), runs, ok)
    BY <1>0, <1>9, DispatchFacts
  <2>2. Distinct(queue')
    BY <1>0, <1>1, <2>1, TailFacts DEF PlacesInv
  <2>3. ASSUME NEW runs \in Names, NEW value \in Int, Starts(Head(queue), runs, value)
        PROVE  PlacesInv'
    <3>1. Move(Head(queue).press, 3, 4) /\ done' = done
      BY <1>0, <2>1, <2>3, StartsMoves
    <3>2. OnePlace'
      BY <1>0, <3>1, MoveFacts
    <3>. QED BY <1>0, <2>1, <2>2, <3>1, <3>2 DEF PlacesInv
  <2>4. ASSUME NEW runs \in Names, NEW ok \in BOOLEAN, Ends(Head(queue), runs, ok)
        PROVE  PlacesInv'
    <3>1. /\ Ended(Head(queue), runs, ok) /\ running' = running /\ level' \in Int /\ flag' \in Int
      BY <2>4 DEF Ends
    <3>2. /\ Move(Head(queue).press, 3, 5)
          /\ \E result \in Results : done' = Append(done, result) /\ result.press = Head(queue).press
      BY <1>0, <2>1, <3>1, EndsMoves
    <3>3. PICK result \in Results : done' = Append(done, result) /\ result.press = Head(queue).press
      BY <3>2
    <3>4. OnePlace'
      BY <1>0, <3>2, MoveFacts
    <3>5. ~Has(done, result.press)
      <4>1. ~In(Head(queue).press, 5)
        BY <1>0, <3>2 DEF Move, OnePlace
      <4>. QED BY <3>3, <4>1 DEF In, Finished
    <3>6. Distinct(done')
      BY <1>0, <1>1, <3>3, <3>5, AppendFacts DEF PlacesInv
    <3>. QED BY <1>0, <2>1, <2>2, <3>4, <3>6 DEF PlacesInv
  <2>. QED BY <2>1, <2>3, <2>4
<1>10. ASSUME NEW ok \in BOOLEAN, ExecuteEnds(ok) PROVE PlacesInv'
  <2>1. level' \in Int /\ flag' \in Int
    BY <1>0, <1>10, ExecuteEndsTypes
  <2>2. /\ Move(running.event.press, 4, 5)
        /\ \E result \in Results :
              done' = Append(done, result) /\ result.press = running.event.press
        /\ UNCHANGED <<daemon, polls, queue>>
    BY <1>0, <1>10, <2>1, ExecuteEndsMoves
  <2>3. PICK result \in Results : done' = Append(done, result) /\ result.press = running.event.press
    BY <2>2
  <2>4. OnePlace'
    BY <1>0, <2>2, MoveFacts
  <2>5. ~Has(done, result.press)
    <3>1. ~In(running.event.press, 5)
      BY <1>0, <2>2 DEF Move, OnePlace
    <3>. QED BY <2>3, <3>1 DEF In, Finished
  <2>6. Distinct(done')
    BY <1>0, <1>1, <2>3, <2>5, AppendFacts DEF PlacesInv
  <2>. QED BY <1>0, <2>2, <2>4, <2>6 DEF PlacesInv
<1>. QED BY <1>3, <1>4, <1>5, <1>6, <1>7, <1>8, <1>9, <1>10, StepCases DEF Moving

LEMMA OrderStep ==
    ASSUME ConstantsOK, Inv, [Next]_vars PROVE OrderInv'
<1>0. TypeOK /\ BlankInv /\ PlacesInv /\ SettingsInv /\ OrderInv /\ OnePlace
  BY DEF Inv, PlacesInv
<1> SUFFICES ASSUME ~crossed'
             PROVE  /\ Rising(queue') /\ Rising(done') /\ InOrder'
                    /\ \A q, r \in DOMAIN polls' :
                          polls'[q].event # Nothing /\ polls'[r].event # Nothing => q = r
  BY DEF OrderInv, Nothing
<1>1. /\ daemon.pending \in Seq(Events) /\ queue \in Seq(Events) /\ done \in Seq(Results)
      /\ DOMAIN polls = {"timer", "status"} /\ DOMAIN polls' = {"timer", "status"}
  BY <1>0, TypeStep DEF TypeOK
<1>2. crossed \in BOOLEAN /\ (~crossed => crossed \in {FALSE})
  BY <1>0 DEF TypeOK
<1> DEFINE Ordered1 ==
             /\ InOrder /\ Rising(queue) /\ Rising(done) /\ Rising(daemon.pending)
             /\ \A q, r \in DOMAIN polls : polls[q].event # Nothing /\ polls[r].event # Nothing => q = r
             /\ \A q \in DOMAIN polls : polls[q].event # Nothing =>
                   \A p : Polled(p) => p = polls[q].event.press
<1>3. ~crossed => Ordered1
  BY <1>0, OrderCases
<1> HIDE DEF Ordered1
<1>4. CASE Quiet
  <2>1. /\ UNCHANGED <<daemon, queue, running, presses, done, lost, crossed>>
        /\ \A q \in DOMAIN polls : polls'[q].event = polls[q].event
    BY <1>4 DEF Quiet
  <2>2. \A p : /\ Pending(p)' <=> Pending(p)
               /\ Polled(p)' <=> Polled(p)
               /\ Queued(p)' <=> Queued(p)
               /\ Underway(p)' <=> Underway(p)
               /\ Finished(p)' <=> Finished(p)
               /\ p \in lost' <=> p \in lost
    BY <1>1, <2>1 DEF Pending, Polled, Queued, Underway, Finished
  <2>3. Stay
    BY <2>1, <2>2 DEF Stay, In
  <2>4. InOrder => InOrder'
    BY <1>0, <2>3, StayFacts
  <2>. QED BY <1>1, <1>3, <2>1, <2>4 DEF Ordered1
<1>5. CASE Reported
  BY <1>1, <1>3, <1>5 DEF Reported, Pressed, Ordered1
<1>6. CASE BindingsArrive
  BY <1>0, <1>1, <1>3, <1>6, ArriveMoves DEF Ordered1
<1>7. ASSUME NEW p \in DOMAIN polls, Serve(p)
      PROVE  /\ Rising(queue') /\ Rising(done') /\ InOrder'
             /\ \A q, r \in DOMAIN polls' :
                   polls'[q].event # Nothing /\ polls'[r].event # Nothing => q = r
  <2>1. /\ polls[p].event = Nothing
        /\ IF daemon.pending = <<>>
           THEN Stay /\ polls'[p].event = Nothing
           ELSE Move(Head(daemon.pending).press, 1, 2)
        /\ \A q \in DOMAIN polls : q # p => polls'[q] = polls[q]
    BY <1>0, <1>7, ServeMoves
  <2>2. /\ UNCHANGED <<queue, done>>
        /\ crossed' = (crossed \/ /\ daemon.pending # <<>>
                                  /\ \E q \in DOMAIN polls : polls[q].event # Nothing)
    BY <1>7 DEF Serve, actionVars
  <2>3. Ordered1
    BY <1>3, <2>2
  <2>4. CASE daemon.pending = <<>>
    <3>1. InOrder'
      BY <1>0, <2>1, <2>3, <2>4, StayFacts DEF Ordered1
    <3>. QED BY <1>1, <2>1, <2>2, <2>3, <2>4, <3>1 DEF Ordered1
  <2>5. CASE daemon.pending # <<>>
    <3> DEFINE x == Head(daemon.pending).press
    <3>1. Move(x, 1, 2)
      BY <2>1, <2>5
    <3>2. \A q \in DOMAIN polls : polls[q].event = Nothing
      BY <2>2, <2>5
    <3>3. \A r \in Known : In(r, 1) => r = x \/ x < r
      <4>1. \A r : Pending(r) => r = x \/ x < r
        BY <1>1, <2>3, <2>5, TailFacts DEF Pending, Ordered1
      <4>. QED BY <4>1 DEF In
    <3> HIDE DEF x
    <3>4. \A s : s \notin 1 + 1..2 - 1
      OBVIOUS
    <3>5. InOrder'
      BY <1>0, <2>3, <3>1, <3>3, <3>4, MoveFacts DEF Ordered1
    <3>. QED BY <1>1, <2>1, <2>2, <2>3, <3>2, <3>5 DEF Ordered1
  <2>. QED BY <2>4, <2>5
<1>8. ASSUME NEW p \in DOMAIN polls, Receive(p)
      PROVE  /\ Rising(queue') /\ Rising(done') /\ InOrder'
             /\ \A q, r \in DOMAIN polls' :
                   polls'[q].event # Nothing /\ polls'[r].event # Nothing => q = r
  <2>1. /\ IF polls[p].event = Nothing THEN Stay /\ queue' = queue
           ELSE Move(polls[p].event.press, 2, 3) /\ queue' = Append(queue, polls[p].event)
        /\ polls'[p].event = Nothing
        /\ \A q \in DOMAIN polls : q # p => polls'[q] = polls[q]
    BY <1>0, <1>8, ReceiveMoves
  <2>2. UNCHANGED <<done, crossed>>
    BY <1>8 DEF Receive
  <2>3. Ordered1
    BY <1>3, <2>2
  <2>4. \A q, r \in DOMAIN polls' : polls'[q].event # Nothing /\ polls'[r].event # Nothing => q = r
    BY <1>1, <2>1, <2>3 DEF Ordered1
  <2>5. CASE polls[p].event = Nothing
    <3>1. InOrder' /\ queue' = queue
      BY <1>0, <2>1, <2>3, <2>5, StayFacts DEF Ordered1
    <3>. QED BY <2>2, <2>3, <2>4, <3>1 DEF Ordered1
  <2>6. CASE polls[p].event # Nothing
    <3> DEFINE x == polls[p].event.press
    <3>1. Move(x, 2, 3) /\ queue' = Append(queue, polls[p].event) /\ polls[p].event \in Events
      BY <1>0, <2>1, <2>6, PollFacts
    <3>2. \A r \in Known : In(r, 2) => r = x \/ x < r
      BY <2>3, <2>6 DEF In, Ordered1
    <3>3. \A r : Has(queue, r) => r < x
      <4>1. x \in Known /\ In(x, 2)
        BY <3>1 DEF Move
      <4>2. ASSUME NEW r, Has(queue, r) PROVE r < x
        <5>1. In(r, 3)
          BY <4>2 DEF In, Queued
        <5>2. r \in Known
          BY <5>1, <1>0 DEF OnePlace
        <5>. QED BY <4>1, <5>1, <5>2, <2>3 DEF Ordered1, InOrder
      <4>. QED BY <4>2
    <3>4. Rising(queue')
      BY <1>1, <2>3, <3>1, <3>3, AppendFacts DEF Ordered1
    <3> HIDE DEF x
    <3>5. \A s : s \notin 2 + 1..3 - 1
      OBVIOUS
    <3>6. InOrder'
      BY <1>0, <2>3, <3>1, <3>2, <3>5, MoveFacts DEF Ordered1
    <3>. QED BY <2>2, <2>3, <2>4, <3>4, <3>6 DEF Ordered1
  <2>. QED BY <2>5, <2>6
<1>9. ASSUME NEW p \in DOMAIN polls, PollFails(p)
      PROVE  /\ Rising(queue') /\ Rising(done') /\ InOrder'
             /\ \A q, r \in DOMAIN polls' :
                   polls'[q].event # Nothing /\ polls'[r].event # Nothing => q = r
  <2>1. /\ IF polls[p].event = Nothing THEN Stay ELSE Move(polls[p].event.press, 2, 6)
        /\ polls'[p].event = Nothing
        /\ \A q \in DOMAIN polls : q # p => polls'[q] = polls[q]
    BY <1>0, <1>9, PollFailsMoves
  <2>2. UNCHANGED <<queue, done, crossed>>
    BY <1>9 DEF PollFails, actionVars
  <2>3. Ordered1
    BY <1>3, <2>2
  <2>4. \A q, r \in DOMAIN polls' : polls'[q].event # Nothing /\ polls'[r].event # Nothing => q = r
    BY <1>1, <2>1, <2>3 DEF Ordered1
  <2>5. InOrder'
    BY <1>0, <2>1, <2>3, StayFacts, MoveFacts DEF Ordered1
  <2>. QED BY <2>2, <2>3, <2>4, <2>5 DEF Ordered1
<1>10. CASE Dispatch
  <2>1. /\ Head(queue) \in Events /\ queue # <<>> /\ queue' = Tail(queue) /\ running = NotRunning
        /\ UNCHANGED <<presses, daemon, polls, lost, crossed>>
        /\ \E runs \in Names : \/ \E value \in Int : Starts(Head(queue), runs, value)
                               \/ \E ok \in BOOLEAN : Ends(Head(queue), runs, ok)
    BY <1>0, <1>10, DispatchFacts
  <2> DEFINE x == Head(queue).press
  <2>2. Ordered1
    BY <1>3, <2>1
  <2>3. Rising(queue') /\ \A r : Queued(r) => r = x \/ x < r
    BY <1>1, <2>1, <2>2, TailFacts DEF Queued, Ordered1
  <2>4. \A r \in Known : In(r, 3) => r = x \/ x < r
    BY <2>3 DEF In
  <2>5. \A r : ~In(r, 4)
    <3>1. running.event.press = 0
      BY <2>1 DEF NotRunning, Nothing
    <3>. QED BY <3>1 DEF In, Underway
  <2>6. ASSUME NEW runs \in Names, NEW value \in Int, Starts(Head(queue), runs, value)
        PROVE  Rising(done') /\ InOrder'
    <3>1. Move(x, 3, 4) /\ done' = done
      BY <1>0, <2>1, <2>6, StartsMoves
    <3> HIDE DEF x
    <3>2. \A s : s \notin 3 + 1..4 - 1
      OBVIOUS
    <3>3. InOrder'
      BY <1>0, <2>2, <2>4, <3>1, <3>2, MoveFacts DEF Ordered1
    <3>. QED BY <2>2, <3>1, <3>3 DEF Ordered1
  <2>7. ASSUME NEW runs \in Names, NEW ok \in BOOLEAN, Ends(Head(queue), runs, ok)
        PROVE  Rising(done') /\ InOrder'
    <3>1. /\ Ended(Head(queue), runs, ok) /\ running' = running /\ level' \in Int /\ flag' \in Int
      BY <2>7 DEF Ends
    <3>2. /\ Move(x, 3, 5)
          /\ \E result \in Results : done' = Append(done, result) /\ result.press = x
      BY <1>0, <2>1, <3>1, EndsMoves
    <3>3. PICK result \in Results : done' = Append(done, result) /\ result.press = x
      BY <3>2
    <3> HIDE DEF x
    <3>4. \A s \in 3 + 1..5 - 1 : s = 4
      OBVIOUS
    <3>5. InOrder'
      BY <1>0, <2>2, <2>4, <2>5, <3>2, <3>4, MoveFacts DEF Ordered1
    <3>6. \A r : Has(done, r) => r < x
      <4>1. x \in Known /\ In(x, 3)
        BY <3>2 DEF Move
      <4>2. ASSUME NEW r, Has(done, r) PROVE r < x
        <5>1. In(r, 5)
          BY <4>2 DEF In, Finished
        <5>2. r \in Known
          BY <5>1, <1>0 DEF OnePlace
        <5>. QED BY <4>1, <5>1, <5>2, <2>2 DEF Ordered1, InOrder
      <4>. QED BY <4>2
    <3>7. Rising(done')
      BY <1>1, <2>2, <3>3, <3>6, AppendFacts DEF Ordered1
    <3>. QED BY <3>5, <3>7
  <2>8. Rising(done') /\ InOrder'
    BY <2>1, <2>6, <2>7
  <2>. QED BY <1>1, <2>1, <2>2, <2>3, <2>8 DEF Ordered1
<1>11. ASSUME NEW ok \in BOOLEAN, ExecuteEnds(ok)
       PROVE  /\ Rising(queue') /\ Rising(done') /\ InOrder'
              /\ \A q, r \in DOMAIN polls' :
                    polls'[q].event # Nothing /\ polls'[r].event # Nothing => q = r
  <2> DEFINE x == running.event.press
  <2>1. level' \in Int /\ flag' \in Int /\ crossed' = crossed
    BY <1>0, <1>11, ExecuteEndsTypes DEF ExecuteEnds, pollVars
  <2>2. Ordered1
    BY <1>3, <2>1
  <2>3. /\ Move(x, 4, 5)
        /\ \E result \in Results : done' = Append(done, result) /\ result.press = x
        /\ UNCHANGED <<daemon, polls, queue>>
    BY <1>0, <1>11, <2>1, ExecuteEndsMoves
  <2>4. PICK result \in Results : done' = Append(done, result) /\ result.press = x
    BY <2>3
  <2>5. \A r \in Known : In(r, 4) => r = x
    BY DEF In, Underway
  <2> HIDE DEF x
  <2>6. \A s : s \notin 4 + 1..5 - 1
    OBVIOUS
  <2>7. InOrder'
    BY <1>0, <2>2, <2>3, <2>5, <2>6, MoveFacts DEF Ordered1
  <2>8. \A r : Has(done, r) => r < x
    <3>1. x \in Known /\ In(x, 4)
      BY <2>3 DEF Move
    <3>2. ASSUME NEW r, Has(done, r) PROVE r < x
      <4>1. In(r, 5)
        BY <3>2 DEF In, Finished
      <4>2. r \in Known
        BY <4>1, <1>0 DEF OnePlace
      <4>. QED BY <3>1, <4>1, <4>2, <2>2 DEF Ordered1, InOrder
    <3>. QED BY <3>2
  <2>9. Rising(done')
    BY <1>1, <2>2, <2>4, <2>8, AppendFacts DEF Ordered1
  <2>. QED BY <1>1, <2>2, <2>3, <2>7, <2>9 DEF Ordered1
<1>. QED BY <1>4, <1>5, <1>6, <1>7, <1>8, <1>9, <1>10, <1>11, StepCases DEF Moving

LEMMA VersionsStep ==
    ASSUME ConstantsOK, Inv, [Next]_vars PROVE VersionsInv'
<1>0. TypeOK /\ VersionsInv
  BY DEF Inv
<1>1. CASE Quiet
  BY <1>1 DEF Quiet
<1>2. ASSUME UNCHANGED <<chords, sending>>, daemon'.chords = daemon.chords PROVE VersionsInv'
  BY <1>0, <1>2 DEF VersionsInv
<1>3. CASE Reported
  BY <1>2, <1>3 DEF Reported, Pressed
<1>4. CASE BindingsArrive
  <2>1. /\ sending # <<>> /\ sending' = Tail(sending) /\ chords' = chords
        /\ daemon' = [chords |-> Head(sending), pending |-> <<>>]
    BY <1>4 DEF BindingsArrive
  <2>2. daemon'.chords = Head(sending)
    BY <2>1
  <2>. QED BY <1>0, <2>1, <2>2, FailFacts DEF VersionsInv
<1>5. ASSUME NEW p \in DOMAIN polls, Serve(p) PROVE VersionsInv'
  <2>1. UNCHANGED <<chords, sending>> /\ daemon' = [daemon EXCEPT !.pending = Remaining(@)]
    BY <1>5 DEF Serve, listVars
  <2>2. daemon'.chords = daemon.chords
    BY <1>0, <2>1 DEF TypeOK
  <2>. QED BY <1>2, <2>1, <2>2
<1>6. ASSUME UNCHANGED <<chords, sending, daemon>> PROVE VersionsInv'
  BY <1>2, <1>6
<1>7. CASE \/ \E p \in DOMAIN polls : Receive(p) \/ PollFails(p)
           \/ Dispatch \/ \E ok \in BOOLEAN : ExecuteEnds(ok)
  BY <1>6, <1>7 DEF Receive, PollFails, Dispatch, ExecuteEnds, listVars
<1>. QED BY <1>1, <1>3, <1>4, <1>5, <1>7, StepCases DEF Moving

LEMMA InputStep ==
    ASSUME ConstantsOK, Inv, [Next]_vars PROVE InputInv'
<1>0. TypeOK /\ InputInv
  BY DEF Inv
<1>1. ASSUME UNCHANGED <<port, shown, chorded, presses>> PROVE InputInv'
  BY <1>0, <1>1 DEF InputInv, Known
<1>2. CASE Quiet
  BY <1>1, <1>2 DEF Quiet
<1>3. CASE Reported
  <2>1. /\ chorded' \subseteq port'.consumed /\ shown' \cap chorded' = {}
        /\ \A p \in Known : presses'[p] = presses[p]
        /\ \A p \in Known' : p \notin Known => ~presses'[p].again
    BY <1>3 DEF Reported, Pressed
  <2>2. \A p \in Known' : ~presses'[p].again
    BY <1>0, <2>1 DEF InputInv
  <2>. QED BY <2>1, <2>2 DEF InputInv
<1>4. CASE Moving
  BY <1>0, <1>1, <1>4, MovingFacts
<1>. QED BY <1>2, <1>3, <1>4, StepCases

-----------------------------------------------------------------------------
(* What is run, stored and started.                                         *)

LEMMA ResultFacts ==
    ASSUME NEW result, done \in Seq(Results), done' = Append(done, result)
    PROVE  /\ Len(done) \in Nat /\ DOMAIN done = 1..Len(done) /\ DOMAIN done' = 1..Len(done) + 1
           /\ Len(done') = Len(done) + 1 /\ done'[Len(done) + 1] = result
           /\ \A i \in DOMAIN done : done'[i] = done[i]
BY DEF Results

LEMMA MeantStep ==
    ASSUME ConstantsOK, Inv, [Next]_vars PROVE MeantInv'
<1>0. TypeOK /\ BlankInv /\ PlacesInv /\ VersionsInv /\ SettingsInv /\ MeantInv /\ OnePlace
  BY DEF Inv, PlacesInv
<1>1. /\ daemon.pending \in Seq(Events) /\ queue \in Seq(Events) /\ done \in Seq(Results)
      /\ DOMAIN polls = {"timer", "status"} /\ DOMAIN polls' = {"timer", "status"}
      /\ chords.version \in Nat
  BY <1>0, TypeStep DEF TypeOK, Numbered
<1>2. /\ \A i \in DOMAIN daemon.pending : daemon.pending[i].press \in Known
      /\ \A i \in DOMAIN queue : queue[i].press \in Known
      /\ \A i \in DOMAIN done : done[i].press \in Known
      /\ \A q \in DOMAIN polls : polls[q].event # Nothing => polls[q].event.press \in Known
      /\ running # NotRunning => running.event.press \in Known
  <2>1. \A p : /\ Pending(p) => In(p, 1)
               /\ Polled(p) => In(p, 2)
               /\ Queued(p) => In(p, 3)
               /\ Underway(p) => In(p, 4)
               /\ Finished(p) => In(p, 5)
    BY DEF In
  <2>2. \A p : Pending(p) \/ Polled(p) \/ Queued(p) \/ Underway(p) \/ Finished(p) => p \in Known
    BY <1>0, <2>1 DEF OnePlace
  <2>3. \A i \in DOMAIN daemon.pending : Pending(daemon.pending[i].press)
    BY DEF Pending, Has
  <2>4. \A i \in DOMAIN queue : Queued(queue[i].press)
    BY DEF Queued, Has
  <2>5. \A i \in DOMAIN done : Finished(done[i].press)
    BY DEF Finished, Has
  <2>6. \A q \in DOMAIN polls : polls[q].event # Nothing => Polled(polls[q].event.press)
    BY <1>0 DEF Polled, BlankInv
  <2>7. running # NotRunning => Underway(running.event.press)
    BY <1>0 DEF Underway, BlankInv
  <2>. QED BY <2>2, <2>3, <2>4, <2>5, <2>6, <2>7
<1>3. ASSUME NEW e, e.press \in Known, Means(presses, chords, e),
             presses'[e.press] = presses[e.press], chords' = chords \/ chords.version < chords'.version,
             chords'.version \in Nat
      PROVE  Means(presses', chords', e)
  <2>1. presses[e.press].version \in Nat
    <3>1. presses[e.press] \in Presses
      BY <1>0, <1>3 DEF TypeOK, Known
    <3>. QED BY <3>1 DEF Presses
  <2>2. CASE chords' = chords
    BY <2>2, <1>3 DEF Means
  <2>3. CASE chords.version < chords'.version
    <3>1. /\ presses'[e.press].version <= chords'.version
          /\ presses'[e.press].version # chords'.version
      BY <2>1, <2>3, <1>1, <1>3 DEF Means
    <3>. QED BY <3>1 DEF Means
  <2>. QED BY <2>2, <2>3, <1>3
<1>4. ASSUME NEW r, r.event.press \in Known, MeansRun(presses, chords, r),
             presses'[r.event.press] = presses[r.event.press],
             chords' = chords \/ chords.version < chords'.version, chords'.version \in Nat
      PROVE  MeansRun(presses', chords', r)
  <2>1. presses[r.event.press].version \in Nat
    <3>1. presses[r.event.press] \in Presses
      BY <1>0, <1>4 DEF TypeOK, Known
    <3>. QED BY <3>1 DEF Presses
  <2>. QED BY <2>1, <1>1, <1>4 DEF MeansRun
<1>5. /\ chords'.version \in Nat
      /\ chords' = chords \/ chords.version < chords'.version
      /\ \A p \in Known : presses'[p] = presses[p]
  <2>1. chords' \in Numbered
    BY TypeStep DEF TypeOK
  <2>2. ASSUME Quiet
        PROVE  /\ chords' = chords \/ chords.version < chords'.version
               /\ presses' = presses
    BY <2>2 DEF Quiet
  <2>3. ASSUME Reported
        PROVE  chords' = chords /\ \A p \in Known : presses'[p] = presses[p]
    BY <2>3 DEF Reported, Pressed
  <2>4. ASSUME Moving PROVE chords' = chords /\ presses' = presses
    BY <1>0, <2>4, MovingFacts
  <2>5. (chords' = chords \/ chords.version < chords'.version) /\ \A p \in Known : presses'[p] = presses[p]
    BY <2>2, <2>3, <2>4, StepCases
  <2>. QED BY <2>1, <2>5 DEF Numbered
\* What stays where it is means what it did.
<1>6. /\ \A i \in DOMAIN daemon.pending : Means(presses', chords', daemon.pending[i])
      /\ \A q \in DOMAIN polls : polls[q].event # Nothing => Means(presses', chords', polls[q].event)
      /\ \A i \in DOMAIN queue : Means(presses', chords', queue[i])
      /\ running # NotRunning => MeansRun(presses', chords', running)
      /\ \A i \in DOMAIN done :
            presses'[done[i].press].version = done[i].version
                => done[i].runs = presses'[done[i].press].runs
  <2>1. \A i \in DOMAIN daemon.pending : Means(presses', chords', daemon.pending[i])
    BY <1>0, <1>2, <1>3, <1>5 DEF MeantInv
  <2>2. \A q \in DOMAIN polls : polls[q].event # Nothing => Means(presses', chords', polls[q].event)
    BY <1>0, <1>2, <1>3, <1>5 DEF MeantInv
  <2>3. \A i \in DOMAIN queue : Means(presses', chords', queue[i])
    BY <1>0, <1>2, <1>3, <1>5 DEF MeantInv
  <2>4. running # NotRunning => MeansRun(presses', chords', running)
    BY <1>0, <1>2, <1>4, <1>5 DEF MeantInv
  <2>5. \A i \in DOMAIN done :
           presses'[done[i].press].version = done[i].version
               => done[i].runs = presses'[done[i].press].runs
    BY <1>0, <1>2, <1>5 DEF MeantInv
  <2>. QED BY <2>1, <2>2, <2>3, <2>4, <2>5
<1>7. CASE Quiet
  <2>1. /\ UNCHANGED <<daemon, queue, running, done>>
        /\ \A q \in DOMAIN polls : polls'[q].event = polls[q].event
    BY <1>7 DEF Quiet
  <2>. QED BY <1>1, <1>6, <2>1 DEF MeantInv, Nothing, NotRunning
<1>8. CASE Reported
  <2>1. /\ UNCHANGED <<polls, queue, running, done>>
        /\ \A i \in DOMAIN daemon'.pending :
              \/ \E j \in DOMAIN daemon.pending : daemon'.pending[i] = daemon.pending[j]
              \/ Means(presses', chords', daemon'.pending[i])
    BY <1>8 DEF Reported, Pressed
  <2>2. \A i \in DOMAIN daemon'.pending : Means(presses', chords', daemon'.pending[i])
    BY <1>6, <2>1
  <2>. QED BY <1>1, <1>6, <2>1, <2>2 DEF MeantInv, Nothing, NotRunning
<1>9. CASE BindingsArrive
  <2>1. UNCHANGED <<polls, queue, running, done>> /\ daemon'.pending = <<>>
    BY <1>0, <1>9, ArriveMoves
  <2>2. DOMAIN daemon'.pending = {}
    BY <2>1
  <2>. QED BY <1>1, <1>6, <2>1, <2>2 DEF MeantInv, Nothing, NotRunning
<1>10. ASSUME NEW p \in DOMAIN polls, Serve(p) PROVE MeantInv'
  <2>1. /\ IF daemon.pending = <<>>
           THEN polls'[p].event = Nothing /\ daemon'.pending = <<>>
           ELSE daemon'.pending = Tail(daemon.pending) /\ polls'[p].event = Head(daemon.pending)
        /\ \A q \in DOMAIN polls : q # p => polls'[q] = polls[q]
    BY <1>0, <1>10, ServeMoves
  <2>2. UNCHANGED <<queue, running, done>>
    BY <1>10 DEF Serve, actionVars
  <2>3. CASE daemon.pending = <<>>
    <3>1. DOMAIN daemon'.pending = {}
      BY <2>1, <2>3
    <3>. QED BY <1>1, <1>6, <2>1, <2>2, <2>3, <3>1 DEF MeantInv, Nothing, NotRunning
  <2>4. CASE daemon.pending # <<>>
    <3>1. /\ 1 \in DOMAIN daemon.pending /\ Head(daemon.pending) = daemon.pending[1]
          /\ \A i \in DOMAIN Tail(daemon.pending) :
                i + 1 \in DOMAIN daemon.pending /\ Tail(daemon.pending)[i] = daemon.pending[i + 1]
      BY <1>1, <2>4
    <3>2. \A i \in DOMAIN daemon'.pending : Means(presses', chords', daemon'.pending[i])
      BY <1>6, <2>1, <2>4, <3>1
    <3>3. Means(presses', chords', polls'[p].event)
      BY <1>6, <2>1, <2>4, <3>1
    <3>. QED BY <1>1, <1>6, <2>1, <2>2, <3>2, <3>3 DEF MeantInv, Nothing, NotRunning
  <2>. QED BY <2>3, <2>4
<1>11. ASSUME NEW p \in DOMAIN polls, Receive(p) PROVE MeantInv'
  <2>1. /\ IF polls[p].event = Nothing THEN queue' = queue
           ELSE queue' = Append(queue, polls[p].event)
        /\ polls'[p].event = Nothing
        /\ \A q \in DOMAIN polls : q # p => polls'[q] = polls[q]
    BY <1>0, <1>11, ReceiveMoves
  <2>2. UNCHANGED <<daemon, running, done>>
    BY <1>11 DEF Receive
  <2>3. polls[p].event \in Events
    BY <1>0, PollFacts
  <2>4. \A i \in DOMAIN queue' : Means(presses', chords', queue'[i])
    <3>1. CASE polls[p].event = Nothing
      BY <1>6, <2>1, <3>1
    <3>2. CASE polls[p].event # Nothing
      <4>1. \A i \in DOMAIN queue' : \/ queue'[i] = polls[p].event
                                     \/ i \in DOMAIN queue /\ queue'[i] = queue[i]
        BY <1>1, <2>1, <2>3, <3>2
      <4>. QED BY <1>6, <3>2, <4>1
    <3>. QED BY <3>1, <3>2
  <2>. QED BY <1>1, <1>6, <2>1, <2>2, <2>4 DEF MeantInv, Nothing, NotRunning
<1>12. ASSUME NEW p \in DOMAIN polls, PollFails(p) PROVE MeantInv'
  <2>1. /\ polls'[p].event = Nothing
        /\ \A q \in DOMAIN polls : q # p => polls'[q] = polls[q]
    BY <1>0, <1>12, PollFailsMoves
  <2>2. UNCHANGED <<daemon, queue, running, done>>
    BY <1>12 DEF PollFails, actionVars
  <2>. QED BY <1>1, <1>6, <2>1, <2>2 DEF MeantInv, Nothing, NotRunning
<1>13. CASE Dispatch
  <2>1. /\ Head(queue) \in Events /\ queue # <<>> /\ queue' = Tail(queue) /\ running = NotRunning
        /\ UNCHANGED <<presses, daemon, chords, polls, lost>>
        /\ \E runs \in Names : \/ \E value \in Int : Starts(Head(queue), runs, value)
                               \/ \E ok \in BOOLEAN : Ends(Head(queue), runs, ok)
    BY <1>0, <1>13, DispatchFacts
  <2>2. /\ 1 \in DOMAIN queue /\ Head(queue) = queue[1]
        /\ \A i \in DOMAIN Tail(queue) : i + 1 \in DOMAIN queue /\ Tail(queue)[i] = queue[i + 1]
    BY <1>1, <2>1
  <2>3. \A i \in DOMAIN queue' : Means(presses', chords', queue'[i])
    BY <1>6, <2>1, <2>2
  <2>4. Means(presses, chords, Head(queue)) /\ Runs(Head(queue)) = RunsIn(chords.list, Head(queue))
    BY <1>0, <2>2 DEF MeantInv, Runs, RunsIn
  <2>5. ASSUME NEW runs \in Names, NEW value \in Int, Starts(Head(queue), runs, value)
        PROVE  MeantInv'
    <3>1. /\ running' = [event |-> Head(queue), runs |-> runs, value |-> value] /\ done' = done
          /\ runs \in Runs(Head(queue))
      BY <2>5 DEF Starts, Begun
    <3>2. running'.event = Head(queue) /\ running'.runs = runs
      BY <3>1
    <3>3. MeansRun(presses', chords', running')
      BY <2>1, <2>4, <3>1, <3>2 DEF Means, MeansRun
    <3>. QED BY <1>1, <1>6, <2>1, <2>3, <3>1, <3>3 DEF MeantInv, Nothing, NotRunning
  <2>6. ASSUME NEW runs \in Names, NEW ok \in BOOLEAN, Ends(Head(queue), runs, ok)
        PROVE  MeantInv'
    <3> DEFINE result == [press |-> Head(queue).press, runs |-> runs, ok |-> ok,
                          version |-> chords.version, level |-> level', flag |-> flag']
    <3>1. /\ done' = Append(done, result) /\ running' = running
          /\ (Runs(Head(queue)) = {} /\ runs = "") \/ runs \in Runs(Head(queue))
      BY <2>6 DEF Ends, Ended
    <3>2. result.press = Head(queue).press /\ result.version = chords.version /\ result.runs = runs
      OBVIOUS
    <3> HIDE DEF result
    <3>3. presses[Head(queue).press].version = chords.version => runs = presses[Head(queue).press].runs
      BY <2>4, <3>1 DEF Means
    <3>4. \A i \in DOMAIN done' : \/ done'[i] = result
                                  \/ i \in DOMAIN done /\ done'[i] = done[i]
      <4>1. done' = Append(done, result)
        BY <3>1
      <4>. QED BY <1>1, <4>1, ResultFacts
    <3>5. \A i \in DOMAIN done' :
             presses'[done'[i].press].version = done'[i].version
                 => done'[i].runs = presses'[done'[i].press].runs
      BY <1>6, <2>1, <3>2, <3>3, <3>4
    <3>. QED BY <1>1, <1>6, <2>1, <2>3, <3>1, <3>5 DEF MeantInv, Nothing, NotRunning
  <2>. QED BY <2>1, <2>5, <2>6
<1>14. ASSUME NEW ok \in BOOLEAN, ExecuteEnds(ok) PROVE MeantInv'
  <2> DEFINE result == [press |-> running.event.press, runs |-> running.runs, ok |-> ok,
                        version |-> chords.version, level |-> level', flag |-> flag']
  <2>1. /\ running # NotRunning /\ running' = NotRunning
        /\ done' = Append(done, result)
        /\ UNCHANGED <<presses, chords, daemon, polls, queue>>
    BY <1>14 DEF ExecuteEnds, Ended, controllerVars, listVars, pollVars
  <2>2. /\ result.press = running.event.press /\ result.version = chords.version
        /\ result.runs = running.runs
    OBVIOUS
  <2> HIDE DEF result
  <2>3. MeansRun(presses, chords, running)
    BY <1>0, <2>1 DEF MeantInv
  <2>4. \A i \in DOMAIN done' : \/ done'[i] = result
                                \/ i \in DOMAIN done /\ done'[i] = done[i]
    BY <1>1, <2>1, ResultFacts
  <2>5. \A i \in DOMAIN done' :
           presses'[done'[i].press].version = done'[i].version
               => done'[i].runs = presses'[done'[i].press].runs
    BY <1>6, <2>1, <2>2, <2>3, <2>4 DEF MeansRun
  <2>. QED BY <1>1, <1>6, <2>1, <2>5 DEF MeantInv, Nothing, NotRunning
<1>. QED BY <1>7, <1>8, <1>9, <1>10, <1>11, <1>12, <1>13, <1>14, StepCases DEF Moving

\* What was stored, and what follows it.
Extended(results, result, more) ==
    /\ more = Append(results, result)
    /\ \A i \in DOMAIN results : Stored(results, i)
    /\ [level |-> result.level, flag |-> result.flag]
         = IF result.ok THEN Effect(result.runs, BeforeIn(results, Len(results) + 1))
           ELSE BeforeIn(results, Len(results) + 1)

LEMMA StoredFacts ==
    ASSUME NEW results \in Seq(Results), NEW result \in Results, NEW more,
           Extended(results, result, more)
    PROVE  /\ \A i \in DOMAIN more : Stored(more, i)
           /\ [level |-> result.level, flag |-> result.flag] = BeforeIn(more, Len(more) + 1)
<1> DEFINE n == Len(results)
<1>0. more = Append(results, result) /\ \A i \in DOMAIN results : Stored(results, i)
  BY DEF Extended
<1>1. /\ n \in Nat /\ DOMAIN results = 1..n /\ DOMAIN more = 1..n + 1 /\ Len(more) = n + 1
      /\ more[n + 1] = result /\ \A i \in 1..n : more[i] = results[i]
  BY <1>0
<1> HIDE DEF n
<1>2. \A i \in 1..n + 1 : BeforeIn(more, i) = BeforeIn(results, i)
  <2> SUFFICES ASSUME NEW i \in 1..n + 1 PROVE BeforeIn(more, i) = BeforeIn(results, i)
    OBVIOUS
  <2>1. i = 1 \/ i - 1 \in 1..n
    BY <1>1
  <2>. QED BY <2>1, <1>1 DEF BeforeIn
<1>3. \A i \in 1..n : i \in 1..n + 1
  BY <1>1
<1>4. \A i \in 1..n : Stored(more, i)
  BY <1>0, <1>1, <1>2, <1>3 DEF Stored
<1>5. Stored(more, n + 1)
  <2>1. n + 1 \in 1..n + 1 /\ BeforeIn(more, n + 1) = BeforeIn(results, n + 1)
    BY <1>1, <1>2
  <2>. QED BY <1>1, <2>1 DEF Stored, Extended, n
<1>6. BeforeIn(more, Len(more) + 1) = [level |-> result.level, flag |-> result.flag]
  <2>1. Len(more) + 1 # 1 /\ (Len(more) + 1) - 1 = n + 1
    BY <1>1
  <2>. QED BY <2>1, <1>1 DEF BeforeIn
<1>7. \A i \in DOMAIN more : i \in 1..n \/ i = n + 1
  BY <1>1
<1>. QED BY <1>4, <1>5, <1>6, <1>7

LEMMA SettingsStep ==
    ASSUME ConstantsOK, Inv, [Next]_vars PROVE SettingsInv'
<1>0. TypeOK /\ BlankInv /\ PlacesInv /\ SettingsInv
  BY DEF Inv
<1>1. done \in Seq(Results) /\ chords.version \in Nat
  BY <1>0 DEF TypeOK, Numbered
<1>2. ASSUME UNCHANGED <<level, flag, running, done>> PROVE SettingsInv'
  BY <1>0, <1>2 DEF SettingsInv, Settings, NotRunning, Nothing
<1>3. CASE Quiet \/ Reported
  BY <1>2, <1>3 DEF Quiet, Reported, Pressed
<1>4. CASE BindingsArrive \/ \E p \in DOMAIN polls : Serve(p) \/ Receive(p) \/ PollFails(p)
  BY <1>2, <1>4 DEF BindingsArrive, Serve, Receive, PollFails, actionVars
\* What is stored now follows from what was stored.
<1>5. ASSUME NEW result \in Results, done' = Append(done, result),
             result.level = level', result.flag = flag',
             Settings' = IF result.ok THEN Effect(result.runs, Settings) ELSE Settings
      PROVE  (\A i \in DOMAIN done' : Stored(done', i)) /\ Settings' = BeforeIn(done', Len(done') + 1)
  <2>1. Settings' = [level |-> result.level, flag |-> result.flag]
    BY <1>5 DEF Settings
  <2>2. /\ Settings = BeforeIn(done, Len(done) + 1)
        /\ \A i \in DOMAIN done : Stored(done, i)
    BY <1>0 DEF SettingsInv
  <2>3. Extended(done, result, done')
    BY <2>1, <2>2, <1>5 DEF Extended
  <2>4. PICK more, results : more = done' /\ results = done
    OBVIOUS
  <2>5. Extended(results, result, more) /\ results \in Seq(Results)
    BY <2>3, <2>4, <1>1
  <2>6. /\ \A i \in DOMAIN more : Stored(more, i)
        /\ [level |-> result.level, flag |-> result.flag] = BeforeIn(more, Len(more) + 1)
    BY <2>5, StoredFacts
  <2>. QED BY <2>1, <2>4, <2>6
<1>6. CASE Dispatch
  <2>1. /\ Head(queue) \in Events /\ running = NotRunning
        /\ \E runs \in Names : \/ \E value \in Int : Starts(Head(queue), runs, value)
                               \/ \E ok \in BOOLEAN : Ends(Head(queue), runs, ok)
    BY <1>0, <1>6, DispatchFacts
  <2>2. ASSUME NEW runs \in Names, NEW value \in Int, Starts(Head(queue), runs, value)
        PROVE  SettingsInv'
    <3>1. /\ running' = [event |-> Head(queue), runs |-> runs, value |-> value] /\ done' = done
          /\ level' = level /\ flag' = flag
      BY <2>2 DEF Starts, Begun
    <3>2. running'.runs = runs /\ running'.value = value
      BY <3>1
    <3>3. /\ Functions[runs].does \in Kinds \ {"mark"}
          /\ Functions[runs].does = "step" => value = Clamp(level + Functions[runs].by)
          /\ Functions[runs].does = "toggle" => value = 1 - flag
      BY <2>2 DEF Starts
    <3>. QED BY <1>0, <3>1, <3>2, <3>3 DEF SettingsInv, Settings
  <2>3. ASSUME NEW runs \in Names, NEW ok \in BOOLEAN, Ends(Head(queue), runs, ok)
        PROVE  SettingsInv'
    <3> DEFINE result == [press |-> Head(queue).press, runs |-> runs, ok |-> ok,
                          version |-> chords.version, level |-> level', flag |-> flag']
    <3>1. /\ done' = Append(done, result) /\ running' = running
          /\ level' \in Int /\ flag' \in Int
      BY <2>3 DEF Ends, Ended
    <3>2. Settings' = IF ok THEN Effect(runs, Settings) ELSE Settings
      BY <2>3 DEF Ends
    <3>3. Head(queue).press \in Nat
      BY <2>1 DEF Events
    <3>4. result \in Results
      BY <1>1, <3>1, <3>3 DEF Results
    <3>5. result.level = level' /\ result.flag = flag' /\ result.runs = runs /\ result.ok = ok
      BY Zenon
    <3> HIDE DEF result
    <3>6. Settings' = IF result.ok THEN Effect(result.runs, Settings) ELSE Settings
      BY <3>2, <3>5
    <3>7. (\A i \in DOMAIN done' : Stored(done', i)) /\ Settings' = BeforeIn(done', Len(done') + 1)
      BY <1>5, <3>1, <3>4, <3>5, <3>6
    <3>8. running' = NotRunning
      BY <2>1, <3>1
    <3>. QED BY <3>7, <3>8 DEF SettingsInv, NotRunning, Nothing
  <2>. QED BY <2>1, <2>2, <2>3
<1>7. ASSUME NEW ok \in BOOLEAN, ExecuteEnds(ok) PROVE SettingsInv'
  <2> DEFINE f == running.runs
             result == [press |-> running.event.press, runs |-> f, ok |-> ok,
                        version |-> chords.version, level |-> level', flag |-> flag']
  <2>1. /\ running # NotRunning /\ running' = NotRunning /\ done' = Append(done, result)
        /\ level' = (IF ok /\ Functions[f].does = "step" THEN running.value ELSE level)
        /\ flag' = (IF ok /\ Functions[f].does = "toggle" THEN running.value ELSE flag)
    BY <1>7 DEF ExecuteEnds, Ended
  <2>2. level' \in Int /\ flag' \in Int
    BY <1>0, <1>7, ExecuteEndsTypes
  <2>3. running.event.press \in Nat /\ f \in Names
    BY <1>0 DEF TypeOK, Events
  <2>4. result \in Results
    BY <1>1, <2>2, <2>3 DEF Results
  <2>5. result.level = level' /\ result.flag = flag' /\ result.runs = f /\ result.ok = ok
    BY Zenon
  <2>6. /\ Functions[f].does \in Kinds \ {"mark"}
        /\ Functions[f].does = "step" => running.value = Clamp(level + Functions[f].by)
        /\ Functions[f].does = "toggle" => running.value = 1 - flag
    BY <1>0, <2>1 DEF SettingsInv
  <2> HIDE DEF result, f
  <2>7. Settings' = IF ok THEN Effect(f, Settings) ELSE Settings
    <3>1. CASE ~ok
      BY <2>1, <3>1 DEF Settings
    <3>2. CASE ok /\ Functions[f].does = "step"
      <4>1. Effect(f, Settings) = [Settings EXCEPT !.level = Clamp(Settings.level + Functions[f].by)]
        BY <3>2 DEF Effect
      <4>. QED BY <4>1, <3>2, <2>1, <2>6 DEF Settings
    <3>3. CASE ok /\ Functions[f].does = "toggle"
      <4>1. Effect(f, Settings) = [Settings EXCEPT !.flag = 1 - Settings.flag]
        BY <3>3 DEF Effect
      <4>. QED BY <4>1, <3>3, <2>1, <2>6 DEF Settings
    <3>4. CASE ok /\ Functions[f].does \notin {"step", "toggle"}
      <4>1. Effect(f, Settings) = Settings
        BY <3>4, <2>6 DEF Effect
      <4>2. level' = level /\ flag' = flag
        BY <3>4, <2>1
      <4>. QED BY <4>1, <4>2, <3>4 DEF Settings
    <3>. QED BY <3>1, <3>2, <3>3, <3>4
  <2>8. Settings' = IF result.ok THEN Effect(result.runs, Settings) ELSE Settings
    BY <2>5, <2>7
  <2>9. (\A i \in DOMAIN done' : Stored(done', i)) /\ Settings' = BeforeIn(done', Len(done') + 1)
    BY <1>5, <2>1, <2>4, <2>5, <2>8
  <2>. QED BY <2>1, <2>9 DEF SettingsInv, NotRunning, Nothing
<1>. QED BY <1>3, <1>4, <1>6, <1>7, StepCases DEF Moving

\* What is pressed is released: the arguments of a sequence of keys.
Symmetric(args) ==
    \A i \in DOMAIN args : \A key \in DOMAIN KindOf :
        args[i] = <<"press", key>> <=> args[Len(args) + 1 - i] = <<"release", key>>

LEMMA ArgumentsFacts ==
    ASSUME NEW keys \in Seq(DOMAIN KindOf) PROVE Symmetric(Arguments(keys))
<1> DEFINE n == Len(keys)
           args == Arguments(keys)
<1>1. /\ n \in Nat /\ DOMAIN args = 1..2 * n /\ Len(args) = 2 * n
  BY DEF Arguments
<1>2. \A i \in 1..n : args[i] = <<IF KindOf[keys[i]] = "modifier" THEN "press" ELSE "key", keys[i]>>
  BY <1>1 DEF Arguments
<1>3. \A i \in n + 1..2 * n :
         args[i] = IF KindOf[keys[2 * n + 1 - i]] = "modifier"
                   THEN <<"release", keys[2 * n + 1 - i]>> ELSE <<>>
  BY <1>1 DEF Arguments
<1> HIDE DEF n, args
<1>4. ASSUME NEW i \in 1..n, NEW key
      PROVE  /\ args[i] = <<"press", key>> <=> KindOf[keys[i]] = "modifier" /\ keys[i] = key
             /\ args[i] # <<"release", key>>
  BY <1>2
<1>5. ASSUME NEW i \in n + 1..2 * n, NEW key
      PROVE  /\ args[i] = <<"release", key>> <=> /\ KindOf[keys[2 * n + 1 - i]] = "modifier"
                                                /\ keys[2 * n + 1 - i] = key
             /\ args[i] # <<"press", key>>
  <2>1. CASE KindOf[keys[2 * n + 1 - i]] = "modifier"
    <3>1. args[i] = <<"release", keys[2 * n + 1 - i]>>
      BY <2>1, <1>3
    <3>. QED BY <2>1, <3>1
  <2>2. CASE KindOf[keys[2 * n + 1 - i]] # "modifier"
    <3>1. args[i] = <<>>
      BY <2>2, <1>3
    <3>2. <<>> # <<"release", key>> /\ <<>> # <<"press", key>>
      OBVIOUS
    <3>. QED BY <2>2, <3>1, <3>2
  <2>. QED BY <2>1, <2>2
<1>6. ASSUME NEW i \in DOMAIN args, NEW key \in DOMAIN KindOf
      PROVE  args[i] = <<"press", key>> <=> args[2 * n + 1 - i] = <<"release", key>>
  <2>1. CASE i \in 1..n
    <3> DEFINE j == 2 * n + 1 - i
    <3>1. j \in n + 1..2 * n /\ 2 * n + 1 - j = i
      BY <1>1, <2>1
    <3> HIDE DEF j
    <3>2. args[j] = <<"release", key>> <=> KindOf[keys[i]] = "modifier" /\ keys[i] = key
      BY <3>1, <1>5
    <3>3. args[i] = <<"press", key>> <=> KindOf[keys[i]] = "modifier" /\ keys[i] = key
      BY <2>1, <1>4
    <3>. QED BY <3>2, <3>3 DEF j
  <2>2. CASE i \in n + 1..2 * n
    <3>1. 2 * n + 1 - i \in 1..n
      BY <1>1, <2>2
    <3>. QED BY <3>1, <2>2, <1>4, <1>5
  <2>. QED BY <2>1, <2>2, <1>1
<1>. QED BY <1>1, <1>6 DEF Symmetric, args

LEMMA SpawnStep ==
    ASSUME ConstantsOK, Inv, [Next]_vars PROVE SpawnInv'
<1>0. TypeOK /\ SpawnInv
  BY DEF Inv
<1>1. ASSUME spawned' = spawned PROVE SpawnInv'
  BY <1>0, <1>1 DEF SpawnInv
<1>2. ASSUME Symmetric(spawned'.args) PROVE SpawnInv'
  BY <1>2 DEF SpawnInv, Symmetric
<1>3. Symmetric(<<>>)
  BY DEF Symmetric
<1>4. CASE Quiet \/ Reported
  BY <1>1, <1>4 DEF Quiet, Reported, Pressed
<1>5. CASE \/ BindingsArrive \/ \E p \in DOMAIN polls : Serve(p) \/ Receive(p) \/ PollFails(p)
           \/ \E ok \in BOOLEAN : ExecuteEnds(ok)
  BY <1>1, <1>5 DEF BindingsArrive, Serve, Receive, PollFails, ExecuteEnds, actionVars
<1>6. CASE Dispatch
  <2> DEFINE e == Head(queue)
  <2>1. queue # <<>> /\ queue \in Seq(Events)
    BY <1>0, <1>6 DEF TypeOK, Dispatch
  <2>2. e \in Events
    BY <2>1, TailFacts
  <2>3. \A f \in Runs(e) : f \in DOMAIN Functions
    BY <1>0, <2>2, RunsFacts
  <2>4. \/ \E f : DispatchNothing(e, f)
        \/ \E f \in Runs(e) : Execute(e, f)
    BY <1>6 DEF Dispatch
  <2> HIDE DEF e
  <2>5. ASSUME NEW f, DispatchNothing(e, f) PROVE SpawnInv'
    BY <1>1, <2>5 DEF DispatchNothing
  <2>6. ASSUME NEW f \in Runs(e), Execute(e, f) PROVE SpawnInv'
    <3>1. Functions[f] \in [does : Kinds, keys : Seq(DOMAIN KindOf), by : Int]
      BY <2>3 DEF ConstantsOK
    <3>2. CASE DispatchKeys(e, f)
      <4>1. CASE Typable(Functions[f].keys)
        <5>1. spawned' = ProcessFor(Functions[f].keys)
          BY <3>2, <4>1 DEF DispatchKeys
        <5>2. spawned'.args = <<>> \/ spawned'.args = Arguments(Functions[f].keys)
          BY <5>1 DEF ProcessFor, Media
        <5>3. Functions[f].keys \in Seq(DOMAIN KindOf)
          BY <3>1
        <5>. QED BY <5>2, <5>3, <1>2, <1>3, ArgumentsFacts
      <4>2. CASE ~Typable(Functions[f].keys)
        BY <1>1, <3>2, <4>2 DEF DispatchKeys, DispatchNothing
      <4>. QED BY <4>1, <4>2
    <3>3. CASE DispatchMedia(e, f)
      <4>1. spawned'.args = <<>>
        BY <3>3 DEF DispatchMedia, Media
      <4>. QED BY <4>1, <1>2, <1>3
    <3>4. CASE DispatchStep(e, f) \/ DispatchCommand(e, f) \/ DispatchMark(e, f)
      BY <1>1, <3>4 DEF DispatchStep, DispatchCommand, DispatchMark
    <3>. QED BY <2>6, <3>2, <3>3, <3>4 DEF Execute
  <2>. QED BY <2>4, <2>5, <2>6
<1>. QED BY <1>4, <1>5, <1>6, StepCases DEF Moving

-----------------------------------------------------------------------------
LEMMA InvInit ==
    ASSUME ConstantsOK, Init PROVE Inv
<1>1. PICK list \in ChordLists : chords = [version |-> 0, list |-> list]
  BY DEF Init, Versioned
<1>2. list \in Lists
  BY DEF ConstantsOK, Lists
<1>3. /\ port = [previous |-> {}, consumed |-> {}] /\ shown = {} /\ chorded = {}
      /\ daemon = [chords |-> chords, pending |-> <<>>] /\ sending = <<>>
      /\ polls = [p \in {"timer", "status"} |-> Idle] /\ crossed = FALSE
      /\ queue = <<>> /\ running = NotRunning /\ level = Start /\ flag = 0 /\ spawned = NoProcess
      /\ presses = <<>> /\ done = <<>> /\ lost = {}
  BY DEF Init
<1>4. chords \in Numbered /\ chords.version = 0
  BY <1>1, <1>2 DEF Numbered
<1>5. Nothing \in Events /\ Nothing.press = 0
  BY DEF Nothing, Events, Names
<1>6. daemon.pending = <<>> /\ daemon.chords = chords
  BY <1>3
<1>7. \A q \in DOMAIN polls : polls[q].event = Nothing /\ polls[q].state = "idle"
  BY <1>3 DEF Idle
<1>8. TypeOK
  <2>1. daemon \in [chords : Numbered, pending : Seq(Events)]
    BY <1>3, <1>4
  <2>2. Idle \in [state : {"idle", "asked", "served"}, event : Events]
    BY <1>5 DEF Idle
  <2>3. polls \in [{"timer", "status"} -> [state : {"idle", "asked", "served"}, event : Events]]
    BY <1>3, <2>2
  <2>4. NotRunning \in [event : Events, runs : Names, value : Int]
    BY <1>5 DEF NotRunning, Names
  <2>5. level \in Int /\ flag \in Int
    <3>1. Start \in 0..Top /\ Top \in Nat
      BY Zenon DEF ConstantsOK
    <3>. QED BY <3>1, <1>3
  <2>6. <<>> \in Seq(Numbered) /\ <<>> \in Seq(Events) /\ <<>> \in Seq(Presses) /\ <<>> \in Seq(Results)
    OBVIOUS
  <2>. QED BY <1>3, <1>4, <2>1, <2>3, <2>4, <2>5, <2>6 DEF TypeOK
<1>9. running.event.press = 0
  BY <1>3, <1>5 DEF NotRunning
<1>10. BlankInv
  BY <1>3, <1>5, <1>7, <1>9 DEF BlankInv
<1>11. \A p : \A s \in 1..6 : ~In(p, s)
  BY <1>3, <1>5, <1>6, <1>7, <1>9 DEF In, Pending, Polled, Queued, Underway, Finished, Has
<1>12. Known = {}
  BY <1>3 DEF Known
<1>13. PlacesInv
  BY <1>3, <1>5, <1>6, <1>7, <1>11, <1>12 DEF PlacesInv, OnePlace, Rising, Distinct
<1>14. OrderInv
  BY <1>3, <1>7, <1>12 DEF OrderInv, InOrder, Rising
<1>15. VersionsInv
  BY <1>3, <1>4, <1>6 DEF VersionsInv
<1>16. MeantInv
  BY <1>3, <1>6, <1>7 DEF MeantInv
<1>17. SettingsInv
  <2>1. Settings = BeforeIn(done, Len(done) + 1)
    BY <1>3 DEF Settings, BeforeIn
  <2>. QED BY <1>3, <2>1 DEF SettingsInv
<1>18. InputInv
  BY <1>3, <1>12 DEF InputInv
<1>19. SpawnInv
  <2>1. spawned.args = <<>>
    BY <1>3 DEF NoProcess
  <2>. QED BY <2>1 DEF SpawnInv
<1>. QED BY <1>8, <1>10, <1>13, <1>14, <1>15, <1>16, <1>17, <1>18, <1>19 DEF Inv

LEMMA InvStep ==
    ASSUME ConstantsOK, Inv, [Next]_vars PROVE Inv'
BY TypeStep, BlankStep, PlacesStep, OrderStep, VersionsStep, MeantStep, SettingsStep, InputStep,
   SpawnStep DEF Inv

LEMMA AtFacts ==
    ASSUME NEW where, NEW events, NEW p, Distinct(events)
    PROVE  /\ ~Has(events, p) => At(where, events, p) = {}
           /\ Has(events, p) => \E x : At(where, events, p) = {x}
<1>1. ASSUME Has(events, p) PROVE \E x : At(where, events, p) = {x}
  <2>1. PICK i \in DOMAIN events : events[i].press = p
    BY <1>1 DEF Has
  <2>2. \A j \in DOMAIN events : events[j].press = p => j = i
    BY <2>1 DEF Distinct
  <2>3. {j \in DOMAIN events : events[j].press = p} = {i}
    BY <2>1, <2>2
  <2>4. At(where, events, p) = {<<where, i>>}
    BY <2>3 DEF At
  <2>. QED BY <2>4
<1>2. ASSUME ~Has(events, p) PROVE At(where, events, p) = {}
  BY <1>2 DEF Has, At
<1>. QED BY <1>1, <1>2

LEMMA OnePlaceFacts ==
    ASSUME TypeOK, PlacesInv, NEW p \in Known
    PROVE  \E x \in Places(p) : Places(p) = {x}
<1> DEFINE a == At("pending", daemon.pending, p)
           b == {<<"poll", q>> : q \in {q \in DOMAIN polls : polls[q].event.press = p}}
           c == At("queue", queue, p)
           d == {<<"running", 0>> : e \in {running.event.press} \cap {p}}
           f == At("done", done, p)
           g == {<<"lost", 0>> : e \in lost \cap {p}}
<1>1. Places(p) = a \cup c \cup f \cup b \cup d \cup g
  BY DEF Places
<1>2. Distinct(daemon.pending)
  <2>1. daemon.pending \in Seq(Events)
    BY DEF TypeOK
  <2>2. \A i \in DOMAIN daemon.pending : daemon.pending[i].press \in Nat
    <3>1. \A i \in DOMAIN daemon.pending : daemon.pending[i] \in Events
      BY <2>1, ElementFacts
    <3>. QED BY <3>1 DEF Events
  <2> SUFFICES ASSUME NEW i \in DOMAIN daemon.pending, NEW j \in DOMAIN daemon.pending,
                      daemon.pending[i].press = daemon.pending[j].press, i # j
               PROVE  FALSE
    BY DEF Distinct
  <2>3. i < j \/ j < i
    BY <2>1
  <2>4. daemon.pending[i].press < daemon.pending[j].press \/ daemon.pending[j].press < daemon.pending[i].press
    BY <2>3 DEF PlacesInv, Rising
  <2>. QED BY <2>2, <2>4
<1>3. p # 0
  BY DEF Known
<1>4. (~Pending(p) => a = {}) /\ (Pending(p) => \E x : a = {x})
  BY <1>2, AtFacts DEF Pending
<1>5. (~Queued(p) => c = {}) /\ (Queued(p) => \E x : c = {x})
  BY AtFacts DEF PlacesInv, Queued
<1>6. (~Finished(p) => f = {}) /\ (Finished(p) => \E x : f = {x})
  BY AtFacts DEF PlacesInv, Finished
<1>7. (~Polled(p) => b = {}) /\ (Polled(p) => \E x : b = {x})
  <2>1. ASSUME Polled(p) PROVE \E x : b = {x}
    <3>1. PICK q \in DOMAIN polls : polls[q].event.press = p
      BY <2>1 DEF Polled
    <3>2. \A r \in DOMAIN polls : polls[r].event.press = p => r = q
      BY <1>3, <3>1 DEF PlacesInv
    <3>3. {r \in DOMAIN polls : polls[r].event.press = p} = {q}
      BY <3>1, <3>2
    <3>4. b = {<<"poll", q>>}
      BY <3>3
    <3>. QED BY <3>4
  <2>2. ASSUME ~Polled(p) PROVE b = {}
    BY <1>3, <2>2 DEF Polled
  <2>. QED BY <2>1, <2>2
<1>8. (~Underway(p) => d = {}) /\ (Underway(p) => \E x : d = {x})
  <2>1. ASSUME Underway(p) PROVE d = {<<"running", 0>>}
    BY <2>1 DEF Underway
  <2>2. ASSUME ~Underway(p) PROVE d = {}
    BY <1>3, <2>2 DEF Underway
  <2>. QED BY <2>1, <2>2
<1>9. (p \notin lost => g = {}) /\ (p \in lost => \E x : g = {x})
  <2>1. ASSUME p \in lost PROVE g = {<<"lost", 0>>}
    BY <2>1
  <2>. QED BY <2>1
<1> HIDE DEF a, b, c, d, f, g
<1>10. PICK s \in 1..6 : In(p, s) /\ \A t \in 1..6 : In(p, t) => t = s
  BY DEF PlacesInv, OnePlace
<1>11. \E x : Places(p) = {x}
  <2>0. s \in {1, 2, 3, 4, 5, 6}
    OBVIOUS
  <2>1. /\ Pending(p) <=> s = 1
        /\ Polled(p) <=> s = 2
        /\ Queued(p) <=> s = 3
        /\ Underway(p) <=> s = 4
        /\ Finished(p) <=> s = 5
        /\ p \in lost <=> s = 6
    <3>1. /\ In(p, 1) <=> Pending(p)
          /\ In(p, 2) <=> Polled(p)
          /\ In(p, 3) <=> Queued(p)
          /\ In(p, 4) <=> Underway(p)
          /\ In(p, 5) <=> Finished(p)
          /\ In(p, 6) <=> p \in lost
      BY DEF In
    <3>2. \A t \in 1..6 : In(p, t) <=> t = s
      BY <1>10
    <3>. QED BY <3>1, <3>2
  <2>2. CASE s = 1
    BY <2>1, <2>2, <1>1, <1>4, <1>5, <1>6, <1>7, <1>8, <1>9
  <2>3. CASE s = 2
    BY <2>1, <2>3, <1>1, <1>4, <1>5, <1>6, <1>7, <1>8, <1>9
  <2>4. CASE s = 3
    BY <2>1, <2>4, <1>1, <1>4, <1>5, <1>6, <1>7, <1>8, <1>9
  <2>5. CASE s = 4
    BY <2>1, <2>5, <1>1, <1>4, <1>5, <1>6, <1>7, <1>8, <1>9
  <2>6. CASE s = 5
    BY <2>1, <2>6, <1>1, <1>4, <1>5, <1>6, <1>7, <1>8, <1>9
  <2>7. CASE s = 6
    BY <2>1, <2>7, <1>1, <1>4, <1>5, <1>6, <1>7, <1>8, <1>9
  <2>. QED BY <2>0, <2>2, <2>3, <2>4, <2>5, <2>6, <2>7
<1>. QED BY <1>11

LEMMA InvShortcutsMatch ==
    ASSUME Inv PROVE ShortcutsMatch
<1>0. TypeOK /\ PlacesInv /\ OrderInv /\ MeantInv /\ SettingsInv /\ InputInv /\ SpawnInv
  BY DEF Inv
<1>1. DOMAIN presses = Known
  BY <1>0 DEF TypeOK, Known
<1>2. \A p \in DOMAIN presses : (\E x \in Places(p) : Places(p) = {x}) /\ ~presses[p].again
  BY <1>0, <1>1, OnePlaceFacts DEF InputInv
<1>3. crossed \/ \A i, j \in DOMAIN done : i < j => done[i].press < done[j].press
  BY <1>0 DEF OrderInv, Rising
<1>4. \A i : Before(i) = BeforeIn(done, i)
  BY DEF Before, BeforeIn
<1>5. ASSUME NEW i \in DOMAIN done
      PROVE  /\ presses[done[i].press].version = done[i].version
                  => done[i].runs = presses[done[i].press].runs
             /\ [level |-> done[i].level, flag |-> done[i].flag]
                  = IF done[i].ok THEN Effect(done[i].runs, Before(i)) ELSE Before(i)
  <2>1. Stored(done, i)
    BY <1>0 DEF SettingsInv
  <2>2. [level |-> done[i].level, flag |-> done[i].flag]
           = IF done[i].ok THEN Effect(done[i].runs, Before(i)) ELSE Before(i)
    BY <2>1, <1>4 DEF Stored
  <2>. QED BY <2>2, <1>0 DEF MeantInv
<1>6. [level |-> level, flag |-> flag] = Before(Len(done) + 1)
  BY <1>0, <1>4 DEF SettingsInv, Settings
<1>. QED BY <1>0, <1>2, <1>3, <1>5, <1>6 DEF ShortcutsMatch, InputInv, SpawnInv

\* Every shortcut pressed is run once, in its order and as it was meant, whatever the chords,
\* the functions, the buttons and the bounds are (vds_companion.cc companion_translate_input;
\* bridge-service.ts pollShortcutEvent, enqueueShortcutEvent, dispatchInputShortcutAction).
THEOREM ShortcutsMatchTheorem ==
    ASSUME ConstantsOK PROVE Spec => []ShortcutsMatch
<1>1. Init => Inv
  BY InvInit
<1>2. Inv /\ [Next]_vars => Inv'
  BY InvStep
<1>3. Inv => ShortcutsMatch
  BY InvShortcutsMatch
<1>. QED BY <1>1, <1>2, <1>3, PTL DEF Spec
=============================================================================
