------------------------ MODULE SettingsStoreProofs -------------------------
(***************************************************************************)
(* The safety of SettingsStore: whatever is edited, deleted, cut, brought  *)
(* back and torn, the parts of the settings agree with each other, a       *)
(* restart goes unnoticed and no profile changes or goes by accident.      *)
(***************************************************************************)
EXTENDS SettingsStore, WellFoundedInduction, TLAPS

(***************************************************************************)
(* Induction over the natural numbers, with a set in the place of the      *)
(* predicate: a set that is closed under the successor and has 0 has all.  *)
(***************************************************************************)
LEMMA LeastNumber ==
    ASSUME NEW S, S \subseteq Nat, S # {}
    PROVE  \E n \in S : \A m \in S : n <= m
<1>1. \E R : /\ IsWellFoundedOn(R, Nat)
             /\ \A m, n \in Nat : m < n => <<m, n>> \in R
  <2>1. \A m, n \in Nat : m < n => <<m, n>> \in OpToRel(<, Nat)
    BY DEF OpToRel
  <2> QED
    BY <2>1, NatLessThanWellFounded
<1>2. PICK R : /\ IsWellFoundedOn(R, Nat)
               /\ \A m, n \in Nat : m < n => <<m, n>> \in R
  BY <1>1
<1>3. IsWellFoundedOn(R, Nat)
  BY <1>2
<1>4. \E n \in S : \A m \in S : ~(<<m, n>> \in R)
  BY <1>3, WFMin
<1>5. PICK n \in S : \A m \in S : ~(<<m, n>> \in R)
  BY <1>4
<1>6. \A m \in S : m \in Nat /\ n \in Nat
  OBVIOUS
<1>7. \A m \in S : ~(m < n)
  BY <1>2, <1>5, <1>6
<1> QED
  BY <1>6, <1>7

LEMMA Induction ==
    ASSUME NEW G, 0 \in G, \A n \in Nat : n \in G => n + 1 \in G
    PROVE  Nat \subseteq G
<1> SUFFICES ASSUME ~(Nat \subseteq G) PROVE FALSE
  OBVIOUS
<1> DEFINE S == Nat \ G
<1>1. S \subseteq Nat /\ S # {}
  OBVIOUS
<1>2. PICK n \in S : \A m \in S : n <= m
  BY <1>1, LeastNumber
<1>3. n \in Nat /\ n # 0 /\ n \notin G
  OBVIOUS
<1>4. n - 1 \in Nat /\ (n - 1) + 1 = n /\ ~(n <= n - 1)
  BY <1>3
<1>5. n - 1 \in G
  BY <1>2, <1>4
<1> QED
  BY <1>3, <1>4, <1>5

(***************************************************************************)
(* Resolving keeps the elements of one list that another has.              *)
(***************************************************************************)

(* What its recursion makes of the first n elements.                       *)
Keeps(bound, fs, kept, n) ==
    IF n = 0 THEN <<>>
    ELSE IF bound[n] \in Range(fs) THEN Append(kept[n - 1], bound[n]) ELSE kept[n - 1]

LEMMA ResolvingExists ==
    ASSUME NEW D, NEW bound \in Seq(D), NEW fs
    PROVE  \E kept : kept = [n \in 0..Len(bound) |-> Keeps(bound, fs, kept, n)]
<1>1. Len(bound) \in Nat /\ \A n \in 1..Len(bound) : bound[n] \in D
  OBVIOUS
<1> DEFINE Good(n) == \E kept \in [0..n -> Seq(D)] :
                          \A i \in 0..n : kept[i] = Keeps(bound, fs, kept, i)
           G == {n \in Nat : n <= Len(bound) => Good(n)}
<1>2. Good(0)
  <2> DEFINE kept == [i \in {0} |-> <<>>]
  <2>1. kept \in [0..0 -> Seq(D)]
    OBVIOUS
  <2> QED
    BY <2>1 DEF Keeps
<1>3. ASSUME NEW n \in Nat, n + 1 <= Len(bound), Good(n) PROVE Good(n + 1)
  <2>1. PICK kept \in [0..n -> Seq(D)] :
            \A i \in 0..n : kept[i] = Keeps(bound, fs, kept, i)
    BY <1>3
  <2>2. /\ kept[n] \in Seq(D) /\ bound[n + 1] \in D
        /\ n + 1 # 0 /\ (n + 1) - 1 = n
        /\ n + 1 \in 0..(n + 1) /\ n + 1 \notin 0..n /\ n \in 0..(n + 1)
    BY <1>1, <1>3
  <2>3. /\ \A i \in 0..(n + 1) : i = n + 1 \/ i \in 0..n
        /\ \A i \in 0..n : i \in 0..(n + 1) /\ (i # 0 => i - 1 \in 0..n)
    BY <1>3
  <2> DEFINE new == Keeps(bound, fs, kept, n + 1)
             longer == [i \in 0..(n + 1) |-> IF i = n + 1 THEN new ELSE kept[i]]
  <2>4. new \in Seq(D)
    <3>1. Append(kept[n], bound[n + 1]) \in Seq(D)
      BY <2>2
    <3> QED
      BY <2>2, <3>1 DEF Keeps
  <2> HIDE DEF new
  <2>5. longer \in [0..(n + 1) -> Seq(D)]
    BY <2>3, <2>4
  <2>6. \A i \in 0..n : longer[i] = kept[i]
    BY <2>2, <2>3
  <2>7. longer[n + 1] = Keeps(bound, fs, longer, n + 1)
    <3>1. longer[n] = kept[n] /\ longer[n + 1] = new
      BY <2>2, <2>6
    <3> HIDE DEF longer
    <3> QED
      BY <2>2, <3>1 DEF new, Keeps
  <2> HIDE DEF longer
  <2>8. \A i \in 0..n : longer[i] = Keeps(bound, fs, longer, i)
    BY <2>1, <2>3, <2>6 DEF Keeps
  <2> QED
    BY <2>3, <2>5, <2>7, <2>8
<1> HIDE DEF Good
<1>4. 0 \in G /\ \A n \in Nat : n \in G => n + 1 \in G
  <2>1. \A n \in Nat : n + 1 <= Len(bound) => n <= Len(bound)
    BY <1>1
  <2> QED
    BY <1>2, <1>3, <2>1
<1>5. Nat \subseteq G
  BY <1>4, Induction
<1>6. Good(Len(bound))
  BY <1>1, <1>5
<1>7. PICK kept \in [0..Len(bound) -> Seq(D)] :
          \A i \in 0..Len(bound) : kept[i] = Keeps(bound, fs, kept, i)
  BY <1>6 DEF Good
<1>8. kept = [n \in 0..Len(bound) |-> Keeps(bound, fs, kept, n)]
  BY <1>7
<1> QED
  BY <1>8

LEMMA ResolvingDef ==
    ASSUME NEW D, NEW bound \in Seq(D), NEW fs
    PROVE  \E kept : /\ kept = [n \in 0..Len(bound) |-> Keeps(bound, fs, kept, n)]
                     /\ Resolving(bound, fs) = kept[Len(bound)]
<1> DEFINE kept == CHOOSE k : k = [n \in 0..Len(bound) |-> Keeps(bound, fs, k, n)]
<1>1. \E k : k = [n \in 0..Len(bound) |-> Keeps(bound, fs, k, n)]
  BY ResolvingExists
<1>2. kept = [n \in 0..Len(bound) |-> Keeps(bound, fs, kept, n)]
  BY <1>1
<1>3. Resolving(bound, fs) = kept[Len(bound)]
  BY DEF Resolving, Keeps
<1> QED
  BY <1>2, <1>3

(* It returns elements of both lists, and the list itself if that has no   *)
(* others.                                                                 *)
LEMMA ResolvingFacts ==
    ASSUME NEW D, NEW bound \in Seq(D), NEW fs
    PROVE  /\ Resolving(bound, fs) \in Seq(D)
           /\ \A i \in 1..Len(Resolving(bound, fs)) :
                  Resolving(bound, fs)[i] \in Range(fs)
           /\ (\A i \in 1..Len(bound) : bound[i] \in Range(fs))
              => Resolving(bound, fs) = bound
<1>1. Len(bound) \in Nat /\ \A n \in 1..Len(bound) : bound[n] \in D
  OBVIOUS
<1>2. PICK kept : /\ kept = [n \in 0..Len(bound) |-> Keeps(bound, fs, kept, n)]
                  /\ Resolving(bound, fs) = kept[Len(bound)]
  BY ResolvingDef
<1>3. \A n \in 0..Len(bound) : kept[n] = Keeps(bound, fs, kept, n)
  BY <1>2
<1> DEFINE All == \A i \in 1..Len(bound) : bound[i] \in Range(fs)
           Good(n) ==
               /\ kept[n] \in Seq(D)
               /\ \A i \in 1..Len(kept[n]) : kept[n][i] \in Range(fs)
               /\ All => Len(kept[n]) = n /\ \A i \in 1..n : kept[n][i] = bound[i]
           G == {n \in Nat : n <= Len(bound) => Good(n)}
<1>4. Good(0)
  <2>1. kept[0] = <<>>
    BY <1>1, <1>3 DEF Keeps
  <2> QED
    BY <2>1
<1>5. ASSUME NEW n \in Nat, n + 1 <= Len(bound), Good(n) PROVE Good(n + 1)
  <2>1. /\ n + 1 \in 1..Len(bound) /\ n + 1 # 0 /\ (n + 1) - 1 = n
        /\ n + 1 \in 0..Len(bound) /\ bound[n + 1] \in D
    BY <1>1, <1>5
  <2>2. kept[n] \in Seq(D)
    BY <1>5
  <2>3. CASE bound[n + 1] \in Range(fs)
    <3>1. kept[n + 1] = Append(kept[n], bound[n + 1])
      BY <1>3, <2>1, <2>3 DEF Keeps
    <3> DEFINE q == kept[n]
    <3>2. /\ q \in Seq(D) /\ Append(q, bound[n + 1]) \in Seq(D)
          /\ Len(Append(q, bound[n + 1])) = Len(q) + 1
          /\ \A i \in 1..Len(q) : Append(q, bound[n + 1])[i] = q[i]
          /\ Append(q, bound[n + 1])[Len(q) + 1] = bound[n + 1]
      BY <2>1, <2>2
    <3>3. \A i \in 1..Len(kept[n + 1]) : kept[n + 1][i] \in Range(fs)
      BY <1>5, <2>3, <3>1, <3>2
    <3>4. ASSUME All
          PROVE  Len(kept[n + 1]) = n + 1 /\ \A i \in 1..(n + 1) : kept[n + 1][i] = bound[i]
      BY <1>5, <3>1, <3>2, <3>4
    <3> QED
      BY <3>1, <3>2, <3>3, <3>4
  <2>4. CASE bound[n + 1] \notin Range(fs)
    <3>1. kept[n + 1] = kept[n] /\ ~All
      BY <1>3, <2>1, <2>4 DEF Keeps
    <3> QED
      BY <1>5, <3>1
  <2> QED
    BY <2>3, <2>4
<1> HIDE DEF Good
<1>6. 0 \in G /\ \A n \in Nat : n \in G => n + 1 \in G
  <2>1. \A n \in Nat : n + 1 <= Len(bound) => n <= Len(bound)
    BY <1>1
  <2> QED
    BY <1>4, <1>5, <2>1
<1>7. Nat \subseteq G
  BY <1>6, Induction
<1>8. Good(Len(bound))
  BY <1>1, <1>7
<1>9. All => kept[Len(bound)] = bound
  BY <1>1, <1>8 DEF Good
<1> QED
  BY <1>2, <1>8, <1>9 DEF Good

(***************************************************************************)
(* Lists of profiles and of chords.                                        *)
(***************************************************************************)
LEMMA ListType ==
    ASSUME NEW S, NEW list
    PROVE  list \in Lists(S) <=> /\ DOMAIN list \subseteq Ids
                                 /\ list \in [DOMAIN list -> S]
BY DEF Lists

LEMMA PutFacts ==
    ASSUME NEW S, NEW list \in Lists(S), NEW id \in Ids, NEW x \in S
    PROVE  /\ Put(list, id, x) \in Lists(S)
           /\ \A i : i \in DOMAIN Put(list, id, x) <=> i \in DOMAIN list \/ i = id
           /\ Put(list, id, x)[id] = x
           /\ \A i \in DOMAIN list : i # id => Put(list, id, x)[i] = list[i]
           /\ id \in DOMAIN list /\ list[id] = x => Put(list, id, x) = list
<1> DEFINE new == Put(list, id, x)
<1>1. DOMAIN list \subseteq Ids /\ list \in [DOMAIN list -> S]
  BY ListType
<1>2. /\ DOMAIN new = DOMAIN list \cup {id} /\ new \in [DOMAIN list \cup {id} -> S]
      /\ new[id] = x /\ \A i \in DOMAIN list : i # id => new[i] = list[i]
  BY <1>1 DEF Put
<1>3. new \in Lists(S)
  BY <1>1, <1>2, ListType
<1>4. ASSUME id \in DOMAIN list, list[id] = x PROVE new = list
  BY <1>1, <1>4 DEF Put
<1> QED
  BY <1>2, <1>3, <1>4

LEMMA WithoutFacts ==
    ASSUME NEW S, NEW list \in Lists(S), NEW id
    PROVE  /\ Without(list, id) \in Lists(S)
           /\ \A i : i \in DOMAIN Without(list, id) <=> i \in DOMAIN list /\ i # id
           /\ \A i \in DOMAIN list : i # id => Without(list, id)[i] = list[i]
<1> DEFINE new == Without(list, id)
<1>1. DOMAIN list \subseteq Ids /\ list \in [DOMAIN list -> S]
  BY ListType
<1>2. /\ DOMAIN new = DOMAIN list \ {id} /\ new \in [DOMAIN list \ {id} -> S]
      /\ \A i \in DOMAIN list : i # id => new[i] = list[i]
  BY <1>1 DEF Without
<1>3. new \in Lists(S)
  BY <1>1, <1>2, ListType
<1> QED
  BY <1>2, <1>3

LEMMA FirstOfFacts ==
    ASSUME NEW S, NEW q \in Seq(S), NEW n \in Nat
    PROVE  /\ FirstOf(q, n) \in Seq(S)
           /\ Len(FirstOf(q, n)) <= n
           /\ \A i \in 1..Len(FirstOf(q, n)) : i \in 1..Len(q) /\ FirstOf(q, n)[i] = q[i]
           /\ Len(q) <= n => FirstOf(q, n) = q
<1> DEFINE m == IF Len(q) < n THEN Len(q) ELSE n
<1>1. m \in Nat /\ m <= n /\ m <= Len(q) /\ Len(q) \in Nat
  OBVIOUS
<1> HIDE DEF m
<1>2. /\ SubSeq(q, 1, m) \in Seq(S) /\ Len(SubSeq(q, 1, m)) = m
      /\ \A i \in 1..m : i \in 1..Len(q) /\ SubSeq(q, 1, m)[i] = q[i]
  BY <1>1
<1>3. FirstOf(q, n) = SubSeq(q, 1, m)
  BY DEF FirstOf, m
<1>4. Len(q) <= n => SubSeq(q, 1, m) = q
  BY <1>1, <1>2 DEF m
<1> QED
  BY <1>1, <1>2, <1>3, <1>4

(* A chord list is drawn from a list of functions.                         *)
Resolves(bound, fs) == \A i \in 1..Len(bound) : bound[i] \in Range(fs)

LEMMA AssignmentFacts ==
    ASSUME NEW bound \in Seq(Functions), NEW fs
    PROVE  /\ NormalizedAssignments(bound, fs) \in Seq(Functions)
           /\ Len(NormalizedAssignments(bound, fs)) <= MaxAssignments
           /\ Resolves(NormalizedAssignments(bound, fs), fs)
           /\ Resolves(bound, fs) /\ Len(bound) <= MaxAssignments
              => NormalizedAssignments(bound, fs) = bound
<1> DEFINE q == Resolving(bound, fs)
<1>1. /\ q \in Seq(Functions) /\ Resolves(q, fs)
      /\ Resolves(bound, fs) => q = bound
  BY ResolvingFacts DEF Resolves
<1>2. NormalizedAssignments(bound, fs) = FirstOf(q, MaxAssignments)
  BY DEF NormalizedAssignments
<1>3. MaxAssignments \in Nat
  BY StoreAssumption
<1> HIDE DEF q
<1> QED
  BY <1>1, <1>2, <1>3, FirstOfFacts DEF Resolves

(***************************************************************************)
(* The inductive invariant.                                                *)
(***************************************************************************)

(* What normalizeSettings makes of any settings, and leaves as it is.      *)
Normal(s) ==
    /\ s \in Settings
    /\ Default \in DOMAIN s.profiles /\ s.profiles[Default] = Pristine
    /\ s.sel \in DOMAIN s.profiles
    /\ Default \in DOMAIN s.remaps /\ s.remaps[Default] = Identity
    /\ s.remapSel \in DOMAIN s.remaps
    /\ Len(s.functions) <= MaxFunctions /\ Len(s.assignments) <= MaxAssignments
    /\ Resolves(s.assignments, s.functions)

(* What is selected is in force.                                           *)
Agrees(s) ==
    /\ s.preset = "custom" => s.tuning = s.profiles[s.sel]
    /\ s.draft = s.remaps[s.remapSel]

Sound(s) == Normal(s) /\ Agrees(s)

(* Memory and file say the same: the file was written last, or it was not  *)
(* readable and memory has the defaults.                                   *)
FileInv ==
    IF file \in {NoFile, TornFile}
    THEN settings = Defaults /\ customSettings = CustomSettingsFrom(Defaults)
    ELSE file = Written(settings, customSettings)

StoreInv ==
    /\ Sound(settings) /\ Sound(customSettings)
    /\ customSettings.preset = "custom"
    /\ FileInv

LEMMA PristineType == Pristine \in Tunings /\ Identity \in Mappings /\ Default \in Ids
BY StoreAssumption DEF Pristine, Tunings

LEMMA SettingsType ==
    ASSUME NEW s \in Settings
    PROVE  /\ s.preset \in Presets \cup {"custom"} /\ s.tuning \in Tunings
           /\ s.other \in Others /\ s.sel \in Ids /\ s.profiles \in Lists(Tunings)
           /\ s.remapSel \in Ids /\ s.remaps \in Lists(Mappings) /\ s.draft \in Mappings
           /\ s.functions \in Seq(Functions) /\ s.assignments \in Seq(Functions)
BY DEF Settings

LEMMA NormalizeFields ==
    ASSUME NEW s \in Settings
    PROVE  /\ Normalize(s).preset = s.preset /\ Normalize(s).tuning = s.tuning
           /\ Normalize(s).other = s.other /\ Normalize(s).draft = s.draft
           /\ Normalize(s).profiles = Put(s.profiles, Default, Pristine)
           /\ Normalize(s).sel = SelectedIn(Normalize(s).profiles, s.sel)
           /\ Normalize(s).remaps = Put(s.remaps, Default, Identity)
           /\ Normalize(s).remapSel = SelectedIn(Normalize(s).remaps, s.remapSel)
           /\ Normalize(s).functions = FirstOf(s.functions, MaxFunctions)
           /\ Normalize(s).assignments =
                  NormalizedAssignments(s.assignments, Normalize(s).functions)
           /\ Normalize(s) =
                  [preset |-> s.preset, tuning |-> s.tuning, other |-> s.other,
                   sel |-> Normalize(s).sel, profiles |-> Normalize(s).profiles,
                   remapSel |-> Normalize(s).remapSel, remaps |-> Normalize(s).remaps,
                   draft |-> s.draft, functions |-> Normalize(s).functions,
                   assignments |-> Normalize(s).assignments]
<1> DEFINE profiles == Put(s.profiles, Default, Pristine)
           remaps == Put(s.remaps, Default, Identity)
           functions == FirstOf(s.functions, MaxFunctions)
           sel == SelectedIn(profiles, s.sel)
           remapSel == SelectedIn(remaps, s.remapSel)
           assignments == NormalizedAssignments(s.assignments, functions)
<1>1. Normalize(s) = [s EXCEPT !.profiles = profiles, !.sel = sel, !.remaps = remaps,
                               !.remapSel = remapSel, !.functions = functions,
                               !.assignments = assignments]
  BY Zenon DEF Normalize, NormalizedProfiles, NormalizedRemaps, NormalizedFunctions
<1> HIDE DEF profiles, remaps, functions, sel, remapSel, assignments
<1>2. Normalize(s) = [preset |-> s.preset, tuning |-> s.tuning, other |-> s.other,
                      sel |-> sel, profiles |-> profiles, remapSel |-> remapSel,
                      remaps |-> remaps, draft |-> s.draft, functions |-> functions,
                      assignments |-> assignments]
  BY <1>1 DEF Settings
<1> QED
  BY <1>2 DEF profiles, remaps, functions, sel, remapSel, assignments

LEMMA NormalizeFacts ==
    ASSUME NEW s \in Settings
    PROVE  /\ Normal(Normalize(s))
           /\ s.sel \in DOMAIN s.profiles => Normalize(s).sel = s.sel
           /\ s.remapSel \in DOMAIN s.remaps => Normalize(s).remapSel = s.remapSel
<1> DEFINE n == Normalize(s)
<1>1. /\ n.preset = s.preset /\ n.tuning = s.tuning /\ n.other = s.other
      /\ n.draft = s.draft
      /\ n.profiles = Put(s.profiles, Default, Pristine)
      /\ n.sel = SelectedIn(n.profiles, s.sel)
      /\ n.remaps = Put(s.remaps, Default, Identity)
      /\ n.remapSel = SelectedIn(n.remaps, s.remapSel)
      /\ n.functions = FirstOf(s.functions, MaxFunctions)
      /\ n.assignments = NormalizedAssignments(s.assignments, n.functions)
  BY NormalizeFields
<1>2. n = [preset |-> s.preset, tuning |-> s.tuning, other |-> s.other,
           sel |-> n.sel, profiles |-> n.profiles, remapSel |-> n.remapSel,
           remaps |-> n.remaps, draft |-> s.draft, functions |-> n.functions,
           assignments |-> n.assignments]
  BY NormalizeFields
<1> HIDE DEF n
<1>3. /\ s.preset \in Presets \cup {"custom"} /\ s.tuning \in Tunings
      /\ s.other \in Others /\ s.sel \in Ids /\ s.profiles \in Lists(Tunings)
      /\ s.remapSel \in Ids /\ s.remaps \in Lists(Mappings) /\ s.draft \in Mappings
      /\ s.functions \in Seq(Functions) /\ s.assignments \in Seq(Functions)
  BY SettingsType
<1>4. /\ n.profiles \in Lists(Tunings) /\ n.profiles[Default] = Pristine
      /\ \A i : i \in DOMAIN n.profiles <=> i \in DOMAIN s.profiles \/ i = Default
  <2>1. s.profiles \in Lists(Tunings) /\ n.profiles = Put(s.profiles, Default, Pristine)
    BY <1>1, <1>3
  <2>2. /\ Put(s.profiles, Default, Pristine) \in Lists(Tunings)
        /\ Put(s.profiles, Default, Pristine)[Default] = Pristine
        /\ \A i : i \in DOMAIN Put(s.profiles, Default, Pristine)
                  <=> i \in DOMAIN s.profiles \/ i = Default
    BY <2>1, PristineType, PutFacts
  <2> QED
    BY <2>1, <2>2
<1>5. /\ n.remaps \in Lists(Mappings) /\ n.remaps[Default] = Identity
      /\ \A i : i \in DOMAIN n.remaps <=> i \in DOMAIN s.remaps \/ i = Default
  <2>1. s.remaps \in Lists(Mappings) /\ n.remaps = Put(s.remaps, Default, Identity)
    BY <1>1, <1>3
  <2>2. /\ Put(s.remaps, Default, Identity) \in Lists(Mappings)
        /\ Put(s.remaps, Default, Identity)[Default] = Identity
        /\ \A i : i \in DOMAIN Put(s.remaps, Default, Identity)
                  <=> i \in DOMAIN s.remaps \/ i = Default
    BY <2>1, PristineType, PutFacts
  <2> QED
    BY <2>1, <2>2
<1>6. /\ n.sel \in DOMAIN n.profiles /\ n.remapSel \in DOMAIN n.remaps
      /\ s.sel \in DOMAIN s.profiles => n.sel = s.sel
      /\ s.remapSel \in DOMAIN s.remaps => n.remapSel = s.remapSel
      /\ n.sel \in Ids /\ n.remapSel \in Ids
  BY <1>1, <1>3, <1>4, <1>5, PristineType DEF SelectedIn
<1>7. n.functions \in Seq(Functions) /\ Len(n.functions) <= MaxFunctions
  BY <1>1, <1>3, StoreAssumption, FirstOfFacts
<1>8. /\ n.assignments \in Seq(Functions) /\ Len(n.assignments) <= MaxAssignments
      /\ Resolves(n.assignments, n.functions)
  BY <1>1, <1>3, AssignmentFacts
<1>9. n \in Settings
  BY <1>2, <1>3, <1>4, <1>5, <1>6, <1>7, <1>8 DEF Settings
<1> QED
  BY <1>4, <1>5, <1>6, <1>7, <1>8, <1>9 DEF Normal, n

LEMMA NormalIsFixed ==
    ASSUME NEW s, Normal(s)
    PROVE  Normalize(s) = s
<1>1. s \in Settings
  BY DEF Normal
<1>2. /\ s.profiles \in Lists(Tunings) /\ s.remaps \in Lists(Mappings)
      /\ s.functions \in Seq(Functions) /\ s.assignments \in Seq(Functions)
  BY <1>1, SettingsType
<1>3. Put(s.profiles, Default, Pristine) = s.profiles
  BY <1>2, PristineType, PutFacts DEF Normal
<1>4. Put(s.remaps, Default, Identity) = s.remaps
  BY <1>2, PristineType, PutFacts DEF Normal
<1>5. FirstOf(s.functions, MaxFunctions) = s.functions
  BY <1>2, StoreAssumption, FirstOfFacts DEF Normal
<1>6. NormalizedAssignments(s.assignments, s.functions) = s.assignments
  BY <1>2, AssignmentFacts DEF Normal
<1>7. SelectedIn(s.profiles, s.sel) = s.sel /\ SelectedIn(s.remaps, s.remapSel) = s.remapSel
  BY DEF Normal, SelectedIn
<1>8. Normalize(s) = [preset |-> s.preset, tuning |-> s.tuning, other |-> s.other,
                      sel |-> s.sel, profiles |-> s.profiles, remapSel |-> s.remapSel,
                      remaps |-> s.remaps, draft |-> s.draft,
                      functions |-> s.functions, assignments |-> s.assignments]
  BY <1>1, <1>3, <1>4, <1>5, <1>6, <1>7, NormalizeFields
<1>9. s = [preset |-> s.preset, tuning |-> s.tuning, other |-> s.other,
           sel |-> s.sel, profiles |-> s.profiles, remapSel |-> s.remapSel,
           remaps |-> s.remaps, draft |-> s.draft,
           functions |-> s.functions, assignments |-> s.assignments]
  BY <1>1 DEF Settings
<1> QED
  BY <1>8, <1>9

(* Under the preset "custom" nothing but the preset is new.                *)
LEMMA CustomIsSound ==
    ASSUME NEW s, Sound(s), s.tuning = s.profiles[s.sel]
    PROVE  /\ CustomSettingsFrom(s) = [s EXCEPT !.preset = "custom"]
           /\ Sound([s EXCEPT !.preset = "custom"])
           /\ [s EXCEPT !.preset = "custom"].preset = "custom"
           /\ [s EXCEPT !.preset = "custom"].profiles = s.profiles
           /\ [s EXCEPT !.preset = "custom"].remaps = s.remaps
<1> DEFINE c == [s EXCEPT !.preset = "custom"]
<1>1. s \in Settings
  BY DEF Sound, Normal
<1>2. /\ c \in Settings /\ c.preset = "custom" /\ c.tuning = s.tuning /\ c.other = s.other
      /\ c.sel = s.sel /\ c.profiles = s.profiles /\ c.remapSel = s.remapSel
      /\ c.remaps = s.remaps /\ c.draft = s.draft /\ c.functions = s.functions
      /\ c.assignments = s.assignments
  BY <1>1 DEF Settings
<1>3. CustomSettingsFrom(s) = Normalize(c)
  BY DEF CustomSettingsFrom
<1> HIDE DEF c
<1>4. Normal(c) /\ Agrees(c)
  BY <1>2 DEF Sound, Normal, Agrees
<1> QED
  BY <1>2, <1>3, <1>4, NormalIsFixed DEF Sound, c

LEMMA DefaultsAreSound ==
    /\ Sound(Defaults) /\ Sound(CustomSettingsFrom(Defaults))
    /\ CustomSettingsFrom(Defaults).preset = "custom"
    /\ Defaults.tuning = Defaults.profiles[Defaults.sel]
<1>1. [i \in {Default} |-> Pristine] \in Lists(Tunings)
  BY PristineType, ListType
<1>2. [i \in {Default} |-> Identity] \in Lists(Mappings)
  BY PristineType, ListType
<1>3. Defaults \in Settings
  BY <1>1, <1>2, PristineType, StoreAssumption DEF Defaults, Settings
<1>4. Normal(Defaults)
  BY <1>3, PristineType, StoreAssumption DEF Defaults, Normal, Resolves
<1>5. Agrees(Defaults) /\ Defaults.tuning = Defaults.profiles[Defaults.sel]
  BY DEF Defaults, Agrees
<1> QED
  BY <1>4, <1>5, CustomIsSound DEF Sound

(***************************************************************************)
(* The operations.                                                         *)
(***************************************************************************)

(* Default is as it must be and what is selected exists.                   *)
Selects(s) ==
    /\ s \in Settings
    /\ Default \in DOMAIN s.profiles /\ s.profiles[Default] = Pristine
    /\ s.sel \in DOMAIN s.profiles
    /\ Default \in DOMAIN s.remaps /\ s.remaps[Default] = Identity
    /\ s.remapSel \in DOMAIN s.remaps

(* The fields that the lists of profiles are about.                        *)
SameFields(s, t) ==
    /\ t.preset = s.preset /\ t.tuning = s.tuning /\ t.draft = s.draft
    /\ t.sel = s.sel /\ t.profiles = s.profiles
    /\ t.remapSel = s.remapSel /\ t.remaps = s.remaps

LEMMA NormalizeKeeps ==
    ASSUME NEW s, Selects(s)
    PROVE  /\ Normal(Normalize(s)) /\ SameFields(s, Normalize(s))
           /\ Agrees(s) => Sound(Normalize(s))
<1>1. s \in Settings /\ s.profiles \in Lists(Tunings) /\ s.remaps \in Lists(Mappings)
  BY SettingsType DEF Selects
<1>2. Put(s.profiles, Default, Pristine) = s.profiles
  BY <1>1, PristineType, PutFacts DEF Selects
<1>3. Put(s.remaps, Default, Identity) = s.remaps
  BY <1>1, PristineType, PutFacts DEF Selects
<1>4. Normal(Normalize(s)) /\ SameFields(s, Normalize(s))
  BY <1>1, <1>2, <1>3, NormalizeFields, NormalizeFacts DEF Selects, SameFields
<1> QED
  BY <1>4 DEF SameFields, Agrees, Sound

LEMMA WriteSound ==
    ASSUME NEW s, NEW c, Sound(s), Sound(c), c.preset = "custom", Write(s, c)
    PROVE  StoreInv' /\ settings' = s
<1>1. settings' = s /\ customSettings' = c /\ file' = Written(s, c)
  BY DEF Write
<1>2. file'.kind = "json" /\ NoFile.kind = "absent" /\ TornFile.kind = "torn"
  BY <1>1 DEF Written, NoFile, TornFile
<1>3. file' \notin {NoFile, TornFile}
  BY <1>2
<1>4. FileInv'
  BY <1>1, <1>3 DEF FileInv
<1> QED
  BY <1>1, <1>4 DEF StoreInv, Sound, Normal, Agrees

LEMMA CommitSound ==
    ASSUME StoreInv, NEW s, Sound(s), Commit(s)
    PROVE  StoreInv' /\ settings' = s
<1> DEFINE c == IF s.preset = "custom" THEN s ELSE customSettings
<1>1. Sound(c) /\ c.preset = "custom"
  BY DEF StoreInv
<1>2. Write(s, c)
  BY DEF Commit
<1> HIDE DEF c
<1> QED
  BY <1>1, <1>2, WriteSound

(* Settings that are normalized once more and committed.                   *)
LEMMA CommitNormalized ==
    ASSUME StoreInv, NEW s, Selects(s), Agrees(s), Commit(Normalize(s))
    PROVE  /\ StoreInv'
           /\ settings'.profiles = s.profiles /\ settings'.remaps = s.remaps
BY NormalizeKeeps, CommitSound DEF SameFields

LEMMA StoreSelects ==
    ASSUME StoreInv
    PROVE  /\ Selects(settings) /\ Agrees(settings) /\ Normal(settings)
           /\ settings.profiles \in Lists(Tunings) /\ settings.remaps \in Lists(Mappings)
           /\ settings.tuning \in Tunings /\ settings.draft \in Mappings
           /\ settings.sel \in Ids /\ settings.remapSel \in Ids
<1>1. Selects(settings) /\ Agrees(settings) /\ Normal(settings)
  BY DEF StoreInv, Sound, Normal, Selects
<1> QED
  BY <1>1, SettingsType DEF Selects

(* A list that only loses profiles, and one that only changes one.         *)
LEMMA UnchangedLists ==
    ASSUME \A id \in DOMAIN settings.profiles :
               /\ id \in DOMAIN settings'.profiles
               /\ settings'.profiles[id] = settings.profiles[id],
           \A id \in DOMAIN settings.remaps : id \in DOMAIN settings'.remaps
    PROVE  EditStaysLocal /\ NoProfileLost
BY DEF EditStaysLocal, NoProfileLost

LEMMA TuningKept ==
    ASSUME StoreInv, NEW t \in Tunings, NEW custom \in BOOLEAN, UpdateTuning(t, custom)
    PROVE  StoreInv' /\ EditStaysLocal /\ NoProfileLost
<1> DEFINE edited == [settings EXCEPT !.tuning = t, !.preset = IF custom THEN "custom" ELSE @]
           live == Normalize(edited)
           id == IF live.sel = Default THEN CustomId ELSE live.sel
           synced == [live EXCEPT !.sel = id, !.profiles = Put(@, id, live.tuning)]
<1>1. /\ Selects(settings) /\ Agrees(settings)
      /\ settings.profiles \in Lists(Tunings) /\ settings.remaps \in Lists(Mappings)
  BY StoreSelects
<1>2. Commit(SyncController(live))
  BY DEF UpdateTuning
<1>3. /\ Selects(edited) /\ edited.tuning = t /\ edited.draft = settings.draft
      /\ edited.profiles = settings.profiles /\ edited.sel = settings.sel
      /\ edited.remaps = settings.remaps /\ edited.remapSel = settings.remapSel
  BY <1>1 DEF Selects, Settings
<1> HIDE DEF edited
<1>4. /\ live \in Settings /\ live.tuning = t /\ live.draft = settings.draft
      /\ live.profiles = settings.profiles /\ live.sel = settings.sel
      /\ live.remaps = settings.remaps /\ live.remapSel = settings.remapSel
  BY <1>3, NormalizeKeeps DEF SameFields, Normal
<1> HIDE DEF live
<1>5. Commit(Normalize(synced))
  BY <1>2 DEF SyncController
<1>6. id \in Ids /\ id # Default
  BY <1>4, StoreAssumption, StoreSelects
<1> DEFINE list == Put(settings.profiles, id, t)
<1>7. /\ list \in Lists(Tunings) /\ list[id] = t /\ id \in DOMAIN list
      /\ Default \in DOMAIN list /\ list[Default] = Pristine
      /\ \A i \in DOMAIN settings.profiles :
             i \in DOMAIN list /\ (i # id => list[i] = settings.profiles[i])
  BY <1>1, <1>6, PutFacts DEF Selects
<1> HIDE DEF list
<1>8. synced = [live EXCEPT !.sel = id, !.profiles = list]
  BY <1>4 DEF list
<1> HIDE DEF synced, id
<1>9. /\ synced \in Settings /\ synced.tuning = t /\ synced.draft = settings.draft
      /\ synced.profiles = list /\ synced.sel = id
      /\ synced.remaps = settings.remaps /\ synced.remapSel = settings.remapSel
  BY <1>4, <1>6, <1>7, <1>8 DEF Settings
<1>10. Selects(synced) /\ Agrees(synced)
  BY <1>1, <1>7, <1>9 DEF Selects, Agrees
<1>11. StoreInv' /\ settings'.profiles = list /\ settings'.remaps = settings.remaps
  BY <1>5, <1>9, <1>10, CommitNormalized
<1>12. EditStaysLocal
  BY <1>4, <1>7, <1>11 DEF EditStaysLocal, id
<1>13. NoProfileLost
  BY <1>7, <1>11 DEF NoProfileLost
<1> QED
  BY <1>11, <1>12, <1>13

LEMMA OtherKept ==
    ASSUME StoreInv, NEW x \in Others, UpdateOther(x)
    PROVE  StoreInv' /\ EditStaysLocal /\ NoProfileLost
<1> DEFINE edited == [settings EXCEPT !.other = x]
<1>1. Selects(settings) /\ Agrees(settings)
  BY StoreSelects
<1>2. /\ Selects(edited) /\ Agrees(edited)
      /\ edited.profiles = settings.profiles /\ edited.remaps = settings.remaps
  BY <1>1 DEF Selects, Agrees, Settings
<1>3. Commit(Normalize(edited))
  BY DEF UpdateOther
<1> HIDE DEF edited
<1> QED
  BY <1>2, <1>3, CommitNormalized, UnchangedLists

LEMMA PresetKept ==
    ASSUME StoreInv, NEW p \in Presets \cup {"custom"}, ApplyPreset(p)
    PROVE  StoreInv' /\ EditStaysLocal /\ NoProfileLost
<1> DEFINE custom == IF settings.preset = "custom" THEN settings ELSE customSettings
           edited == [settings EXCEPT !.preset = p, !.tuning.feel = PresetFeel[p][@]]
<1>1. Sound(custom) /\ custom.preset = "custom"
  BY DEF StoreInv
<1>2. \/ p = "custom" /\ Write([custom EXCEPT !.preset = "custom"], custom)
      \/ p \in Presets /\ Write(Normalize(edited), custom)
  BY DEF ApplyPreset
<1> HIDE DEF custom
<1>3. CASE p = "custom" /\ Write([custom EXCEPT !.preset = "custom"], custom)
  <2>1. custom.tuning = custom.profiles[custom.sel]
    BY <1>1 DEF Sound, Agrees
  <2>2. Sound([custom EXCEPT !.preset = "custom"])
    BY <1>1, <2>1, CustomIsSound
  <2>3. StoreInv'
    BY <1>1, <1>3, <2>2, WriteSound
  <2> QED
    BY <1>3, <2>3 DEF EditStaysLocal, NoProfileLost
<1>4. CASE p \in Presets /\ Write(Normalize(edited), custom)
  <2>1. Selects(settings) /\ Agrees(settings)
    BY StoreSelects
  <2>2. /\ settings.tuning.feel \in Feels /\ settings.tuning.rest \in Rests
        /\ p # "custom" /\ PresetFeel[p] \in [Feels -> Feels]
    BY <1>4, <2>1, StoreAssumption, SettingsType DEF Selects, Tunings
  <2>3. [settings.tuning EXCEPT !.feel = PresetFeel[p][@]] \in Tunings
    BY <2>1, <2>2, SettingsType DEF Selects, Tunings
  <2> DEFINE feel == PresetFeel[p][settings.tuning.feel]
             tuning == [settings.tuning EXCEPT !.feel = feel]
  <2>4. edited = [settings EXCEPT !.preset = p, !.tuning = tuning]
    BY <2>1 DEF Selects, Settings
  <2>5. tuning \in Tunings
    BY <2>3
  <2> HIDE DEF edited, tuning
  <2>6. /\ Selects(edited) /\ Agrees(edited)
        /\ edited.profiles = settings.profiles /\ edited.remaps = settings.remaps
    BY <1>4, <2>1, <2>2, <2>5, <2>4 DEF Selects, Agrees, Settings
  <2>7. /\ Sound(Normalize(edited)) /\ Normalize(edited).profiles = settings.profiles
        /\ Normalize(edited).remaps = settings.remaps
    BY <2>6, NormalizeKeeps DEF SameFields
  <2>8. StoreInv' /\ settings' = Normalize(edited)
    BY <1>1, <1>4, <2>7, WriteSound
  <2> QED
    BY <2>7, <2>8, UnchangedLists
<1> QED
  BY <1>2, <1>3, <1>4

LEMMA DefaultsKept ==
    ASSUME StoreInv, RestoreDefaults
    PROVE  StoreInv' /\ EditStaysLocal /\ NoProfileLost
<1> DEFINE list == Put(settings.profiles, Default, Pristine)
           start == [Defaults EXCEPT !.profiles = list]
           s == Normalize(start)
<1>1. /\ Selects(settings) /\ settings.profiles \in Lists(Tunings)
  BY StoreSelects
<1>2. list = settings.profiles
  BY <1>1, PristineType, PutFacts DEF Selects
<1>3. Selects(Defaults)
  BY DefaultsAreSound DEF Sound, Normal, Selects
<1>4. /\ Defaults.sel = Default /\ Defaults.tuning = Pristine
      /\ Defaults.draft = Defaults.remaps[Defaults.remapSel]
  BY DefaultsAreSound DEF Defaults, Sound, Agrees
<1> HIDE DEF list
<1>5. /\ Selects(start) /\ start.profiles = settings.profiles
      /\ start.tuning = start.profiles[start.sel] /\ Agrees(start)
  BY <1>1, <1>2, <1>3, <1>4 DEF Selects, Agrees, Settings
<1>6. Write(s, CustomSettingsFrom(s))
  BY DEF RestoreDefaults, NormalizedProfiles, list
<1> HIDE DEF start
<1>7. Sound(s) /\ s.profiles = settings.profiles /\ s.tuning = s.profiles[s.sel]
  BY <1>5, NormalizeKeeps DEF SameFields
<1> HIDE DEF s
<1>8. Sound(CustomSettingsFrom(s)) /\ CustomSettingsFrom(s).preset = "custom"
  BY <1>7, CustomIsSound
<1>9. StoreInv' /\ settings'.profiles = settings.profiles
  BY <1>6, <1>7, <1>8, WriteSound
<1> QED
  BY <1>9 DEF EditStaysLocal, NoProfileLost

(***************************************************************************)
(* The controller profiles.                                                *)
(***************************************************************************)

(* A profile is chosen from a list that has Default as it must be.         *)
LEMMA ChosenController ==
    ASSUME StoreInv, NEW list \in Lists(Tunings), NEW id \in DOMAIN list,
           Default \in DOMAIN list, list[Default] = Pristine,
           ChooseController([settings EXCEPT !.profiles = list], id)
    PROVE  /\ StoreInv'
           /\ settings'.profiles = list /\ settings'.remaps = settings.remaps
<1> DEFINE s == [settings EXCEPT !.profiles = list]
           chosen == [s EXCEPT !.sel = id, !.tuning = NormalizedProfiles(s.profiles)[id]]
<1>1. Selects(settings) /\ Agrees(settings)
  BY StoreSelects
<1>2. Commit(Normalize(chosen))
  BY DEF ChooseController
<1>3. /\ s \in Settings /\ s.profiles = list /\ s.remaps = settings.remaps
      /\ s.remapSel = settings.remapSel /\ s.draft = settings.draft
  BY <1>1 DEF Selects, Settings
<1>4. id \in Ids /\ list[id] \in Tunings
  BY ListType
<1>5. NormalizedProfiles(s.profiles)[id] = list[id]
  BY <1>3, PristineType, PutFacts DEF NormalizedProfiles
<1>6. chosen = [s EXCEPT !.sel = id, !.tuning = list[id]]
  BY <1>5
<1> HIDE DEF s, chosen
<1>7. /\ chosen \in Settings /\ chosen.sel = id /\ chosen.tuning = list[id]
      /\ chosen.profiles = list /\ chosen.remaps = settings.remaps
      /\ chosen.remapSel = settings.remapSel /\ chosen.draft = settings.draft
  BY <1>3, <1>4, <1>6 DEF Settings
<1>8. Selects(chosen) /\ Agrees(chosen)
  BY <1>1, <1>7 DEF Selects, Agrees
<1> QED
  BY <1>2, <1>7, <1>8, CommitNormalized

(* The lists of the settings in the place of those they have.              *)
LEMMA SameProfiles ==
    ASSUME Selects(settings)
    PROVE  /\ [settings EXCEPT !.profiles = settings.profiles] = settings
           /\ [settings EXCEPT !.remaps = settings.remaps] = settings
BY DEF Selects, Settings

LEMMA SelectControllerKept ==
    ASSUME StoreInv, NEW id \in Ids, SelectControllerProfile(id)
    PROVE  StoreInv' /\ EditStaysLocal /\ NoProfileLost
<1> DEFINE sel == SelectedIn(settings.profiles, id)
<1>1. /\ Selects(settings) /\ settings.profiles \in Lists(Tunings)
      /\ Default \in DOMAIN settings.profiles
      /\ settings.profiles[Default] = Pristine
  BY StoreSelects DEF Selects
<1>2. sel \in DOMAIN settings.profiles
  BY <1>1 DEF SelectedIn
<1>3. ChooseController(settings, sel)
  BY DEF SelectControllerProfile
<1> HIDE DEF sel
<1>4. ChooseController([settings EXCEPT !.profiles = settings.profiles], sel)
  BY <1>1, <1>3, SameProfiles
<1>5. /\ StoreInv' /\ settings'.profiles = settings.profiles
      /\ settings'.remaps = settings.remaps
  BY <1>1, <1>2, <1>4, ChosenController
<1> QED
  BY <1>5, UnchangedLists

(* A list that gets one profile, which may be the one selected.            *)
LEMMA PutController ==
    ASSUME StoreInv, NEW id \in Ids \ {Default}, NEW sel \in Ids,
           sel = id \/ sel = settings.sel,
           Commit(Normalize([settings EXCEPT
               !.profiles = Put(settings.profiles, id, settings.tuning), !.sel = sel]))
    PROVE  /\ StoreInv' /\ settings'.remaps = settings.remaps
           /\ \A i \in DOMAIN settings.profiles :
                  /\ i \in DOMAIN settings'.profiles
                  /\ i # id => settings'.profiles[i] = settings.profiles[i]
<1> DEFINE list == Put(settings.profiles, id, settings.tuning)
           s == [settings EXCEPT !.profiles = list, !.sel = sel]
<1>1. /\ Selects(settings) /\ Agrees(settings)
      /\ settings.profiles \in Lists(Tunings) /\ settings.tuning \in Tunings
  BY StoreSelects
<1>2. /\ list \in Lists(Tunings) /\ list[id] = settings.tuning /\ id \in DOMAIN list
      /\ Default \in DOMAIN list /\ list[Default] = Pristine
      /\ \A i \in DOMAIN settings.profiles :
             i \in DOMAIN list /\ (i # id => list[i] = settings.profiles[i])
  BY <1>1, PutFacts DEF Selects
<1> HIDE DEF list
<1>3. /\ s \in Settings /\ s.preset = settings.preset /\ s.tuning = settings.tuning
      /\ s.profiles = list /\ s.sel = sel /\ s.draft = settings.draft
      /\ s.remaps = settings.remaps /\ s.remapSel = settings.remapSel
  BY <1>1, <1>2 DEF Selects, Settings
<1>4. Commit(Normalize(s))
  BY DEF list
<1> HIDE DEF s
<1>5. Selects(s) /\ Agrees(s)
  BY <1>1, <1>2, <1>3 DEF Selects, Agrees
<1> QED
  BY <1>2, <1>3, <1>4, <1>5, CommitNormalized

(* ... without a change of the selection.                                  *)
LEMMA PutControllerOnly ==
    ASSUME StoreInv, NEW id \in Ids \ {Default},
           Commit(Normalize([settings EXCEPT
               !.profiles = Put(settings.profiles, id, settings.tuning)]))
    PROVE  /\ StoreInv' /\ settings'.remaps = settings.remaps
           /\ \A i \in DOMAIN settings.profiles :
                  /\ i \in DOMAIN settings'.profiles
                  /\ i # id => settings'.profiles[i] = settings.profiles[i]
<1> DEFINE list == Put(settings.profiles, id, settings.tuning)
<1>1. Selects(settings) /\ settings.sel \in Ids
  BY StoreSelects
<1> HIDE DEF list
<1>2. [settings EXCEPT !.profiles = list]
          = [settings EXCEPT !.profiles = list, !.sel = settings.sel]
  BY <1>1 DEF Selects, Settings
<1>3. Commit(Normalize([settings EXCEPT !.profiles = list, !.sel = settings.sel]))
  BY <1>2 DEF list
<1> QED
  BY <1>1, <1>3, PutController DEF list

LEMMA SaveControllerKept ==
    ASSUME StoreInv, NEW id \in Ids, SaveControllerProfile(id)
    PROVE  StoreInv' /\ EditStaysLocal /\ NoProfileLost
<1>1. /\ id \in Ids \ {Default} /\ id \notin DOMAIN settings.profiles
      /\ Commit(Normalize([settings EXCEPT
             !.profiles = Put(settings.profiles, id, settings.tuning), !.sel = id]))
  BY StoreAssumption DEF SaveControllerProfile
<1>2. /\ StoreInv' /\ settings'.remaps = settings.remaps
      /\ \A i \in DOMAIN settings.profiles :
             /\ i \in DOMAIN settings'.profiles
             /\ i # id => settings'.profiles[i] = settings.profiles[i]
  BY <1>1, PutController
<1> QED
  BY <1>1, <1>2, UnchangedLists

LEMMA UpdateControllerKept ==
    ASSUME StoreInv, NEW id \in Ids, UpdateControllerProfile(id)
    PROVE  StoreInv' /\ EditStaysLocal /\ NoProfileLost
<1>1. /\ id \in Ids \ {Default}
      /\ Commit(Normalize([settings EXCEPT
             !.profiles = Put(settings.profiles, id, settings.tuning)]))
  BY DEF UpdateControllerProfile
<1>2. /\ StoreInv' /\ settings'.remaps = settings.remaps
      /\ \A i \in DOMAIN settings.profiles :
             /\ i \in DOMAIN settings'.profiles
             /\ i # id => settings'.profiles[i] = settings.profiles[i]
  BY <1>1, PutControllerOnly
<1> QED
  BY <1>2 DEF EditStaysLocal, NoProfileLost

LEMMA EnsureControllerKept ==
    ASSUME StoreInv, NEW id \in Ids, EnsureControllerProfile(id)
    PROVE  StoreInv' /\ EditStaysLocal /\ NoProfileLost
<1>1. id \in GameIds /\ Cut[id] \in Ids \ {Default}
  BY StoreAssumption DEF EnsureControllerProfile
<1>2. Selects(settings) /\ Agrees(settings)
  BY StoreSelects
<1>3. CASE id \in DOMAIN settings.profiles
  <2>1. Commit(Normalize([settings EXCEPT !.profiles = settings.profiles]))
    BY <1>3 DEF EnsureControllerProfile
  <2>2. Commit(Normalize(settings))
    BY <1>2, <2>1, SameProfiles
  <2> QED
    BY <1>2, <2>2, CommitNormalized, UnchangedLists
<1>4. CASE id \notin DOMAIN settings.profiles
  <2>1. Commit(Normalize([settings EXCEPT
            !.profiles = Put(settings.profiles, Cut[id], settings.tuning)]))
    BY <1>4 DEF EnsureControllerProfile
  <2>2. /\ StoreInv' /\ settings'.remaps = settings.remaps
        /\ \A i \in DOMAIN settings.profiles :
               /\ i \in DOMAIN settings'.profiles
               /\ i # Cut[id] => settings'.profiles[i] = settings.profiles[i]
    BY <1>1, <2>1, PutControllerOnly
  <2> QED
    BY <1>1, <2>2 DEF EditStaysLocal, NoProfileLost
<1> QED
  BY <1>3, <1>4

LEMMA DeleteControllerKept ==
    ASSUME StoreInv, NEW id \in Ids, DeleteControllerProfile(id)
    PROVE  StoreInv' /\ EditStaysLocal /\ NoProfileLost
<1> DEFINE list == Without(settings.profiles, id)
<1>1. id # Default /\ ChooseController([settings EXCEPT !.profiles = list], Default)
  BY DEF DeleteControllerProfile
<1>2. Selects(settings) /\ settings.profiles \in Lists(Tunings)
  BY StoreSelects
<1>3. /\ list \in Lists(Tunings) /\ Default \in DOMAIN list /\ list[Default] = Pristine
      /\ \A i \in DOMAIN settings.profiles :
             i # id => i \in DOMAIN list /\ list[i] = settings.profiles[i]
      /\ id \notin DOMAIN list
  BY <1>1, <1>2, WithoutFacts DEF Selects
<1> HIDE DEF list
<1>4. /\ StoreInv' /\ settings'.profiles = list /\ settings'.remaps = settings.remaps
  BY <1>1, <1>3, ChosenController
<1> QED
  BY <1>3, <1>4 DEF EditStaysLocal, NoProfileLost

LEMMA RemoveControllerKept ==
    ASSUME StoreInv, NEW id \in Ids, RemoveControllerProfile(id)
    PROVE  StoreInv' /\ EditStaysLocal /\ NoProfileLost
<1>1. CASE settings.sel = id
  BY <1>1, DeleteControllerKept DEF RemoveControllerProfile
<1>2. CASE settings.sel # id
  <2> DEFINE list == Without(settings.profiles, id)
             s == [settings EXCEPT !.profiles = list]
  <2>1. id # Default /\ Commit(Normalize(s))
    BY <1>2 DEF RemoveControllerProfile
  <2>2. /\ Selects(settings) /\ Agrees(settings)
        /\ settings.profiles \in Lists(Tunings)
    BY StoreSelects
  <2>3. /\ list \in Lists(Tunings) /\ Default \in DOMAIN list
        /\ list[Default] = Pristine
        /\ \A i \in DOMAIN settings.profiles :
               i # id => i \in DOMAIN list /\ list[i] = settings.profiles[i]
        /\ id \notin DOMAIN list
    BY <2>1, <2>2, WithoutFacts DEF Selects
  <2> HIDE DEF list
  <2>4. /\ s \in Settings /\ s.preset = settings.preset /\ s.tuning = settings.tuning
        /\ s.profiles = list /\ s.sel = settings.sel /\ s.draft = settings.draft
        /\ s.remaps = settings.remaps /\ s.remapSel = settings.remapSel
    BY <2>2, <2>3 DEF Selects, Settings
  <2> HIDE DEF s
  <2>5. Selects(s) /\ Agrees(s)
    BY <1>2, <2>2, <2>3, <2>4 DEF Selects, Agrees
  <2>6. StoreInv' /\ settings'.profiles = list /\ settings'.remaps = settings.remaps
    BY <2>1, <2>4, <2>5, CommitNormalized
  <2> QED
    BY <2>3, <2>6 DEF EditStaysLocal, NoProfileLost
<1> QED
  BY <1>1, <1>2

(***************************************************************************)
(* The button remapping profiles.                                          *)
(***************************************************************************)

LEMMA ChosenRemap ==
    ASSUME StoreInv, NEW list \in Lists(Mappings), NEW id \in DOMAIN list,
           Default \in DOMAIN list, list[Default] = Identity,
           ChooseRemap([settings EXCEPT !.remaps = list], id)
    PROVE  /\ StoreInv'
           /\ settings'.profiles = settings.profiles /\ settings'.remaps = list
<1> DEFINE s == [settings EXCEPT !.remaps = list]
           chosen == [s EXCEPT !.remapSel = id, !.draft = NormalizedRemaps(s.remaps)[id]]
<1>1. Selects(settings) /\ Agrees(settings)
  BY StoreSelects
<1>2. Commit(Normalize(chosen))
  BY DEF ChooseRemap
<1>3. /\ s \in Settings /\ s.profiles = settings.profiles /\ s.remaps = list
      /\ s.sel = settings.sel /\ s.tuning = settings.tuning /\ s.preset = settings.preset
  BY <1>1 DEF Selects, Settings
<1>4. id \in Ids /\ list[id] \in Mappings
  BY ListType
<1>5. NormalizedRemaps(s.remaps)[id] = list[id]
  BY <1>3, PristineType, PutFacts DEF NormalizedRemaps
<1>6. chosen = [s EXCEPT !.remapSel = id, !.draft = list[id]]
  BY <1>5
<1> HIDE DEF s, chosen
<1>7. /\ chosen \in Settings /\ chosen.remapSel = id /\ chosen.draft = list[id]
      /\ chosen.remaps = list /\ chosen.profiles = settings.profiles
      /\ chosen.sel = settings.sel /\ chosen.tuning = settings.tuning
      /\ chosen.preset = settings.preset
  BY <1>3, <1>4, <1>6 DEF Settings
<1>8. Selects(chosen) /\ Agrees(chosen)
  BY <1>1, <1>7 DEF Selects, Agrees
<1> QED
  BY <1>2, <1>7, <1>8, CommitNormalized

LEMMA SelectRemapKept ==
    ASSUME StoreInv, NEW id \in Ids,
           SelectButtonRemappingProfile(id) \/ RestoreButtonRemappingDefaults
    PROVE  StoreInv' /\ EditStaysLocal /\ NoProfileLost
<1> DEFINE sel == SelectedIn(settings.remaps, id)
<1>1. /\ Selects(settings) /\ settings.remaps \in Lists(Mappings)
      /\ Default \in DOMAIN settings.remaps
      /\ settings.remaps[Default] = Identity
  BY StoreSelects DEF Selects
<1>2. sel \in DOMAIN settings.remaps
  BY <1>1 DEF SelectedIn
<1>3. ChooseRemap(settings, sel) \/ ChooseRemap(settings, Default)
  BY DEF SelectButtonRemappingProfile, RestoreButtonRemappingDefaults
<1> HIDE DEF sel
<1>4. PICK to \in {sel, Default} : ChooseRemap(settings, to)
  BY <1>3
<1>5. to \in DOMAIN settings.remaps
  BY <1>1, <1>2
<1>6. ChooseRemap([settings EXCEPT !.remaps = settings.remaps], to)
  BY <1>1, <1>4, SameProfiles
<1>7. /\ StoreInv' /\ settings'.profiles = settings.profiles
      /\ settings'.remaps = settings.remaps
  BY <1>1, <1>5, <1>6, ChosenRemap
<1> QED
  BY <1>7, UnchangedLists

LEMMA ButtonRemapKept ==
    ASSUME StoreInv, NEW m \in Mappings, SetButtonRemap(m)
    PROVE  StoreInv' /\ EditStaysLocal /\ NoProfileLost
<1> DEFINE edited == [settings EXCEPT !.draft = m]
           live == Normalize(edited)
           id == IF live.remapSel = Default THEN CustomId ELSE live.remapSel
           synced == [live EXCEPT !.remapSel = id, !.remaps = Put(@, id, live.draft)]
<1>1. /\ Selects(settings) /\ Agrees(settings)
      /\ settings.profiles \in Lists(Tunings) /\ settings.remaps \in Lists(Mappings)
  BY StoreSelects
<1>2. Commit(SyncRemap(live))
  BY DEF SetButtonRemap
<1>3. /\ Selects(edited) /\ edited.draft = m /\ edited.tuning = settings.tuning
      /\ edited.profiles = settings.profiles /\ edited.sel = settings.sel
      /\ edited.remaps = settings.remaps /\ edited.remapSel = settings.remapSel
      /\ edited.preset = settings.preset
  BY <1>1 DEF Selects, Settings
<1> HIDE DEF edited
<1>4. /\ live \in Settings /\ live.draft = m /\ live.tuning = settings.tuning
      /\ live.profiles = settings.profiles /\ live.sel = settings.sel
      /\ live.remaps = settings.remaps /\ live.remapSel = settings.remapSel
      /\ live.preset = settings.preset
  BY <1>3, NormalizeKeeps DEF SameFields, Normal
<1> HIDE DEF live
<1>5. Commit(Normalize(synced))
  BY <1>2 DEF SyncRemap
<1>6. id \in Ids /\ id # Default
  BY <1>4, StoreAssumption, StoreSelects
<1> DEFINE list == Put(settings.remaps, id, m)
<1>7. /\ list \in Lists(Mappings) /\ list[id] = m /\ id \in DOMAIN list
      /\ Default \in DOMAIN list /\ list[Default] = Identity
      /\ \A i \in DOMAIN settings.remaps : i \in DOMAIN list
  BY <1>1, <1>6, PutFacts DEF Selects
<1> HIDE DEF list
<1>8. synced = [live EXCEPT !.remapSel = id, !.remaps = list]
  BY <1>4 DEF list
<1> HIDE DEF synced, id
<1>9. /\ synced \in Settings /\ synced.draft = m /\ synced.tuning = settings.tuning
      /\ synced.remaps = list /\ synced.remapSel = id
      /\ synced.profiles = settings.profiles /\ synced.sel = settings.sel
      /\ synced.preset = settings.preset
  BY <1>4, <1>6, <1>7, <1>8 DEF Settings
<1>10. Selects(synced) /\ Agrees(synced)
  BY <1>1, <1>7, <1>9 DEF Selects, Agrees
<1>11. StoreInv' /\ settings'.profiles = settings.profiles /\ settings'.remaps = list
  BY <1>5, <1>9, <1>10, CommitNormalized
<1> QED
  BY <1>7, <1>11, UnchangedLists

(* A mapping list that gets one profile, which may be the one selected.    *)
LEMMA PutRemap ==
    ASSUME StoreInv, NEW id \in Ids \ {Default}, NEW sel \in Ids,
           sel = id \/ sel = settings.remapSel,
           Commit(Normalize([settings EXCEPT
               !.remaps = Put(settings.remaps, id, settings.draft), !.remapSel = sel]))
    PROVE  StoreInv' /\ EditStaysLocal /\ NoProfileLost
<1> DEFINE list == Put(settings.remaps, id, settings.draft)
           s == [settings EXCEPT !.remaps = list, !.remapSel = sel]
<1>1. /\ Selects(settings) /\ Agrees(settings)
      /\ settings.remaps \in Lists(Mappings) /\ settings.draft \in Mappings
  BY StoreSelects
<1>2. /\ list \in Lists(Mappings) /\ list[id] = settings.draft /\ id \in DOMAIN list
      /\ Default \in DOMAIN list /\ list[Default] = Identity
      /\ \A i \in DOMAIN settings.remaps :
             i \in DOMAIN list /\ (i # id => list[i] = settings.remaps[i])
  BY <1>1, PutFacts DEF Selects
<1> HIDE DEF list
<1>3. /\ s \in Settings /\ s.preset = settings.preset /\ s.tuning = settings.tuning
      /\ s.profiles = settings.profiles /\ s.sel = settings.sel
      /\ s.draft = settings.draft /\ s.remaps = list /\ s.remapSel = sel
  BY <1>1, <1>2 DEF Selects, Settings
<1>4. Commit(Normalize(s))
  BY DEF list
<1> HIDE DEF s
<1>5. Selects(s) /\ Agrees(s)
  BY <1>1, <1>2, <1>3 DEF Selects, Agrees
<1>6. StoreInv' /\ settings'.profiles = settings.profiles /\ settings'.remaps = list
  BY <1>3, <1>4, <1>5, CommitNormalized
<1> QED
  BY <1>2, <1>6, UnchangedLists

(* ... without a change of the selection.                                  *)
LEMMA PutRemapOnly ==
    ASSUME StoreInv, NEW id \in Ids \ {Default},
           Commit(Normalize([settings EXCEPT
               !.remaps = Put(settings.remaps, id, settings.draft)]))
    PROVE  StoreInv' /\ EditStaysLocal /\ NoProfileLost
<1> DEFINE list == Put(settings.remaps, id, settings.draft)
<1>1. Selects(settings) /\ settings.remapSel \in Ids
  BY StoreSelects
<1> HIDE DEF list
<1>2. [settings EXCEPT !.remaps = list]
          = [settings EXCEPT !.remaps = list, !.remapSel = settings.remapSel]
  BY <1>1 DEF Selects, Settings
<1>3. Commit(Normalize([settings EXCEPT !.remaps = list, !.remapSel = settings.remapSel]))
  BY <1>2 DEF list
<1> QED
  BY <1>1, <1>3, PutRemap DEF list

LEMMA StoreRemapKept ==
    ASSUME StoreInv, NEW id \in Ids,
           \/ SaveButtonRemappingProfile(id)
           \/ UpdateButtonRemappingProfile(id)
           \/ EnsureButtonRemappingProfile(id)
    PROVE  StoreInv' /\ EditStaysLocal /\ NoProfileLost
<1>1. Selects(settings) /\ Agrees(settings)
  BY StoreSelects
<1>2. CASE SaveButtonRemappingProfile(id)
  <2>1. /\ id \in Ids \ {Default}
        /\ Commit(Normalize([settings EXCEPT
               !.remaps = Put(settings.remaps, id, settings.draft), !.remapSel = id]))
    BY <1>2, StoreAssumption DEF SaveButtonRemappingProfile
  <2> QED
    BY <2>1, PutRemap
<1>3. CASE UpdateButtonRemappingProfile(id)
  <2>1. /\ id \in Ids \ {Default}
        /\ Commit(Normalize([settings EXCEPT
               !.remaps = Put(settings.remaps, id, settings.draft)]))
    BY <1>3 DEF UpdateButtonRemappingProfile
  <2> QED
    BY <2>1, PutRemapOnly
<1>4. CASE EnsureButtonRemappingProfile(id)
  <2>1. id \in GameIds /\ Cut[id] \in Ids \ {Default}
    BY <1>4, StoreAssumption DEF EnsureButtonRemappingProfile
  <2>2. CASE id \in DOMAIN settings.remaps
    <3>1. Commit(Normalize([settings EXCEPT !.remaps = settings.remaps]))
      BY <1>4, <2>2 DEF EnsureButtonRemappingProfile
    <3>2. Commit(Normalize(settings))
      BY <1>1, <3>1, SameProfiles
    <3> QED
      BY <1>1, <3>2, CommitNormalized, UnchangedLists
  <2>3. CASE id \notin DOMAIN settings.remaps
    <3>1. Commit(Normalize([settings EXCEPT
              !.remaps = Put(settings.remaps, Cut[id], settings.draft)]))
      BY <1>4, <2>3 DEF EnsureButtonRemappingProfile
    <3> QED
      BY <2>1, <3>1, PutRemapOnly
  <2> QED
    BY <2>2, <2>3
<1> QED
  BY <1>2, <1>3, <1>4

LEMMA DeleteRemapKept ==
    ASSUME StoreInv, NEW id \in Ids, DeleteButtonRemappingProfile(id)
    PROVE  StoreInv' /\ EditStaysLocal /\ NoProfileLost
<1> DEFINE list == Without(settings.remaps, id)
<1>1. id # Default /\ ChooseRemap([settings EXCEPT !.remaps = list], Default)
  BY DEF DeleteButtonRemappingProfile
<1>2. Selects(settings) /\ settings.remaps \in Lists(Mappings)
  BY StoreSelects
<1>3. /\ list \in Lists(Mappings) /\ Default \in DOMAIN list /\ list[Default] = Identity
      /\ \A i \in DOMAIN settings.remaps : i # id => i \in DOMAIN list
  BY <1>1, <1>2, WithoutFacts DEF Selects
<1> HIDE DEF list
<1>4. /\ StoreInv' /\ settings'.profiles = settings.profiles /\ settings'.remaps = list
  BY <1>1, <1>3, ChosenRemap
<1> QED
  BY <1>3, <1>4 DEF EditStaysLocal, NoProfileLost

LEMMA RemoveRemapKept ==
    ASSUME StoreInv, NEW id \in Ids, RemoveButtonRemappingProfile(id)
    PROVE  StoreInv' /\ EditStaysLocal /\ NoProfileLost
<1>1. CASE settings.remapSel = id
  BY <1>1, DeleteRemapKept DEF RemoveButtonRemappingProfile
<1>2. CASE settings.remapSel # id
  <2> DEFINE list == Without(settings.remaps, id)
             s == [settings EXCEPT !.remaps = list]
  <2>1. id # Default /\ Commit(Normalize(s))
    BY <1>2 DEF RemoveButtonRemappingProfile
  <2>2. /\ Selects(settings) /\ Agrees(settings)
        /\ settings.remaps \in Lists(Mappings)
    BY StoreSelects
  <2>3. /\ list \in Lists(Mappings) /\ Default \in DOMAIN list
        /\ list[Default] = Identity
        /\ \A i \in DOMAIN settings.remaps :
               i # id => i \in DOMAIN list /\ list[i] = settings.remaps[i]
    BY <2>1, <2>2, WithoutFacts DEF Selects
  <2> HIDE DEF list
  <2>4. /\ s \in Settings /\ s.preset = settings.preset /\ s.tuning = settings.tuning
        /\ s.profiles = settings.profiles /\ s.sel = settings.sel
        /\ s.draft = settings.draft /\ s.remaps = list
        /\ s.remapSel = settings.remapSel
    BY <2>2, <2>3 DEF Selects, Settings
  <2> HIDE DEF s
  <2>5. Selects(s) /\ Agrees(s)
    BY <1>2, <2>2, <2>3, <2>4 DEF Selects, Agrees
  <2>6. StoreInv' /\ settings'.profiles = settings.profiles /\ settings'.remaps = list
    BY <2>1, <2>4, <2>5, CommitNormalized
  <2> QED
    BY <2>3, <2>6 DEF EditStaysLocal, NoProfileLost
<1> QED
  BY <1>1, <1>2

(***************************************************************************)
(* Chords and restarts.                                                    *)
(***************************************************************************)

LEMMA ListsAreSequences ==
    ASSUME NEW n, NEW fs
    PROVE  /\ fs \in FunctionLists(n) => fs \in Seq(Functions)
           /\ fs \in DistinctLists(n) => fs \in Seq(Functions)
<1>1. ASSUME NEW k \in 0..n, fs \in [1..k -> Functions] PROVE fs \in Seq(Functions)
  BY <1>1
<1> QED
  BY <1>1 DEF FunctionLists, DistinctLists

LEMMA ChordsKept ==
    ASSUME StoreInv, ChordStep
    PROVE  StoreInv' /\ EditStaysLocal /\ NoProfileLost
<1>1. /\ Selects(settings) /\ Agrees(settings)
      /\ settings.functions \in Seq(Functions) /\ settings.assignments \in Seq(Functions)
  BY StoreSelects, SettingsType DEF Selects
<1>2. PICK fs \in Seq(Functions), bound \in Seq(Functions) : SetChordConfiguration(fs, bound)
  BY <1>1, ListsAreSequences DEF ChordStep, SetChordFunctions, SetChordAssignments
<1> DEFINE s == [settings EXCEPT !.functions = fs, !.assignments = bound]
<1>3. /\ Selects(s) /\ Agrees(s)
      /\ s.profiles = settings.profiles /\ s.remaps = settings.remaps
  BY <1>1 DEF Selects, Agrees, Settings
<1>4. Commit(Normalize(s))
  BY <1>2 DEF SetChordConfiguration
<1> HIDE DEF s
<1> QED
  BY <1>3, <1>4, CommitNormalized, UnchangedLists

LEMMA FileKinds ==
    /\ NoFile.kind = "absent" /\ TornFile.kind = "torn"
    /\ \A s, c : /\ Written(s, c).kind = "json" /\ Written(s, c).settings = s
                 /\ Written(s, c).customProfile = c
                 /\ Written(s, c) \notin {NoFile, TornFile}
<1>1. /\ NoFile.kind = "absent" /\ TornFile.kind = "torn"
      /\ \A s, c : /\ Written(s, c).kind = "json" /\ Written(s, c).settings = s
                   /\ Written(s, c).customProfile = c
  BY DEF NoFile, TornFile, Written
<1>2. ASSUME NEW s, NEW c PROVE Written(s, c) \notin {NoFile, TornFile}
  BY <1>1
<1> QED
  BY <1>1, <1>2

(* The file says what memory has: normalisation changes nothing of what    *)
(* was normalized when it was written.                                     *)
LEMMA FileIsMemory ==
    ASSUME StoreInv
    PROVE  settings = ReadSettings(file) /\ customSettings = ReadCustom(file)
<1>1. CASE file \in {NoFile, TornFile}
  <2>1. file.kind # "json"
    BY <1>1, FileKinds
  <2> QED
    BY <1>1, <2>1 DEF StoreInv, FileInv, ReadSettings, ReadCustom
<1>2. CASE file \notin {NoFile, TornFile}
  <2>1. /\ file.kind = "json" /\ file.settings = settings
        /\ file.customProfile = customSettings
    BY <1>2, FileKinds DEF StoreInv, FileInv
  <2>2. Normalize(settings) = settings
    BY NormalIsFixed DEF StoreInv, Sound
  <2>3. customSettings \in Settings /\ customSettings.preset = "custom"
    BY DEF StoreInv, Sound, Normal
  <2>4. [customSettings EXCEPT !.preset = "custom"] = customSettings
    BY <2>3 DEF Settings
  <2>5. CustomSettingsFrom(customSettings) = customSettings
    BY <2>4, NormalIsFixed DEF StoreInv, Sound, CustomSettingsFrom
  <2> QED
    BY <2>1, <2>2, <2>5 DEF ReadSettings, ReadCustom
<1> QED
  BY <1>1, <1>2

LEMMA RestartKept ==
    ASSUME StoreInv, Restart \/ UNCHANGED vars
    PROVE  StoreInv' /\ EditStaysLocal /\ NoProfileLost
<1>1. UNCHANGED <<settings, customSettings, file>>
  BY FileIsMemory DEF Restart, vars
<1>2. StoreInv'
  BY <1>1 DEF StoreInv, Sound, Normal, Agrees, FileInv
<1> QED
  BY <1>1, <1>2, UnchangedLists

LEMMA StartIsSound ==
    ASSUME NEW f \in {NoFile, TornFile}, settings = ReadSettings(f),
           customSettings = ReadCustom(f), file = f
    PROVE  StoreInv
<1>1. f.kind # "json"
  BY FileKinds
<1>2. settings = Defaults /\ customSettings = CustomSettingsFrom(Defaults)
  BY <1>1 DEF ReadSettings, ReadCustom
<1> QED
  BY <1>2, DefaultsAreSound DEF StoreInv, FileInv

LEMMA TornKept ==
    ASSUME TornWrite
    PROVE  StoreInv' /\ EditStaysLocal /\ NoProfileLost
<1>1. /\ file' = TornFile /\ settings' = Defaults
      /\ customSettings' = CustomSettingsFrom(Defaults)
  BY FileKinds DEF TornWrite, ReadSettings, ReadCustom
<1>2. StoreInv'
  BY <1>1, DefaultsAreSound DEF StoreInv, FileInv, Sound, Normal, Agrees
<1> QED
  BY <1>2 DEF EditStaysLocal, NoProfileLost

(***************************************************************************)
(* The theorems.                                                           *)
(***************************************************************************)

(* A step of the program keeps the invariant and the lists.                *)
LEMMA NextKept ==
    ASSUME StoreInv, [Next]_vars
    PROVE  StoreInv' /\ EditStaysLocal /\ NoProfileLost
<1>1. CASE TuningStep
  BY <1>1, TuningKept DEF TuningStep
<1>2. CASE SharedStep
  <2>1. CASE \E x \in Others : UpdateOther(x)
    BY <2>1, OtherKept
  <2>2. CASE \E p \in Presets \cup {"custom"} : ApplyPreset(p)
    BY <2>2, PresetKept
  <2>3. CASE RestoreDefaults
    BY <2>3, DefaultsKept
  <2>4. CASE Restart
    BY <2>4, RestartKept
  <2>5. CASE TornWrite
    BY <2>5, TornKept
  <2> QED
    BY <1>2, <2>1, <2>2, <2>3, <2>4, <2>5 DEF SharedStep
<1>3. CASE ControllerStep
  BY <1>3, SelectControllerKept, SaveControllerKept, UpdateControllerKept,
     EnsureControllerKept, DeleteControllerKept, RemoveControllerKept DEF ControllerStep
<1>4. CASE RemapStep
  <2>1. CASE \E m \in Mappings : SetButtonRemap(m)
    BY <2>1, ButtonRemapKept
  <2>2. CASE RestoreButtonRemappingDefaults
    BY <2>2, PristineType, SelectRemapKept
  <2>3. CASE \E id \in Ids :
                \/ SelectButtonRemappingProfile(id)
                \/ SaveButtonRemappingProfile(id)
                \/ UpdateButtonRemappingProfile(id)
                \/ EnsureButtonRemappingProfile(id)
                \/ DeleteButtonRemappingProfile(id)
                \/ RemoveButtonRemappingProfile(id)
    BY <2>3, SelectRemapKept, StoreRemapKept, DeleteRemapKept, RemoveRemapKept
  <2> QED
    BY <1>4, <2>1, <2>2, <2>3 DEF RemapStep
<1>5. CASE ChordStep
  BY <1>5, ChordsKept
<1>6. CASE UNCHANGED vars
  BY <1>6, RestartKept
<1> QED
  BY <1>1, <1>2, <1>3, <1>4, <1>5, <1>6 DEF Next

(* The live settings and the snapshot are normalized and agree with what   *)
(* they select, and the file says the same, in every state.                *)
THEOREM StoreInvariance == Spec => []StoreInv
<1>1. Init => StoreInv
  BY StartIsSound DEF Init
<1>2. StoreInv /\ [Next]_vars => StoreInv'
  BY NextKept
<1> QED
  BY <1>1, <1>2, PTL DEF Spec

(* Whatever is edited, deleted, cut by the limits, brought back by a       *)
(* preset or read after a crash, the selected profiles exist, what is in   *)
(* force is what they hold, and every chord names a function there is.     *)
THEOREM ReferencesCorrect == Spec => []ReferencesHold
<1>1. StoreInv => ReferencesHold
  <2> SUFFICES ASSUME StoreInv PROVE ReferencesHold
    OBVIOUS
  <2>1. file.kind \in {"absent", "torn", "json"}
    BY FileKinds DEF StoreInv, FileInv
  <2>2. LiveIsSelected
    BY <2>1 DEF StoreInv, Sound, Normal, Agrees, LiveIsSelected, TypeOK, Kept
  <2>3. ASSUME NEW s \in Kept
        PROVE  \A i \in DOMAIN s.assignments : \E j \in DOMAIN s.functions :
                   s.assignments[i] = s.functions[j]
    <3>1. /\ s.assignments \in Seq(Functions) /\ Resolves(s.assignments, s.functions)
      BY SettingsType DEF StoreInv, Sound, Normal, Kept
    <3>2. DOMAIN s.assignments = 1..Len(s.assignments)
      BY <3>1
    <3> QED
      BY <3>1, <3>2 DEF Resolves, Range
  <2> QED
    BY <2>2, <2>3 DEF ReferencesHold, ChordsResolve
<1> QED
  BY <1>1, StoreInvariance, PTL

(* Reading back what was written last gives the settings and the snapshot  *)
(* as they were.                                                           *)
THEOREM RestartCorrect == Spec => RestartIsInvisible
<1>1. ASSUME StoreInv, StoreInv', UNCHANGED file
      PROVE  UNCHANGED <<settings, customSettings>>
  <2>1. settings = ReadSettings(file) /\ customSettings = ReadCustom(file)
    BY <1>1, FileIsMemory
  <2>2. CASE file \in {NoFile, TornFile}
    BY <1>1, <2>2 DEF StoreInv, FileInv
  <2>3. CASE file \notin {NoFile, TornFile}
    <3>1. /\ file = Written(settings, customSettings)
          /\ file = Written(settings', customSettings')
      BY <1>1, <2>3 DEF StoreInv, FileInv
    <3>2. /\ file.settings = settings /\ file.settings = settings'
          /\ file.customProfile = customSettings /\ file.customProfile = customSettings'
      BY <3>1 DEF Written
    <3> QED
      BY <3>2
  <2> QED
    BY <2>2, <2>3
<1>2. StoreInv /\ StoreInv' => [UNCHANGED file => UNCHANGED <<settings, customSettings>>]_vars
  BY <1>1
<1> QED
  BY <1>2, StoreInvariance, PTL DEF RestartIsInvisible

(* An operation changes the tuning of the profile it is about and of no    *)
(* other, and a profile of either list goes only when an operation that    *)
(* deletes or replaces lists is the one that ran.                          *)
THEOREM ListsCorrect == Spec => ListsKept
<1>1. StoreInv /\ [Next]_vars => [EditStaysLocal /\ NoProfileLost]_vars
  BY NextKept
<1> QED
  BY <1>1, StoreInvariance, PTL DEF Spec, ListsKept
=============================================================================
