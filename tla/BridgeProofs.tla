---------------------------- MODULE BridgeProofs ----------------------------
(***************************************************************************)
(* The host's audio haptics in BridgeSession: whatever the user, the poll, *)
(* the reapplies, failed requests and the daemon do in between, the engine *)
(* does not go on running once they are turned off.                        *)
(***************************************************************************)
EXTENDS BridgeSession, SequenceTheorems, WellFoundedInduction, TLAPS

(***************************************************************************)
(* Programs.                                                               *)
(***************************************************************************)
CommandSteps == {"send", "try", "apply", "live", "restore"}
EngineFields == {"hapticsEnabled", "audioReactiveHapticsEnabled"}

(* An update that does not turn audio haptics off.                         *)
Harmless(upd) == \A f \in EngineFields : f \in DOMAIN upd => upd[f] = TRUE

(* A sequence of commands, "engine" being none.                            *)
Names(cs) == (\E S : cs \in Seq(S)) /\ \A i \in 1..Len(cs) : cs[i] # "engine"
StepOK(st) ==
    /\ st.do \in CommandSteps => st.cmd # "engine"
    /\ st.do = "push" => Names(st.cmds) /\ Names(st.live)

(* A step after which the host's engine has to be brought in line.         *)
Needs(st) == st.do = "reapplied" \/ (st.do = "store" /\ ~Harmless(st.upd))
Has(p) == \E i \in 1..Len(p) : BringsEngine(p[i])
Marks(p) == \E i \in 1..Len(p) : p[i].do = "reapplied"

(* Every step that needs it is followed by one that does it.               *)
ProgramOK(p) ==
    /\ \E S : p \in Seq(S)
    /\ \A i \in 1..Len(p) :
           /\ StepOK(p[i])
           /\ Needs(p[i]) => \E j \in 1..Len(p) : i < j /\ BringsEngine(p[j])

LEMMA EmptyOK == ProgramOK(<<>>) /\ ~Has(<<>>)
<1>1. <<>> \in Seq({}) /\ Len(<<>>) = 0
  OBVIOUS
<1> QED
  BY <1>1 DEF ProgramOK, Has

LEMMA TailOK ==
    ASSUME NEW p, ProgramOK(p), p # <<>>
    PROVE  /\ ProgramOK(Tail(p)) /\ StepOK(Head(p))
           /\ Has(p) => BringsEngine(Head(p)) \/ Has(Tail(p))
           /\ Needs(Head(p)) => Has(Tail(p))
           /\ Marks(p) => Head(p).do = "reapplied" \/ Marks(Tail(p))
<1>1. PICK S : p \in Seq(S)
  BY DEF ProgramOK
<1> DEFINE q == Tail(p)
<1>2. /\ Len(p) \in Nat /\ Len(p) > 0 /\ Head(p) = p[1]
      /\ q \in Seq(S) /\ Len(q) = Len(p) - 1
      /\ \A i \in 1..Len(q) : q[i] = p[i + 1]
  BY <1>1, HeadTailProperties
<1> HIDE DEF q
<1>3. \A i \in 1..Len(p) : i = 1 \/ (i - 1 \in 1..Len(q) /\ q[i - 1] = p[i])
  BY <1>2
<1>4. \A i \in 1..Len(q) :
          StepOK(q[i]) /\ (Needs(q[i]) => \E j \in 1..Len(q) : i < j /\ BringsEngine(q[j]))
  <2> SUFFICES ASSUME NEW i \in 1..Len(q)
               PROVE  /\ StepOK(q[i])
                      /\ Needs(q[i]) => \E j \in 1..Len(q) : i < j /\ BringsEngine(q[j])
    OBVIOUS
  <2>1. i + 1 \in 1..Len(p) /\ q[i] = p[i + 1]
    BY <1>2
  <2>2. StepOK(q[i])
    BY <2>1 DEF ProgramOK
  <2>3. ASSUME Needs(q[i]) PROVE \E j \in 1..Len(q) : i < j /\ BringsEngine(q[j])
    <3>1. PICK k \in 1..Len(p) : i + 1 < k /\ BringsEngine(p[k])
      BY <2>1, <2>3 DEF ProgramOK
    <3>2. k - 1 \in 1..Len(q) /\ i < k - 1 /\ q[k - 1] = p[k]
      BY <1>2, <1>3, <3>1
    <3> QED
      BY <3>1, <3>2
  <2> QED
    BY <2>2, <2>3
<1>5. ProgramOK(q)
  BY <1>2, <1>4 DEF ProgramOK
<1>6. 1 \in 1..Len(p) /\ StepOK(Head(p))
  BY <1>2 DEF ProgramOK
<1>7. Has(p) => BringsEngine(Head(p)) \/ Has(q)
  BY <1>2, <1>3 DEF Has
<1>8. ASSUME Needs(Head(p)) PROVE Has(q)
  <2>1. PICK k \in 1..Len(p) : 1 < k /\ BringsEngine(p[k])
    BY <1>2, <1>6, <1>8 DEF ProgramOK
  <2>2. k - 1 \in 1..Len(q) /\ q[k - 1] = p[k]
    BY <1>3, <2>1
  <2> QED
    BY <2>1, <2>2 DEF Has
<1>9. Marks(p) => Head(p).do = "reapplied" \/ Marks(q)
  BY <1>2, <1>3 DEF Marks
<1> QED
  BY <1>5, <1>6, <1>7, <1>8, <1>9 DEF q

LEMMA ConcatOK ==
    ASSUME NEW p, NEW q, ProgramOK(p), ProgramOK(q)
    PROVE  /\ ProgramOK(p \o q)
           /\ Has(p) \/ Has(q) => Has(p \o q)
           /\ Marks(p) \/ Marks(q) => Marks(p \o q)
<1>1. PICK A : p \in Seq(A)
  BY DEF ProgramOK
<1>2. PICK B : q \in Seq(B)
  BY DEF ProgramOK
<1> DEFINE S == A \cup B
<1>3. p \in Seq(S) /\ q \in Seq(S)
  <2>1. \A i \in 1..Len(p) : p[i] \in S
    BY <1>1
  <2>2. \A i \in 1..Len(q) : q[i] \in S
    BY <1>2
  <2> QED
    BY <1>1, <1>2, <2>1, <2>2
<1> HIDE DEF S
<1> DEFINE r == p \o q
           m == Len(p)
           n == Len(q)
<1>4. /\ r \in Seq(S) /\ m \in Nat /\ n \in Nat /\ Len(r) = m + n
      /\ \A i \in 1..m : r[i] = p[i]
      /\ \A i \in 1..n : r[m + i] = q[i]
  BY <1>3, ConcatProperties
<1> HIDE DEF r, m, n
<1>5. \A i \in 1..Len(r) : i \in 1..m \/ \E k \in 1..n : i = m + k
  <2> SUFFICES ASSUME NEW i \in 1..Len(r), i \notin 1..m PROVE \E k \in 1..n : i = m + k
    OBVIOUS
  <2>1. i - m \in 1..n /\ i = m + (i - m)
    BY <1>4
  <2> QED
    BY <2>1
<1>6. \A i \in 1..m : i \in 1..Len(r)
  BY <1>4
<1>7. \A k \in 1..n : m + k \in 1..Len(r)
  BY <1>4
<1>8. \A i \in 1..Len(r) :
          StepOK(r[i]) /\ (Needs(r[i]) => \E j \in 1..Len(r) : i < j /\ BringsEngine(r[j]))
  <2> SUFFICES ASSUME NEW i \in 1..Len(r)
               PROVE  /\ StepOK(r[i])
                      /\ Needs(r[i]) => \E j \in 1..Len(r) : i < j /\ BringsEngine(r[j])
    OBVIOUS
  <2>1. CASE i \in 1..m
    BY <1>4, <1>6, <2>1 DEF ProgramOK, m
  <2>2. ASSUME NEW k \in 1..n, i = m + k
        PROVE  /\ StepOK(r[i])
               /\ Needs(r[i]) => \E j \in 1..Len(r) : i < j /\ BringsEngine(r[j])
    <3>1. r[i] = q[k]
      BY <1>4, <2>2
    <3>2. StepOK(q[k]) /\ (Needs(q[k]) => \E j \in 1..n : k < j /\ BringsEngine(q[j]))
      BY DEF ProgramOK, n
    <3>3. ASSUME NEW j \in 1..n, k < j, BringsEngine(q[j])
          PROVE  \E l \in 1..Len(r) : i < l /\ BringsEngine(r[l])
      <4>1. m + j \in 1..Len(r) /\ i < m + j /\ r[m + j] = q[j]
        BY <1>4, <1>7, <2>2, <3>3
      <4> QED
        BY <3>3, <4>1
    <3> QED
      BY <3>1, <3>2, <3>3
  <2> QED
    BY <1>5, <2>1, <2>2
<1>9. ProgramOK(r)
  BY <1>4, <1>8 DEF ProgramOK
<1>10. Has(p) \/ Has(q) => Has(r)
  BY <1>4, <1>6, <1>7 DEF Has, m, n
<1>11. Marks(p) \/ Marks(q) => Marks(r)
  BY <1>4, <1>6, <1>7 DEF Marks, m, n
<1> QED
  BY <1>9, <1>10, <1>11 DEF r

(* Steps none of which needs the engine, in a row.                         *)
LEMMA RowOK ==
    ASSUME NEW n \in Nat, NEW f, f = [i \in 1..n |-> f[i]],
           \A i \in 1..n : StepOK(f[i]) /\ ~Needs(f[i])
    PROVE  ProgramOK(f) /\ Len(f) = n
<1> DEFINE S == {f[i] : i \in 1..n}
<1>1. f \in [1..n -> S]
  OBVIOUS
<1> HIDE DEF S
<1>2. f \in Seq(S) /\ Len(f) = n
  BY <1>1
<1> QED
  BY <1>2 DEF ProgramOK

LEMMA OneOK ==
    ASSUME NEW a, StepOK(a), ~Needs(a)
    PROVE  ProgramOK(<<a>>) /\ (BringsEngine(a) => Has(<<a>>))
<1> DEFINE p == <<a>>
<1>1. p \in Seq({a}) /\ Len(p) = 1 /\ p[1] = a
  OBVIOUS
<1> HIDE DEF p
<1>2. ProgramOK(p)
  BY <1>1 DEF ProgramOK
<1>3. BringsEngine(a) => Has(p)
  BY <1>1 DEF Has
<1> QED
  BY <1>2, <1>3 DEF p

(* A step ahead of a program.                                              *)
LEMMA AheadOK ==
    ASSUME NEW a, NEW p, StepOK(a), ProgramOK(p), Needs(a) => Has(p)
    PROVE  /\ ProgramOK(<<a>> \o p)
           /\ BringsEngine(a) \/ Has(p) => Has(<<a>> \o p)
           /\ a.do = "reapplied" => Marks(<<a>> \o p)
<1>1. PICK S : p \in Seq(S)
  BY DEF ProgramOK
<1> DEFINE T == S \cup {a}
           one == <<a>>
<1>2. one \in Seq(T) /\ Len(one) = 1 /\ one[1] = a
  OBVIOUS
<1>3. p \in Seq(T)
  <2>1. \A i \in 1..Len(p) : p[i] \in T
    BY <1>1
  <2> QED
    BY <1>1, <2>1
<1> HIDE DEF T, one
<1> DEFINE r == one \o p
<1>4. /\ r \in Seq(T) /\ Len(p) \in Nat /\ Len(r) = 1 + Len(p) /\ r[1] = a
      /\ \A i \in 1..Len(p) : r[i + 1] = p[i]
  <2>1. /\ r \in Seq(T) /\ Len(p) \in Nat /\ Len(r) = 1 + Len(p)
        /\ \A i \in 1..(1 + Len(p)) : r[i] = IF i <= 1 THEN one[i] ELSE p[i - 1]
    <3>1. /\ r \in Seq(T) /\ Len(r) = Len(one) + Len(p)
          /\ \A i \in 1..(Len(one) + Len(p)) :
                 r[i] = IF i <= Len(one) THEN one[i] ELSE p[i - Len(one)]
      BY <1>2, <1>3, ConcatProperties
    <3> HIDE DEF r
    <3> QED
      BY <1>2, <1>3, <3>1
  <2> HIDE DEF r
  <2>2. 1 \in 1..(1 + Len(p)) /\ 1 <= 1
    BY <2>1
  <2>3. \A i \in 1..Len(p) : i + 1 \in 1..(1 + Len(p)) /\ ~(i + 1 <= 1) /\ (i + 1) - 1 = i
    BY <2>1
  <2> QED
    BY <1>2, <2>1, <2>2, <2>3
<1> HIDE DEF r
<1>5. /\ \A i \in 1..Len(r) : i = 1 \/ (i - 1 \in 1..Len(p) /\ r[i] = p[i - 1])
      /\ \A i \in 1..Len(p) : i + 1 \in 1..Len(r) /\ 1 < i + 1
      /\ 1 \in 1..Len(r)
  BY <1>4
<1>6. \A i \in 1..Len(r) :
          StepOK(r[i]) /\ (Needs(r[i]) => \E j \in 1..Len(r) : i < j /\ BringsEngine(r[j]))
  <2> SUFFICES ASSUME NEW i \in 1..Len(r)
               PROVE  /\ StepOK(r[i])
                      /\ Needs(r[i]) => \E j \in 1..Len(r) : i < j /\ BringsEngine(r[j])
    OBVIOUS
  <2>1. CASE i = 1
    BY <1>4, <1>5, <2>1 DEF Has
  <2>2. CASE i # 1
    <3>1. i - 1 \in 1..Len(p) /\ r[i] = p[i - 1]
      BY <1>5, <2>2
    <3>2. StepOK(r[i]) /\ (Needs(r[i]) => \E j \in 1..Len(p) : i - 1 < j /\ BringsEngine(p[j]))
      BY <3>1 DEF ProgramOK
    <3>3. ASSUME NEW j \in 1..Len(p), i - 1 < j, BringsEngine(p[j])
          PROVE  j + 1 \in 1..Len(r) /\ i < j + 1 /\ BringsEngine(r[j + 1])
      BY <1>4, <1>5, <3>3
    <3> QED
      BY <3>2, <3>3
  <2> QED
    BY <2>1, <2>2
<1>7. ProgramOK(r)
  BY <1>4, <1>6 DEF ProgramOK
<1>8. BringsEngine(a) \/ Has(p) => Has(r)
  BY <1>4, <1>5 DEF Has
<1>9. a.do = "reapplied" => Marks(r)
  BY <1>4, <1>5 DEF Marks
<1> QED
  BY <1>7, <1>8, <1>9 DEF r, one

(***************************************************************************)
(* Follow keeps the order, and every step but commands.                    *)
(***************************************************************************)
LEMMA LeastNumber ==
    ASSUME NEW S, S \subseteq Nat, S # {}
    PROVE  \E n \in S : \A m \in S : n <= m
<1>1. PICK n \in S : \A m \in S : ~(<<m, n>> \in OpToRel(<, Nat))
  BY NatLessThanWellFounded, WFMin
<1>2. \A m \in S : ~(m < n)
  BY <1>1 DEF OpToRel
<1> QED
  BY <1>2

LEMMA Induction ==
    ASSUME NEW G, 0 \in G, \A n \in Nat : n \in G => n + 1 \in G
    PROVE  Nat \subseteq G
<1> SUFFICES ASSUME ~(Nat \subseteq G) PROVE FALSE
  OBVIOUS
<1>1. PICK n \in Nat \ G : \A m \in Nat \ G : n <= m
  BY LeastNumber
<1>2. n - 1 \in Nat /\ (n - 1) + 1 = n /\ ~(n <= n - 1)
  BY <1>1
<1> QED
  BY <1>1, <1>2

(* What its recursion makes of the first n steps.                          *)
Following(p, kept, n) ==
    IF n = 0 THEN <<>>
    ELSE IF Concerns(p[n]) THEN Append(kept[n - 1], p[n]) ELSE kept[n - 1]

LEMMA FollowingExists ==
    ASSUME NEW S, NEW p \in Seq(S)
    PROVE  \E kept : kept = [n \in 0..Len(p) |-> Following(p, kept, n)]
<1>1. Len(p) \in Nat /\ \A n \in 1..Len(p) : p[n] \in S
  OBVIOUS
<1> DEFINE Good(n) == \E kept \in [0..n -> Seq(S)] :
                          \A i \in 0..n : kept[i] = Following(p, kept, i)
           G == {n \in Nat : n <= Len(p) => Good(n)}
<1>2. Good(0)
  <2> DEFINE kept == [i \in {0} |-> <<>>]
  <2>1. kept \in [0..0 -> Seq(S)]
    OBVIOUS
  <2> QED
    BY <2>1 DEF Following
<1>3. ASSUME NEW n \in Nat, n + 1 <= Len(p), Good(n) PROVE Good(n + 1)
  <2>1. PICK kept \in [0..n -> Seq(S)] : \A i \in 0..n : kept[i] = Following(p, kept, i)
    BY <1>3
  <2>2. /\ kept[n] \in Seq(S) /\ p[n + 1] \in S
        /\ n + 1 # 0 /\ (n + 1) - 1 = n
        /\ n + 1 \in 0..(n + 1) /\ n + 1 \notin 0..n /\ n \in 0..(n + 1)
    BY <1>1, <1>3
  <2>3. /\ \A i \in 0..(n + 1) : i = n + 1 \/ i \in 0..n
        /\ \A i \in 0..n : i \in 0..(n + 1) /\ (i # 0 => i - 1 \in 0..n)
    BY <1>3
  <2> DEFINE new == Following(p, kept, n + 1)
             longer == [i \in 0..(n + 1) |-> IF i = n + 1 THEN new ELSE kept[i]]
  <2>4. new \in Seq(S)
    <3>1. Append(kept[n], p[n + 1]) \in Seq(S)
      BY <2>2
    <3> QED
      BY <2>2, <3>1 DEF Following
  <2> HIDE DEF new
  <2>5. longer \in [0..(n + 1) -> Seq(S)]
    BY <2>3, <2>4
  <2>6. \A i \in 0..n : longer[i] = kept[i]
    BY <2>2, <2>3
  <2>7. longer[n + 1] = Following(p, longer, n + 1)
    <3>1. longer[n] = kept[n] /\ longer[n + 1] = new
      BY <2>2, <2>6
    <3> HIDE DEF longer
    <3> QED
      BY <2>2, <3>1 DEF new, Following
  <2> HIDE DEF longer
  <2>8. \A i \in 0..n : longer[i] = Following(p, longer, i)
    BY <2>1, <2>3, <2>6 DEF Following
  <2> QED
    BY <2>3, <2>5, <2>7, <2>8
<1> HIDE DEF Good
<1>4. 0 \in G /\ \A n \in Nat : n \in G => n + 1 \in G
  <2>1. \A n \in Nat : n + 1 <= Len(p) => n <= Len(p)
    BY <1>1
  <2> QED
    BY <1>2, <1>3, <2>1
<1>5. Nat \subseteq G
  BY <1>4, Induction
<1>6. Good(Len(p))
  BY <1>1, <1>5
<1>7. PICK kept \in [0..Len(p) -> Seq(S)] : \A i \in 0..Len(p) : kept[i] = Following(p, kept, i)
  BY <1>6 DEF Good
<1>8. kept = [n \in 0..Len(p) |-> Following(p, kept, n)]
  BY <1>7
<1> QED
  BY <1>8

LEMMA FollowDef ==
    ASSUME NEW S, NEW p \in Seq(S)
    PROVE  \E kept : /\ kept = [n \in 0..Len(p) |-> Following(p, kept, n)]
                     /\ Follow(p) = kept[Len(p)]
<1> DEFINE kept == CHOOSE k : k = [n \in 0..Len(p) |-> Following(p, k, n)]
<1>1. \E k : k = [n \in 0..Len(p) |-> Following(p, k, n)]
  BY FollowingExists
<1>2. kept = [n \in 0..Len(p) |-> Following(p, kept, n)]
  BY <1>1
<1>3. Follow(p) = kept[Len(p)]
  BY DEF Follow, Following
<1> QED
  BY <1>2, <1>3

LEMMA FollowOK ==
    ASSUME NEW S, NEW p \in Seq(S), ProgramOK(p)
    PROVE  /\ Follow(p) \in Seq(S) /\ ProgramOK(Follow(p))
           /\ Has(p) => Has(Follow(p))
<1>1. p \in Seq(S)
  OBVIOUS
<1>2. Len(p) \in Nat /\ \A n \in 1..Len(p) : p[n] \in S
  BY <1>1
<1>3. PICK kept : /\ kept = [n \in 0..Len(p) |-> Following(p, kept, n)]
                  /\ Follow(p) = kept[Len(p)]
  BY <1>1, FollowDef
<1>4. \A n \in 0..Len(p) : kept[n] = Following(p, kept, n)
  BY <1>3
<1> DEFINE Later(n) == \E j \in 1..Len(p) : n < j /\ BringsEngine(p[j])
           Kept(q) ==
               \A i \in 1..Len(q) :
                   /\ StepOK(q[i])
                   /\ Needs(q[i]) => \E j \in 1..Len(q) : i < j /\ BringsEngine(q[j])
           Good(n) ==
               /\ kept[n] \in Seq(S)
               /\ Later(n) \/ Kept(kept[n])
               /\ \A i \in 1..Len(kept[n]) : StepOK(kept[n][i])
               /\ \A j \in 1..Len(p) : j <= n /\ BringsEngine(p[j]) => Has(kept[n])
           G == {n \in Nat : n <= Len(p) => Good(n)}
<1>5. Good(0)
  <2>1. 0 \in 0..Len(p) /\ kept[0] = <<>>
    BY <1>2, <1>4 DEF Following
  <2>2. Kept(<<>>)
    OBVIOUS
  <2> QED
    BY <1>2, <2>1, <2>2
<1>6. ASSUME NEW n \in Nat, n + 1 <= Len(p), Good(n) PROVE Good(n + 1)
  <2>1. /\ n + 1 \in 1..Len(p) /\ n + 1 \in 0..Len(p) /\ n + 1 # 0 /\ (n + 1) - 1 = n
        /\ p[n + 1] \in S
    BY <1>2, <1>6
  <2> DEFINE q == kept[n]
             r == kept[n + 1]
             st == p[n + 1]
  <2>2. r = IF Concerns(st) THEN Append(q, st) ELSE q
    BY <1>4, <2>1 DEF Following
  <2>3. /\ q \in Seq(S) /\ st \in S
        /\ Later(n) \/ Kept(q)
        /\ \A i \in 1..Len(q) : StepOK(q[i])
        /\ \A j \in 1..Len(p) : j <= n /\ BringsEngine(p[j]) => Has(q)
    BY <1>6, <2>1
  <2>4. StepOK(st) /\ (Needs(st) => Later(n + 1))
    BY <2>1 DEF ProgramOK
  <2>5. BringsEngine(st) => Concerns(st)
    BY DEF BringsEngine, Concerns
  <2>6. Later(n) => BringsEngine(st) \/ Later(n + 1)
    BY <2>1
  <2> HIDE DEF Later, q, r, st
  <2>7. CASE Concerns(st)
    <3>1. /\ r \in Seq(S) /\ Len(q) \in Nat /\ Len(r) = Len(q) + 1
          /\ \A i \in 1..Len(q) : r[i] = q[i]
          /\ r[Len(q) + 1] = st
      BY <2>2, <2>3, <2>7, AppendProperties
    <3>2. /\ \A i \in 1..Len(r) : i \in 1..Len(q) \/ i = Len(q) + 1
          /\ \A i \in 1..Len(q) : i \in 1..Len(r) /\ i < Len(q) + 1
          /\ Len(q) + 1 \in 1..Len(r)
      BY <3>1
    <3>3. \A i \in 1..Len(r) : StepOK(r[i])
      BY <2>3, <2>4, <3>1, <3>2
    <3>4. Later(n + 1) \/ Kept(r)
      <4>1. CASE BringsEngine(st)
        <5>1. ~Needs(st) \/ Later(n + 1)
          BY <2>4
        <5>2. ASSUME ~Needs(st) PROVE Kept(r)
          BY <3>1, <3>2, <3>3, <4>1, <5>2
        <5> QED
          BY <5>1, <5>2
      <4>2. CASE ~BringsEngine(st) /\ ~Later(n + 1)
        <5>1. Kept(q) /\ ~Needs(st)
          BY <2>3, <2>4, <2>6, <4>2
        <5> QED
          BY <3>1, <3>2, <3>3, <5>1
      <4> QED
        BY <4>1, <4>2
    <3>5. Has(q) => Has(r)
      BY <3>1, <3>2 DEF Has
    <3>6. BringsEngine(st) => Has(r)
      BY <3>1, <3>2 DEF Has
    <3>7. \A j \in 1..Len(p) : j <= n + 1 /\ BringsEngine(p[j]) => Has(r)
      <4> SUFFICES ASSUME NEW j \in 1..Len(p), j <= n + 1, BringsEngine(p[j]) PROVE Has(r)
        OBVIOUS
      <4>1. CASE j <= n
        BY <2>3, <3>5, <4>1
      <4>2. CASE ~(j <= n)
        <5>1. j = n + 1
          BY <1>2, <4>2
        <5> QED
          BY <3>6, <5>1 DEF st
      <4> QED
        BY <4>1, <4>2
    <3> QED
      BY <3>1, <3>3, <3>4, <3>7 DEF r
  <2>8. CASE ~Concerns(st)
    <3>1. r = q /\ ~BringsEngine(st)
      BY <2>2, <2>5, <2>8
    <3>2. Later(n + 1) \/ Kept(r)
      BY <2>3, <2>6, <3>1
    <3>3. \A j \in 1..Len(p) : j <= n + 1 /\ BringsEngine(p[j]) => Has(r)
      <4> SUFFICES ASSUME NEW j \in 1..Len(p), j <= n + 1, BringsEngine(p[j]) PROVE Has(r)
        OBVIOUS
      <4>1. j # n + 1
        BY <3>1 DEF st
      <4>2. j <= n
        BY <1>2, <4>1
      <4> QED
        BY <2>3, <3>1, <4>2
    <3> QED
      BY <2>3, <3>1, <3>2, <3>3 DEF r
  <2> QED
    BY <2>7, <2>8
<1> HIDE DEF Good
<1>7. 0 \in G /\ \A n \in Nat : n \in G => n + 1 \in G
  <2>1. \A n \in Nat : n + 1 <= Len(p) => n <= Len(p)
    BY <1>2
  <2> QED
    BY <1>5, <1>6, <2>1
<1>8. Nat \subseteq G
  BY <1>7, Induction
<1>9. Good(Len(p))
  BY <1>2, <1>8
<1> DEFINE q == Follow(p)
<1>10. /\ q \in Seq(S)
       /\ Later(Len(p)) \/ Kept(q)
       /\ \A j \in 1..Len(p) : j <= Len(p) /\ BringsEngine(p[j]) => Has(q)
  BY <1>3, <1>9 DEF Good
<1>11. ~Later(Len(p))
  BY <1>2
<1> HIDE DEF q
<1>12. ProgramOK(q)
  BY <1>10, <1>11 DEF ProgramOK
<1>13. Has(p) => Has(q)
  BY <1>2, <1>10 DEF Has
<1> QED
  BY <1>10, <1>12, <1>13 DEF q

(***************************************************************************)
(* The programs of BridgeCommands.                                         *)
(***************************************************************************)
LEMMA CommandStepsOK ==
    ASSUME NEW c, c # "engine", NEW v, NEW u
    PROVE  /\ StepOK(Send(c, v, u)) /\ ~Needs(Send(c, v, u))
           /\ StepOK(Try(c, v, u)) /\ ~Needs(Try(c, v, u))
           /\ StepOK(Live(c)) /\ ~Needs(Live(c))
BY DEF StepOK, Needs, Send, Try, Live

LEMMA StoreStepsOK ==
    ASSUME NEW u, NEW sent
    PROVE  /\ StepOK(StoreAfter(u, sent)) /\ (Harmless(u) => ~Needs(StoreAfter(u, sent)))
           /\ StepOK(Store(u)) /\ (Harmless(u) => ~Needs(Store(u)))
BY DEF StepOK, Needs, StoreAfter, Store, CommandSteps

LEMMA PushStepsOK ==
    ASSUME NEW all, NEW cmds, NEW live, Names(cmds), Names(live)
    PROVE  /\ StepOK(PushOf(all, cmds, live)) /\ ~Needs(PushOf(all, cmds, live))
           /\ all => BringsEngine(PushOf(all, cmds, live))
BY DEF StepOK, Needs, PushOf, CommandSteps, BringsEngine

LEMMA OtherSteps ==
    /\ StepOK(Engine) /\ ~Needs(Engine) /\ BringsEngine(Engine)
    /\ StepOK(EngineUnlessReapplying) /\ ~Needs(EngineUnlessReapplying)
    /\ BringsEngine(EngineUnlessReapplying)
    /\ StepOK(Saving) /\ ~Needs(Saving)
    /\ StepOK(Restore) /\ ~Needs(Restore)
BY DEF StepOK, Needs, BringsEngine, CommandSteps, Engine, EngineUnlessReapplying, Saving, Restore

LEMMA PairOK ==
    ASSUME NEW a, NEW b, StepOK(a), StepOK(b), Needs(a) => BringsEngine(b), ~Needs(b)
    PROVE  /\ ProgramOK(<<a, b>>)
           /\ BringsEngine(a) \/ BringsEngine(b) => Has(<<a, b>>)
           /\ a.do = "reapplied" => Marks(<<a, b>>)
<1> DEFINE p == <<a, b>>
<1>1. p \in Seq({a, b}) /\ Len(p) = 2 /\ p[1] = a /\ p[2] = b
  OBVIOUS
<1> HIDE DEF p
<1>2. \A i \in 1..2 : StepOK(p[i]) /\ (Needs(p[i]) => i = 1 /\ BringsEngine(p[2]))
  BY <1>1
<1>3. ProgramOK(p)
  BY <1>1, <1>2 DEF ProgramOK
<1>4. BringsEngine(a) \/ BringsEngine(b) => Has(p)
  BY <1>1 DEF Has
<1>5. a.do = "reapplied" => Marks(p)
  BY <1>1 DEF Marks
<1> QED
  BY <1>3, <1>4, <1>5 DEF p

LEMMA TripleOK ==
    ASSUME NEW a, NEW b, NEW c, StepOK(a), StepOK(b), StepOK(c),
           ~Needs(a), Needs(b) => BringsEngine(c), ~Needs(c)
    PROVE  ProgramOK(<<a, b, c>>)
<1> DEFINE p == <<a, b, c>>
<1>1. p \in Seq({a, b, c}) /\ Len(p) = 3 /\ p[1] = a /\ p[2] = b /\ p[3] = c
  OBVIOUS
<1> HIDE DEF p
<1>2. \A i \in 1..3 : StepOK(p[i]) /\ (Needs(p[i]) => i < 3 /\ BringsEngine(p[3]))
  BY <1>1
<1>3. ProgramOK(p)
  BY <1>1, <1>2 DEF ProgramOK
<1> QED
  BY <1>3 DEF p

LEMMA QuadrupleOK ==
    ASSUME NEW a, NEW b, NEW c, NEW d, StepOK(a), StepOK(b), StepOK(c), StepOK(d),
           ~Needs(a), ~Needs(c), BringsEngine(d), ~Needs(d)
    PROVE  ProgramOK(<<a, b>> \o <<c, d>>)
<1> DEFINE S == {a, b, c, d}
           p == <<a, b>>
           q == <<c, d>>
<1>1. /\ p \in Seq(S) /\ Len(p) = 2 /\ p[1] = a /\ p[2] = b
      /\ q \in Seq(S) /\ Len(q) = 2 /\ q[1] = c /\ q[2] = d
  OBVIOUS
<1> HIDE DEF S, p, q
<1> DEFINE r == p \o q
<1>2. /\ r \in Seq(S) /\ Len(r) = Len(p) + Len(q)
      /\ \A i \in 1..(Len(p) + Len(q)) : r[i] = IF i <= Len(p) THEN p[i] ELSE q[i - Len(p)]
  BY <1>1, ConcatProperties
<1> HIDE DEF r
<1>3. Len(r) = 4 /\ r[1] = a /\ r[2] = b /\ r[3] = c /\ r[4] = d
  <2>1. Len(r) = 4 /\ \A i \in 1..4 : r[i] = IF i <= 2 THEN p[i] ELSE q[i - 2]
    BY <1>1, <1>2
  <2>2. r[1] = p[1] /\ r[2] = p[2] /\ r[3] = q[1] /\ r[4] = q[2]
    BY <2>1
  <2> QED
    BY <1>1, <2>1, <2>2
<1>4. \A i \in 1..4 : StepOK(r[i]) /\ (Needs(r[i]) => i < 4 /\ BringsEngine(r[4]))
  <2>1. \A i \in 1..4 : i = 1 \/ i = 2 \/ i = 3 \/ i = 4
    OBVIOUS
  <2> QED
    BY <1>3, <2>1
<1>5. /\ Len(r) = 4 /\ 4 \in 1..4
      /\ \A i \in 1..4 : Needs(r[i]) => \E j \in 1..4 : i < j /\ BringsEngine(r[j])
  BY <1>3, <1>4
<1>6. ProgramOK(r)
  BY <1>2, <1>4, <1>5 DEF ProgramOK
<1> QED
  BY <1>6 DEF p, q, r

LEMMA NoNames == Names(<<>>)
<1>1. <<>> \in Seq({}) /\ Len(<<>>) = 0
  OBVIOUS
<1> QED
  BY <1>1 DEF Names

LEMMA OneName ==
    ASSUME NEW c, c # "engine" PROVE Names(<<c>>)
<1> DEFINE p == <<c>>
<1>1. p \in Seq({c}) /\ Len(p) = 1 /\ p[1] = c
  OBVIOUS
<1> HIDE DEF p
<1>2. Names(p)
  BY <1>1 DEF Names
<1> QED
  BY <1>2 DEF p

LEMMA TwoNames ==
    ASSUME NEW c, NEW d, c # "engine", d # "engine" PROVE Names(<<c, d>>)
<1> DEFINE p == <<c, d>>
<1>1. p \in Seq({c, d}) /\ Len(p) = 2 /\ p[1] = c /\ p[2] = d
  OBVIOUS
<1> HIDE DEF p
<1>2. Names(p)
  BY <1>1 DEF Names
<1> QED
  BY <1>2 DEF p

(* A row of commands in a fixed order.                                     *)
LEMMA ApplyAllOK ==
    ASSUME NEW cs, Names(cs), NEW s
    PROVE  /\ ProgramOK(ApplyAll(cs, s)) /\ Len(ApplyAll(cs, s)) = Len(cs)
           /\ \A i \in 1..Len(cs) : /\ ApplyAll(cs, s)[i].do = "apply"
                                    /\ ApplyAll(cs, s)[i].cmd = cs[i]
<1>1. PICK S : cs \in Seq(S)
  BY DEF Names
<1>2. Len(cs) \in Nat /\ DOMAIN cs = 1..Len(cs)
  BY <1>1
<1>3. PICK g : ApplyAll(cs, s)
               = [i \in 1..Len(cs) |-> [do |-> "apply", cmd |-> cs[i], of |-> g[i]]]
  <2> DEFINE g == [i \in 1..Len(cs) |->
                      [saves |-> s.controllerPowerSavingEnabled,
                       plain |-> Effective(s, FALSE)[cs[i]], capped |-> Effective(s, TRUE)[cs[i]]]]
  <2>1. ApplyAll(cs, s) = [i \in 1..Len(cs) |-> [do |-> "apply", cmd |-> cs[i], of |-> g[i]]]
    BY <1>2 DEF ApplyAll
  <2> QED
    BY <2>1
<1> DEFINE f == [i \in 1..Len(cs) |-> [do |-> "apply", cmd |-> cs[i], of |-> g[i]]]
<1>4. \A i \in 1..Len(cs) : f[i].do = "apply" /\ f[i].cmd = cs[i]
  OBVIOUS
<1>5. f = [i \in 1..Len(cs) |-> f[i]]
  OBVIOUS
<1> HIDE DEF f
<1>6. \A i \in 1..Len(cs) : StepOK(f[i]) /\ ~Needs(f[i])
  BY <1>4 DEF StepOK, Needs, Names, CommandSteps
<1>7. ProgramOK(f) /\ Len(f) = Len(cs)
  BY <1>2, <1>5, <1>6, RowOK
<1> QED
  BY <1>3, <1>4, <1>7 DEF f

LEMMA LiveRowOK ==
    ASSUME NEW cs, Names(cs)
    PROVE  ProgramOK([i \in DOMAIN cs |-> Live(cs[i])])
<1>1. PICK S : cs \in Seq(S)
  BY DEF Names
<1>2. Len(cs) \in Nat /\ DOMAIN cs = 1..Len(cs)
  BY <1>1
<1> DEFINE f == [i \in 1..Len(cs) |-> Live(cs[i])]
<1>3. f = [i \in 1..Len(cs) |-> f[i]] /\ \A i \in 1..Len(cs) : f[i] = Live(cs[i])
  OBVIOUS
<1> HIDE DEF f
<1>4. \A i \in 1..Len(cs) : StepOK(f[i]) /\ ~Needs(f[i])
  BY <1>3 DEF StepOK, Needs, Names, CommandSteps, Live
<1>5. ProgramOK(f)
  BY <1>2, <1>3, <1>4, RowOK
<1> QED
  BY <1>2, <1>5 DEF f

LEMMA OrderNames ==
    /\ Names(LightbarOrder) /\ Names(SavingOrder) /\ Names(ReapplyOrder)
    /\ \E k \in DOMAIN ReapplyOrder : ReapplyOrder[k] = "SET_AUDIO_REACTIVE_HAPTICS"
<1> DEFINE saving == <<"SET_HAPTICS_GAIN", "SET_CLASSIC_RUMBLE_GAIN",
                       "SET_TRIGGER_EFFECT_INTENSITY", "SET_AUDIO_REACTIVE_HAPTICS">>
           others == <<"SET_MUTE_BUTTON_ACTION", "SET_HAPTICS_GAIN", "SET_HAPTICS_BUFFER_LENGTH",
                       "SET_AUDIO_REACTIVE_HAPTICS", "SET_CLASSIC_RUMBLE_GAIN",
                       "SET_CLASSIC_RUMBLE_V1", "SET_TRIGGER_EFFECT_INTENSITY",
                       "SET_SPEAKER_GAIN", "SET_SPEAKER_VOLUME", "SET_DUPLEX_ENABLED",
                       "SET_MIC_VOLUME", "SET_MIC_MUTE", "SET_LED_ENABLED",
                       "SET_PLAYER_LED_ENABLED", "SET_TOUCHPAD_POINTER",
                       "SET_IDLE_DISCONNECT_ENABLED", "SET_IDLE_DISCONNECT_TIMEOUT",
                       "SET_USB_SUSPEND_DISCONNECT_ENABLED", "SET_SLEEP_KEYBIND_ENABLED",
                       "SET_SPEAKER_VOLUME_SHORTCUT_ENABLED", "SET_BUTTON_REMAP",
                       "SET_CHORD_BINDINGS", "SET_POLLING_RATE_MODE">>
           S == {"SET_LIGHTBAR_COLOR", "SET_LIGHTBAR_OVERRIDE",
                 "SET_MUTE_BUTTON_ACTION", "SET_HAPTICS_GAIN", "SET_HAPTICS_BUFFER_LENGTH",
                 "SET_AUDIO_REACTIVE_HAPTICS", "SET_CLASSIC_RUMBLE_GAIN",
                 "SET_CLASSIC_RUMBLE_V1", "SET_TRIGGER_EFFECT_INTENSITY",
                 "SET_SPEAKER_GAIN", "SET_SPEAKER_VOLUME", "SET_DUPLEX_ENABLED",
                 "SET_MIC_VOLUME", "SET_MIC_MUTE", "SET_LED_ENABLED",
                 "SET_PLAYER_LED_ENABLED", "SET_TOUCHPAD_POINTER",
                 "SET_IDLE_DISCONNECT_ENABLED", "SET_IDLE_DISCONNECT_TIMEOUT",
                 "SET_USB_SUSPEND_DISCONNECT_ENABLED", "SET_SLEEP_KEYBIND_ENABLED",
                 "SET_SPEAKER_VOLUME_SHORTCUT_ENABLED", "SET_BUTTON_REMAP",
                 "SET_CHORD_BINDINGS", "SET_POLLING_RATE_MODE"}
<1>1. LightbarOrder \in Seq(S) /\ Len(LightbarOrder) = 2
  BY DEF LightbarOrder
<1>2. saving \in Seq(S)
  OBVIOUS
<1>3. others \in Seq(S) /\ Len(others) = 23 /\ others[4] = "SET_AUDIO_REACTIVE_HAPTICS"
  OBVIOUS
<1>9. "engine" \notin S
  OBVIOUS
<1>4. SavingOrder = saving \o LightbarOrder /\ ReapplyOrder = LightbarOrder \o others
  BY DEF SavingOrder, ReapplyOrder
<1> HIDE DEF saving, others, S
<1>5. SavingOrder \in Seq(S) /\ ReapplyOrder \in Seq(S)
  BY <1>1, <1>2, <1>3, <1>4, ConcatProperties
<1>6. Len(ReapplyOrder) = 25 /\ ReapplyOrder[6] = others[4]
  <2>1. PICK t, m, n : /\ t = LightbarOrder \o others
                       /\ m = Len(LightbarOrder) /\ n = Len(others)
    OBVIOUS
  <2>2. Len(t) = m + n /\ \A k \in 1..(m + n) : t[k] = IF k <= m THEN LightbarOrder[k] ELSE others[k - m]
    BY <1>1, <1>3, <2>1, ConcatProperties
  <2>3. m = 2 /\ n = 23 /\ ReapplyOrder = t
    BY <1>1, <1>3, <1>4, <2>1
  <2>4. 6 \in 1..(2 + 23) /\ ~(6 <= 2) /\ 6 - 2 = 4 /\ 2 + 23 = 25
    OBVIOUS
  <2>5. Len(t) = 25 /\ t[6] = others[4]
    BY <2>2, <2>3, <2>4
  <2> QED
    BY <2>3, <2>5
<1>7. \A cs \in Seq(S) : Names(cs)
  BY <1>9 DEF Names
<1>8. DOMAIN ReapplyOrder = 1..25
  BY <1>5, <1>6
<1> QED
  BY <1>1, <1>3, <1>5, <1>6, <1>7, <1>8

(* applyCurrentSettings brings the engine in line on its way.              *)
LEMMA ApplyCurrentSettingsOK ==
    ASSUME NEW s
    PROVE  ProgramOK(ApplyCurrentSettings(s)) /\ Has(ApplyCurrentSettings(s))
<1> DEFINE i == CHOOSE k \in DOMAIN ReapplyOrder : ReapplyOrder[k] = "SET_AUDIO_REACTIVE_HAPTICS"
<1>1. i \in DOMAIN ReapplyOrder
  BY OrderNames
<1>2. PICK n, r : i = n /\ n \in DOMAIN ReapplyOrder /\ r = ApplyAll(ReapplyOrder, s)
  BY <1>1
<1>3. PICK S : ReapplyOrder \in Seq(S)
  BY OrderNames DEF Names
<1>4. n \in 1..Len(ReapplyOrder) /\ Len(ReapplyOrder) \in Nat
  BY <1>2, <1>3
<1>5. /\ ProgramOK(r) /\ Len(r) = Len(ReapplyOrder)
      /\ \A k \in 1..Len(r) : r[k].do = "apply"
  BY <1>2, OrderNames, ApplyAllOK
<1>6. ApplyCurrentSettings(s) = InsertAt(r, n + 1, EngineUnlessReapplying)
  BY <1>2 DEF ApplyCurrentSettings
<1>7. ApplyCurrentSettings(s)
          = (SubSeq(r, 1, n) \o <<EngineUnlessReapplying>>) \o SubSeq(r, n + 1, Len(r))
  <2>1. InsertAt(r, n + 1, EngineUnlessReapplying)
            = (SubSeq(r, 1, (n + 1) - 1) \o <<EngineUnlessReapplying>>) \o SubSeq(r, n + 1, Len(r))
    BY DEF InsertAt
  <2>2. (n + 1) - 1 = n
    BY <1>4
  <2> QED
    BY <1>6, <2>1, <2>2
<1> DEFINE before == SubSeq(r, 1, n)
           after == SubSeq(r, n + 1, Len(r))
<1>8. ProgramOK(before) /\ ProgramOK(after)
  <2>1. \A k \in 1..Len(r) : StepOK(r[k]) /\ ~Needs(r[k])
    BY <1>5 DEF ProgramOK, Needs
  <2>2. ASSUME NEW a \in Nat, NEW b \in Nat, a > 0, b <= Len(r), a <= b + 1
        PROVE  ProgramOK(SubSeq(r, a, b))
    <3> DEFINE f == SubSeq(r, a, b)
               m == (b + 1) - a
    <3>1. Len(r) \in Nat
      BY <1>4, <1>5
    <3>2. f = [k \in 1..m |-> r[(a + k) - 1]]
      BY <2>2
    <3>3. m \in Nat /\ \A k \in 1..m : (a + k) - 1 \in 1..Len(r)
      BY <2>2, <3>1
    <3> HIDE DEF f, m
    <3>4. f = [k \in 1..m |-> f[k]] /\ \A k \in 1..m : f[k] = r[(a + k) - 1]
      BY <3>2
    <3>5. \A k \in 1..m : StepOK(f[k]) /\ ~Needs(f[k])
      BY <2>1, <3>3, <3>4
    <3>6. ProgramOK(f)
      BY <3>3, <3>4, <3>5, RowOK
    <3> QED
      BY <3>6 DEF f
  <2> QED
    BY <1>4, <1>5, <2>2
<1> HIDE DEF before, after
<1>9. ProgramOK(<<EngineUnlessReapplying>>) /\ Has(<<EngineUnlessReapplying>>)
  BY OtherSteps, OneOK
<1>10. /\ ProgramOK(before \o <<EngineUnlessReapplying>>)
       /\ Has(before \o <<EngineUnlessReapplying>>)
  BY <1>8, <1>9, ConcatOK
<1>11. /\ ProgramOK((before \o <<EngineUnlessReapplying>>) \o after)
       /\ Has((before \o <<EngineUnlessReapplying>>) \o after)
  BY <1>8, <1>10, ConcatOK
<1> QED
  BY <1>7, <1>11 DEF before, after

LEMMA SendSettingOK ==
    ASSUME NEW c, c # "engine", NEW s, NEW upd, Harmless(upd), NEW saving
    PROVE  ProgramOK(SendSetting(c, s, upd, saving))
<1>1. PICK v : SendSetting(c, s, upd, saving) = <<Send(c, v, upd), Store(upd)>>
  BY DEF SendSetting
<1>2. /\ StepOK(Send(c, v, upd)) /\ ~Needs(Send(c, v, upd))
      /\ StepOK(Store(upd)) /\ ~Needs(Store(upd))
  BY CommandStepsOK, StoreStepsOK
<1> QED
  BY <1>1, <1>2, PairOK

LEMMA StoreThenPushOK ==
    ASSUME NEW upd, Harmless(upd), NEW cs, Names(cs)
    PROVE  /\ ProgramOK(StoreThenPush(upd, cs)) /\ ProgramOK(<<Store(upd), PushLive(cs)>>)
<1>1. /\ StepOK(Store(upd)) /\ ~Needs(Store(upd))
      /\ StepOK(Push(cs)) /\ ~Needs(Push(cs))
      /\ StepOK(PushLive(cs)) /\ ~Needs(PushLive(cs))
  BY StoreStepsOK, PushStepsOK, NoNames DEF Push, PushLive
<1> QED
  BY <1>1, PairOK DEF StoreThenPush

(* Whatever is stored before it, a push of all settings makes up for.      *)
LEMMA StoreThenAllOK ==
    ASSUME NEW upd, NEW cs, Names(cs)
    PROVE  ProgramOK(<<Store(upd), PushOf(TRUE, <<>>, cs)>>)
<1>1. /\ StepOK(Store(upd))
      /\ StepOK(PushOf(TRUE, <<>>, cs)) /\ ~Needs(PushOf(TRUE, <<>>, cs))
      /\ BringsEngine(PushOf(TRUE, <<>>, cs))
  BY StoreStepsOK, PushStepsOK, NoNames
<1> QED
  BY <1>1, PairOK

(* Operations that send one setting's command and store it.                *)
LEMMA SendersOK ==
    ASSUME NEW s, NEW v, NEW w, NEW b, NEW saving
    PROVE  /\ ProgramOK(setHapticsGain(s, v, saving))
           /\ ProgramOK(setHapticsBufferLength(s, v))
           /\ ProgramOK(setClassicRumbleGain(s, v, saving))
           /\ ProgramOK(setClassicRumbleEnabled(s, v, saving))
           /\ ProgramOK(setClassicRumbleV1Enabled(s, v))
           /\ ProgramOK(setTriggerEffectIntensity(s, v, saving))
           /\ ProgramOK(setAdaptiveTriggersEnabled(s, v, saving))
           /\ ProgramOK(setSpeakerGainLevel(s, v)) /\ ProgramOK(setSpeakerEnabled(s, v))
           /\ ProgramOK(setMicVolume(s, v)) /\ ProgramOK(setMicMute(s, v))
           /\ ProgramOK(setMuteButtonAction(s, v, w, b))
           /\ ProgramOK(setLedEnabled(s, v)) /\ ProgramOK(setPlayerLedEnabled(s, v))
           /\ ProgramOK(setIdleDisconnectEnabled(s, v))
           /\ ProgramOK(setIdleDisconnectTimeoutMinutes(s, v))
           /\ ProgramOK(setUsbSuspendDisconnectEnabled(s, v))
           /\ ProgramOK(setSleepKeybindEnabled(s, v))
           /\ ProgramOK(setSpeakerVolumeShortcutEnabled(s, v))
           /\ ProgramOK(setPollingRateMode(s, v)) /\ ProgramOK(setTouchpadMouseEnabled(s, v))
<1> USE DEF Harmless, EngineFields
<1>1. ProgramOK(setHapticsGain(s, v, saving))
  <2>1. PICK gain : gain = Bound(v, 0, FeedbackGainMax(s))
    OBVIOUS
  <2>2. /\ Harmless([hapticsGainPercent |-> gain, hapticsEnabled |-> TRUE])
        /\ Harmless([hapticsGainPercent |-> gain])
    OBVIOUS
  <2>3. PICK upd : /\ Harmless(upd)
                   /\ setHapticsGain(s, v, saving)
                          = SendSetting("SET_HAPTICS_GAIN", s, upd, saving)
    BY <2>1, <2>2 DEF setHapticsGain
  <2> QED
    BY <2>3, SendSettingOK
<1>2. ProgramOK(setHapticsBufferLength(s, v))
  BY SendSettingOK DEF setHapticsBufferLength
<1>3. ProgramOK(setClassicRumbleGain(s, v, saving))
  BY SendSettingOK DEF setClassicRumbleGain
<1>4. ProgramOK(setClassicRumbleEnabled(s, v, saving))
  BY SendSettingOK DEF setClassicRumbleEnabled
<1>5. ProgramOK(setClassicRumbleV1Enabled(s, v))
  BY SendSettingOK DEF setClassicRumbleV1Enabled
<1>6. ProgramOK(setTriggerEffectIntensity(s, v, saving))
  BY SendSettingOK DEF setTriggerEffectIntensity
<1>7. ProgramOK(setAdaptiveTriggersEnabled(s, v, saving))
  BY SendSettingOK DEF setAdaptiveTriggersEnabled
<1>8. ProgramOK(setSpeakerGainLevel(s, v)) /\ ProgramOK(setSpeakerEnabled(s, v))
  BY SendSettingOK DEF setSpeakerGainLevel, setSpeakerEnabled
<1>9. ProgramOK(setMicVolume(s, v)) /\ ProgramOK(setMicMute(s, v))
  BY SendSettingOK DEF setMicVolume, setMicMute
<1>10. ProgramOK(setMuteButtonAction(s, v, w, b))
  BY SendSettingOK DEF setMuteButtonAction
<1>11. ProgramOK(setLedEnabled(s, v)) /\ ProgramOK(setPlayerLedEnabled(s, v))
  BY SendSettingOK DEF setLedEnabled, setPlayerLedEnabled
<1>12. ProgramOK(setIdleDisconnectEnabled(s, v)) /\ ProgramOK(setIdleDisconnectTimeoutMinutes(s, v))
  BY SendSettingOK DEF setIdleDisconnectEnabled, setIdleDisconnectTimeoutMinutes
<1>13. ProgramOK(setUsbSuspendDisconnectEnabled(s, v)) /\ ProgramOK(setSleepKeybindEnabled(s, v))
  BY SendSettingOK DEF setUsbSuspendDisconnectEnabled, setSleepKeybindEnabled
<1>14. ProgramOK(setSpeakerVolumeShortcutEnabled(s, v)) /\ ProgramOK(setPollingRateMode(s, v))
  BY SendSettingOK DEF setSpeakerVolumeShortcutEnabled, setPollingRateMode
<1>15. ProgramOK(setTouchpadMouseEnabled(s, v))
  BY SendSettingOK DEF setTouchpadMouseEnabled
<1> QED
  BY <1>1, <1>2, <1>3, <1>4, <1>5, <1>6, <1>7, <1>8, <1>9, <1>10, <1>11, <1>12, <1>13, <1>14, <1>15

(* Operations that store first and then push.                              *)
LEMMA PushersOK ==
    ASSUME NEW s, NEW v
    PROVE  /\ ProgramOK(setFeedbackBoostEnabled(s, v)) /\ ProgramOK(setLightbarEnabled(v))
           /\ ProgramOK(setControllerPowerSavingEnabled(v)) /\ ProgramOK(applyPreset(v))
           /\ ProgramOK(selectControllerProfile(v)) /\ ProgramOK(deleteControllerProfile(v))
           /\ ProgramOK(removeGameSettings(v))
           /\ ProgramOK(setButtonRemap(v)) /\ ProgramOK(selectButtonRemappingProfile(v))
           /\ ProgramOK(deleteButtonRemappingProfile(v))
           /\ ProgramOK(restoreButtonRemappingDefaults) /\ ProgramOK(setChordConfiguration(v))
<1> USE DEF Harmless, EngineFields
<1>1. ProgramOK(setFeedbackBoostEnabled(s, v))
  <2>1. PICK upd : /\ Harmless(upd)
                   /\ setFeedbackBoostEnabled(s, v)
                          = <<Store(upd), PushLive(<<"SET_HAPTICS_GAIN", "SET_CLASSIC_RUMBLE_GAIN">>)>>
    BY DEF setFeedbackBoostEnabled
  <2> QED
    BY <2>1, TwoNames, StoreThenPushOK
<1>2. ProgramOK(setLightbarEnabled(v))
  BY OrderNames, StoreThenPushOK DEF setLightbarEnabled
<1>3. ProgramOK(setControllerPowerSavingEnabled(v))
  <2> DEFINE upd == [controllerPowerSavingEnabled |-> v]
  <2>1. Harmless(upd)
    OBVIOUS
  <2>2. StepOK(Store(upd)) /\ ~Needs(Store(upd))
    BY <2>1, StoreStepsOK
  <2> QED
    BY <2>2, OtherSteps, PairOK DEF setControllerPowerSavingEnabled
<1>4. ProgramOK(applyPreset(v))
  BY StoreThenAllOK, NoNames DEF applyPreset, PushAll
<1>5. ProgramOK(selectControllerProfile(v)) /\ ProgramOK(deleteControllerProfile(v))
  BY StoreThenAllOK, NoNames DEF selectControllerProfile, deleteControllerProfile, PushAll
<1>6. ProgramOK(removeGameSettings(v))
  BY StoreThenAllOK, OneName DEF removeGameSettings
<1>7. \A m : ProgramOK(setButtonRemap(m))
  BY StoreThenPushOK, OneName DEF setButtonRemap
<1>8. /\ ProgramOK(selectButtonRemappingProfile(v)) /\ ProgramOK(deleteButtonRemappingProfile(v))
      /\ ProgramOK(restoreButtonRemappingDefaults)
  BY <1>7 DEF selectButtonRemappingProfile, deleteButtonRemappingProfile,
              restoreButtonRemappingDefaults
<1>9. ProgramOK(setChordConfiguration(v))
  BY StoreThenPushOK, OneName DEF setChordConfiguration
<1> QED
  BY <1>1, <1>2, <1>3, <1>4, <1>5, <1>6, <1>7, <1>8, <1>9

(* The others.                                                             *)
LEMMA SpecialsOK ==
    ASSUME NEW s, NEW v, NEW w, NEW saving
    PROVE  /\ ProgramOK(setHapticsEnabled(s, v, saving)) /\ ProgramOK(setSpeakerVolume(s, v))
           /\ ProgramOK(setAudioReactiveHapticsConfig(s, v, w))
           /\ ProgramOK(setDuplexMicEnabled(s, v))
           /\ ProgramOK(setLightbarColor(s, v, w, saving))
           /\ ProgramOK(setLightbarOverrideEnabled(s, v)) /\ ProgramOK(restoreDefaults)
<1>1. ProgramOK(setHapticsEnabled(s, v, saving))
  <2> DEFINE cs == <<"SET_AUDIO_REACTIVE_HAPTICS">>
  <2>1. PICK upd, x : setHapticsEnabled(s, v, saving)
                          = <<Send("SET_HAPTICS_GAIN", x, upd), Store(upd)>> \o <<PushLive(cs), Engine>>
    BY DEF setHapticsEnabled, SendSetting
  <2>2. /\ StepOK(Send("SET_HAPTICS_GAIN", x, upd)) /\ ~Needs(Send("SET_HAPTICS_GAIN", x, upd))
        /\ StepOK(Store(upd))
    BY CommandStepsOK, StoreStepsOK
  <2>3. Names(cs)
    BY OneName
  <2> HIDE DEF cs
  <2>4. StepOK(PushLive(cs)) /\ ~Needs(PushLive(cs))
    BY <2>3, PushStepsOK, NoNames DEF PushLive
  <2> QED
    BY <2>1, <2>2, <2>4, OtherSteps, QuadrupleOK
<1>2. ProgramOK(setSpeakerVolume(s, v))
  <2> DEFINE upd == [speakerVolumePercent |-> Bound(v, 0, 100)]
             st == Send("SET_SPEAKER_VOLUME", upd.speakerVolumePercent, upd)
  <2>1. Harmless(upd)
    BY DEF Harmless, EngineFields
  <2>2. setSpeakerVolume(s, v) = (IF s.speakerEnabled THEN <<st>> ELSE <<>>) \o <<Store(upd)>>
    BY DEF setSpeakerVolume
  <2>3. StepOK(st) /\ ~Needs(st)
    BY CommandStepsOK
  <2> HIDE DEF upd, st
  <2>4. ProgramOK(<<Store(upd)>>)
    BY <2>1, StoreStepsOK, OneOK
  <2>5. ProgramOK(<<st>>)
    BY <2>3, OneOK
  <2>6. ProgramOK(IF s.speakerEnabled THEN <<st>> ELSE <<>>)
    BY <2>5, EmptyOK
  <2> QED
    BY <2>2, <2>4, <2>6, ConcatOK
<1>3. ProgramOK(setAudioReactiveHapticsConfig(s, v, w))
  <2>1. PICK upd, x : setAudioReactiveHapticsConfig(s, v, w)
                          = <<Try("SET_AUDIO_REACTIVE_HAPTICS", x, upd), Store(upd), Engine>>
    BY DEF setAudioReactiveHapticsConfig
  <2>2. /\ StepOK(Try("SET_AUDIO_REACTIVE_HAPTICS", x, upd))
        /\ ~Needs(Try("SET_AUDIO_REACTIVE_HAPTICS", x, upd))
        /\ StepOK(Store(upd))
    BY CommandStepsOK, StoreStepsOK
  <2> QED
    BY <2>1, <2>2, OtherSteps, TripleOK
<1>4. ProgramOK(setDuplexMicEnabled(s, v))
  <2> DEFINE upd == [duplexMicEnabled |-> v, micMuted |-> ~v]
             duplex == Send("SET_DUPLEX_ENABLED", v, upd)
             mute == Send("SET_MIC_MUTE", ~v, upd)
             store == StoreAfter(upd, {"SET_DUPLEX_ENABLED", "SET_MIC_MUTE"})
  <2>1. Harmless(upd)
    BY DEF Harmless, EngineFields
  <2>2. setDuplexMicEnabled(s, v) = (IF v THEN <<duplex, mute>> ELSE <<mute, duplex>>) \o <<store>>
    BY DEF setDuplexMicEnabled
  <2>3. StepOK(duplex) /\ ~Needs(duplex) /\ StepOK(mute) /\ ~Needs(mute)
    BY CommandStepsOK
  <2>4. StepOK(store) /\ ~Needs(store)
    BY <2>1, StoreStepsOK
  <2> HIDE DEF upd, duplex, mute, store
  <2>5. ProgramOK(<<duplex, mute>>) /\ ProgramOK(<<mute, duplex>>) /\ ProgramOK(<<store>>)
    BY <2>3, <2>4, OneOK, PairOK
  <2>6. ProgramOK(IF v THEN <<duplex, mute>> ELSE <<mute, duplex>>)
    BY <2>5
  <2> QED
    BY <2>2, <2>5, <2>6, ConcatOK
<1>5. ProgramOK(setLightbarColor(s, v, w, saving))
  <2>1. PICK upd, x : /\ Harmless(upd)
                      /\ setLightbarColor(s, v, w, saving)
                             = <<Send("SET_LIGHTBAR_COLOR", x, upd), Store(upd)>>
    BY DEF setLightbarColor, Harmless, EngineFields
  <2> QED
    BY <2>1, CommandStepsOK, StoreStepsOK, PairOK
<1>6. ProgramOK(setLightbarOverrideEnabled(s, v))
  <2>1. PICK upd : /\ Harmless(upd)
                   /\ setLightbarOverrideEnabled(s, v)
                          = <<Send("SET_LIGHTBAR_OVERRIDE", v, upd), Store(upd)>>
    BY DEF setLightbarOverrideEnabled, Harmless, EngineFields
  <2> QED
    BY <2>1, CommandStepsOK, StoreStepsOK, PairOK
<1>7. ProgramOK(restoreDefaults)
  BY StoreStepsOK, OtherSteps, TripleOK DEF restoreDefaults
<1> QED
  BY <1>1, <1>2, <1>3, <1>4, <1>5, <1>6, <1>7

LEMMA OperationsOK ==
    ASSUME NEW p \in Operations PROVE ProgramOK(p)
<1>1. CASE group = "haptics"
  <2>1. \/ \E g \in Gains : p = setHapticsGain(settings, g, IsSaving(settings))
        \/ \E b \in BOOLEAN : p = setHapticsEnabled(settings, b, IsSaving(settings))
        \/ \E b \in BOOLEAN : p = setFeedbackBoostEnabled(settings, b)
        \/ p = applyPreset("noHaptics")
    BY <1>1 DEF Operations
  <2> QED
    BY <2>1, SendersOK, SpecialsOK, PushersOK
<1>2. CASE group = "audio"
  <2>1. \/ \E b \in BOOLEAN : p = setAudioReactiveHapticsConfig(settings, b, "replace")
        \/ \E b \in BOOLEAN : p = setHapticsEnabled(settings, b, IsSaving(settings))
        \/ p = applyPreset("noHaptics") \/ p = restoreDefaults
    BY <1>2 DEF Operations
  <2> QED
    BY <2>1, SpecialsOK, PushersOK
<1>3. CASE group = "rumble"
  <2>1. \/ \E g \in Gains : p = setClassicRumbleGain(settings, g, IsSaving(settings))
        \/ \E b \in BOOLEAN : p = setClassicRumbleEnabled(settings, b, IsSaving(settings))
        \/ p = setFeedbackBoostEnabled(settings, TRUE) \/ p = setControllerPowerSavingEnabled(TRUE)
    BY <1>3 DEF Operations
  <2> QED
    BY <2>1, SendersOK, PushersOK
<1>4. CASE group = "triggers"
  <2>1. \/ \E g \in Gains : p = setTriggerEffectIntensity(settings, g, IsSaving(settings))
        \/ \E b \in BOOLEAN : p = setAdaptiveTriggersEnabled(settings, b, IsSaving(settings))
        \/ \E b \in BOOLEAN : p = setControllerPowerSavingEnabled(b)
        \/ p = applyPreset("noTriggers") \/ p = applyPreset("balanced")
    BY <1>4 DEF Operations
  <2> QED
    BY <2>1, SendersOK, PushersOK
<1>5. CASE group = "color"
  <2>1. \/ \E g \in Gains : p = setLightbarColor(settings, "red", g, IsSaving(settings))
        \/ \E b \in BOOLEAN : p = setLightbarEnabled(b)
        \/ p = applyPreset("lightsOff") \/ p = restoreDefaults
    BY <1>5 DEF Operations
  <2> QED
    BY <2>1, SpecialsOK, PushersOK
<1>6. CASE group = "override"
  <2>1. \/ \E b \in BOOLEAN : p = setLightbarOverrideEnabled(settings, b)
        \/ \E b \in BOOLEAN : p = setLightbarEnabled(b)
        \/ p = applyPreset("lightsOff") \/ p = restoreDefaults
    BY <1>6 DEF Operations
  <2> QED
    BY <2>1, SpecialsOK, PushersOK
<1>7. CASE group = "sound"
  <2>1. \/ \E g \in Gains : p = setSpeakerVolume(settings, g)
        \/ \E b \in BOOLEAN : p = setSpeakerEnabled(settings, b)
        \/ p = applyPreset("noSpeaker") \/ p = applyPreset("quiet")
        \/ p = deleteControllerProfile([speakerEnabled |-> FALSE])
    BY <1>7 DEF Operations
  <2> QED
    BY <2>1, SendersOK, SpecialsOK, PushersOK
<1>8. CASE group = "mic"
  <2>1. \/ \E b \in BOOLEAN : p = setMicMute(settings, b)
        \/ \E b \in BOOLEAN : p = setDuplexMicEnabled(settings, b)
        \/ p = selectControllerProfile([duplexMicEnabled |-> FALSE, micMuted |-> TRUE])
    BY <1>8 DEF Operations
  <2> QED
    BY <2>1, SendersOK, SpecialsOK, PushersOK
<1>9. CASE group = "switches"
  <2>1. CASE p = setHapticsBufferLength(settings, 500)
    BY <2>1, SendersOK
  <2>2. CASE p = setMicVolume(settings, 0)
    BY <2>2, SendersOK
  <2>3. CASE p = setClassicRumbleV1Enabled(settings, TRUE)
    BY <2>3, SendersOK
  <2>4. CASE p = setSpeakerGainLevel(settings, 500)
    BY <2>4, SendersOK
  <2>5. CASE p = setMuteButtonAction(settings, "keyboard", "hold", TRUE)
    BY <2>5, SendersOK
  <2>6. CASE p = setLedEnabled(settings, FALSE)
    BY <2>6, SendersOK
  <2>7. CASE p = setPlayerLedEnabled(settings, FALSE)
    BY <2>7, SendersOK
  <2>8. CASE p = setTouchpadMouseEnabled(settings, FALSE)
    BY <2>8, SendersOK
  <2>9. CASE p = setSpeakerVolumeShortcutEnabled(settings, TRUE)
    BY <2>9, SendersOK
  <2>10. CASE p = setSleepKeybindEnabled(settings, TRUE)
    BY <2>10, SendersOK
  <2>11. CASE p = setPollingRateMode(settings, "250")
    BY <2>11, SendersOK
  <2>12. CASE p = setIdleDisconnectTimeoutMinutes(settings, 10)
    BY <2>12, SendersOK
  <2>13. CASE p = restoreDefaults
    BY <2>13, SpecialsOK
  <2>14. ASSUME NEW b \in BOOLEAN, p = setIdleDisconnectEnabled(settings, b) PROVE ProgramOK(p)
    BY <2>14, SendersOK
  <2>15. ASSUME NEW b \in BOOLEAN, p = setUsbSuspendDisconnectEnabled(settings, b) PROVE ProgramOK(p)
    BY <2>15, SendersOK
  <2> QED
    BY <1>9, <2>1, <2>2, <2>3, <2>4, <2>5, <2>6, <2>7, <2>8, <2>9, <2>10, <2>11, <2>12, <2>13, <2>14,
       <2>15
    DEF Operations
<1>10. CASE group \notin {"haptics", "audio", "rumble", "triggers", "color", "override", "sound",
                          "mic", "switches"}
  <2>1. \/ p = setButtonRemap("swapped") \/ p = selectButtonRemappingProfile("swapped")
        \/ p = deleteButtonRemappingProfile("identity") \/ p = restoreButtonRemappingDefaults
        \/ p = removeGameSettings([buttonRemappingDraft |-> "identity"]) \/ p = restoreDefaults
        \/ \E as \in {"none", "one"} : p = setChordConfiguration(as)
    BY <1>10 DEF Operations
  <2> QED
    BY <2>1, SpecialsOK, PushersOK
<1> QED
  BY <1>1, <1>2, <1>3, <1>4, <1>5, <1>6, <1>7, <1>8, <1>9, <1>10

(***************************************************************************)
(* The inductive invariant.                                                *)
(***************************************************************************)
ProgramsInv == prog = [t \in Tasks |-> prog[t]] /\ \A t \in Tasks : ProgramOK(prog[t])

FieldsInv ==
    /\ group \in Groups
    /\ EngineFields \subseteq DOMAIN settings
    /\ {"engine", "reapplying"} \subseteq DOMAIN app
    /\ "pc" \in DOMAIN poll

(* Each command in the queue is one that its task waits for.               *)
QueueInv ==
    /\ \E S : queue \in Seq(S)
    /\ \A i \in 1..Len(queue) :
           /\ queue[i].task \in Tasks /\ prog[queue[i].task] # <<>>
           /\ Upcoming(queue[i].task).do \in CommandSteps /\ queue[i].cmd # "engine"
           /\ \A j \in 1..Len(queue) : queue[i].task = queue[j].task => i = j

(* The poll has commands to send and then its end, or nothing.             *)
PollProgram(p) ==
    \A i \in 1..Len(p) : /\ p[i].do \in {"apply", "pollOn"}
                         /\ p[i].do = "pollOn" <=> i = Len(p)
PollInv ==
    /\ PollProgram(prog["poll"])
    /\ poll.pc # "sending" => prog["poll"] = <<>>

(* While a reapply counts as under way, one will say that it is done.      *)
ReapplyInv == app.reapplying => \E r \in Reapplies : Marks(prog[r])

(* The engine runs although it should not only if that is excused or some  *)
(* task will still see to it.                                              *)
EngineInv ==
    app.engine => \/ SystemAudioHapticsDesired(settings)
                  \/ "engine" \in excused
                  \/ \E t \in Tasks : Has(prog[t])

IInv == ProgramsInv /\ FieldsInv /\ QueueInv /\ PollInv /\ ReapplyInv /\ EngineInv

LEMMA InitInv == Init => IInv
<1> SUFFICES ASSUME Init PROVE IInv
  OBVIOUS
<1>1. /\ settings = DefaultSettings /\ app = Fresh /\ poll = IdlePoll
      /\ prog = [t \in Tasks |-> <<>>] /\ queue = <<>>
  BY DEF Init
<1>2. \A t \in Tasks : prog[t] = <<>>
  BY <1>1
<1>3. ProgramsInv
  BY <1>1, <1>2, EmptyOK DEF ProgramsInv
<1>4. FieldsInv
  BY <1>1 DEF Init, FieldsInv, EngineFields, DefaultSettings, Fresh, IdlePoll
<1>5. QueueInv
  <2>1. queue \in Seq({}) /\ Len(queue) = 0
    BY <1>1
  <2> QED
    BY <2>1 DEF QueueInv
<1>6. PollInv
  BY <1>2 DEF PollInv, PollProgram, Tasks
<1>7. ReapplyInv /\ EngineInv
  BY <1>1 DEF ReapplyInv, EngineInv, Fresh
<1> QED
  BY <1>3, <1>4, <1>5, <1>6, <1>7 DEF IInv

LEMMA WaitingIs ==
    ASSUME QueueInv, NEW t
    PROVE  Waiting(t) <=> \E i \in 1..Len(queue) : queue[i].task = t
<1>1. PICK S : queue \in Seq(S)
  BY DEF QueueInv
<1>2. DOMAIN queue = 1..Len(queue)
  BY <1>1
<1> QED
  BY <1>2 DEF Waiting

(* What is queued stays so as long as its tasks do.                        *)
LEMMA QueueKept ==
    ASSUME QueueInv, queue' = queue, \A t \in Tasks : Waiting(t) => prog'[t] = prog[t]
    PROVE  QueueInv'
<1>1. \A i \in 1..Len(queue) : prog'[queue[i].task] = prog[queue[i].task]
  BY WaitingIs DEF QueueInv
<1>2. ASSUME NEW i \in 1..Len(queue)
      PROVE  /\ queue[i].task \in Tasks /\ prog'[queue[i].task] # <<>>
             /\ Head(prog'[queue[i].task]).do \in CommandSteps /\ queue[i].cmd # "engine"
             /\ \A j \in 1..Len(queue) : queue[i].task = queue[j].task => i = j
  BY <1>1 DEF QueueInv, Upcoming
<1> QED
  BY <1>2 DEF QueueInv, Upcoming

(* The task makes its step and goes on with p.                             *)
GoesOn(t, p) ==
    /\ prog' = [u \in Tasks |-> IF u = t THEN p ELSE prog[u]]
    /\ ProgramOK(p)

LEMMA GoesOnFacts ==
    ASSUME ProgramsInv, NEW t \in Tasks, NEW p, GoesOn(t, p)
    PROVE  /\ ProgramsInv' /\ prog'[t] = p
           /\ \A u \in Tasks : u # t => prog'[u] = prog[u]
<1>1. prog' = [u \in Tasks |-> IF u = t THEN p ELSE prog[u]] /\ ProgramOK(p)
  BY DEF GoesOn
<1>2. prog'[t] = p /\ \A u \in Tasks : u # t => prog'[u] = prog[u]
  BY <1>1
<1>3. prog' = [u \in Tasks |-> prog'[u]]
  BY <1>1
<1> QED
  BY <1>1, <1>2, <1>3 DEF ProgramsInv

LEMMA ProceedGoesOn ==
    ASSUME ProgramsInv, NEW t \in Tasks, prog[t] # <<>>, Proceed(t)
    PROVE  /\ GoesOn(t, Tail(prog[t])) /\ StepOK(Upcoming(t))
           /\ Has(prog[t]) => BringsEngine(Upcoming(t)) \/ Has(Tail(prog[t]))
           /\ Needs(Upcoming(t)) => Has(Tail(prog[t]))
           /\ Marks(prog[t]) => Upcoming(t).do = "reapplied" \/ Marks(Tail(prog[t]))
<1>1. prog' = [prog EXCEPT ![t] = Tail(prog[t])]
  BY DEF Proceed
<1>2. prog' = [u \in Tasks |-> IF u = t THEN Tail(prog[t]) ELSE prog[u]]
  BY <1>1 DEF ProgramsInv
<1>3. ProgramOK(prog[t])
  BY DEF ProgramsInv
<1> QED
  BY <1>2, <1>3, TailOK DEF GoesOn, Upcoming

LEMMA ReplaceGoesOn ==
    ASSUME ProgramsInv, NEW t \in Tasks, prog[t] # <<>>, NEW steps, ProgramOK(steps),
           ReplaceWith(t, steps)
    PROVE  \E p : /\ GoesOn(t, p)
                  /\ Has(steps) \/ Has(Tail(prog[t])) => Has(p)
                  /\ Marks(Tail(prog[t])) => Marks(p)
<1>1. PICK rest, new : rest = Tail(prog[t]) /\ new = Follow(steps)
  OBVIOUS
<1>2. ProgramOK(rest)
  BY <1>1, TailOK DEF ProgramsInv
<1>3. PICK S : steps \in Seq(S)
  BY DEF ProgramOK
<1>4. ProgramOK(new) /\ (Has(steps) => Has(new))
  BY <1>1, <1>3, FollowOK
<1>5. /\ ProgramOK(new \o rest) /\ (Has(new) \/ Has(rest) => Has(new \o rest))
      /\ Marks(rest) => Marks(new \o rest)
  BY <1>2, <1>4, ConcatOK
<1>6. prog' = [prog EXCEPT ![t] = new \o rest]
  BY <1>1 DEF ReplaceWith
<1>7. prog' = [u \in Tasks |-> IF u = t THEN new \o rest ELSE prog[u]]
  BY <1>6 DEF ProgramsInv
<1> QED
  BY <1>1, <1>4, <1>5, <1>7 DEF GoesOn

(***************************************************************************)
(* What a step of a task preserves.                                        *)
(***************************************************************************)
LEMMA MarksHas ==
    ASSUME NEW p, ProgramOK(p), Marks(p) PROVE Has(p)
<1>1. PICK i \in 1..Len(p) : p[i].do = "reapplied"
  BY DEF Marks
<1>2. Needs(p[i])
  BY <1>1 DEF Needs
<1> QED
  BY <1>2 DEF ProgramOK, Has

(* Of the poll's own steps none changes what matters here.                 *)
LEMMA PollUpcoming ==
    ASSUME IInv, Busy("poll") PROVE Upcoming("poll").do \in {"apply", "pollOn"}
<1>1. "poll" \in Tasks /\ ProgramOK(prog["poll"]) /\ prog["poll"] # <<>>
  BY DEF IInv, ProgramsInv, Tasks, Busy
<1>2. PICK S : prog["poll"] \in Seq(S)
  BY <1>1 DEF ProgramOK
<1>3. 1 \in 1..Len(prog["poll"]) /\ Head(prog["poll"]) = prog["poll"][1]
  BY <1>1, <1>2
<1> QED
  BY <1>3 DEF IInv, PollInv, PollProgram, Upcoming

LEMMA MovesFacts ==
    ASSUME IInv, NEW t, NEW kind, Moves(t, kind)
    PROVE  /\ prog[t] # <<>> /\ ~Waiting(t) /\ Upcoming(t).do = kind
           /\ kind \notin {"apply", "pollOn"} => t # "poll"
BY PollUpcoming DEF Moves, Busy

(* Nothing but the task's own program changes, and the engine perhaps.     *)
LEMMA GoesOnKeeps ==
    ASSUME IInv, NEW t \in Tasks, t # "poll", NEW p, GoesOn(t, p), ~Waiting(t),
           queue' = queue, poll' = poll, FieldsInv',
           app'.reapplying => app.reapplying /\ (Marks(prog[t]) => Marks(p)),
           EngineInv'
    PROVE  IInv'
<1>1. /\ ProgramsInv' /\ prog'[t] = p
      /\ \A u \in Tasks : u # t => prog'[u] = prog[u]
  BY GoesOnFacts DEF IInv
<1>2. QueueInv'
  BY <1>1, QueueKept DEF IInv
<1>3. PollInv'
  BY <1>1 DEF IInv, PollInv, PollProgram, Tasks
<1>4. ReapplyInv'
  BY <1>1 DEF IInv, ReapplyInv, Tasks
<1> QED
  BY <1>1, <1>2, <1>3, <1>4 DEF IInv

(* A step that leaves the engine alone.                                    *)
LEMMA EngineKept ==
    ASSUME IInv, NEW t \in Tasks, NEW p, GoesOn(t, p),
           app'.engine => app.engine,
           SystemAudioHapticsDesired(settings) => SystemAudioHapticsDesired(settings') \/ Has(p),
           "engine" \in excused => "engine" \in excused',
           Has(prog[t]) => Has(p) \/ "engine" \in excused'
    PROVE  EngineInv'
<1>1. prog'[t] = p /\ \A u \in Tasks : u # t => prog'[u] = prog[u]
  BY GoesOnFacts DEF IInv
<1> QED
  BY <1>1 DEF IInv, EngineInv

(* No task makes a step.                                                   *)
LEMMA RestKeeps ==
    ASSUME IInv, prog' = prog, queue' = queue, FieldsInv',
           poll.pc = "sending" => poll'.pc = "sending",
           app'.reapplying => app.reapplying, app'.engine => app.engine,
           SystemAudioHapticsDesired(settings) => SystemAudioHapticsDesired(settings'),
           "engine" \in excused => "engine" \in excused'
    PROVE  IInv'
<1>1. ProgramsInv' /\ QueueInv /\ \A t \in Tasks : prog'[t] = prog[t]
  BY DEF IInv, ProgramsInv
<1>2. QueueInv'
  BY <1>1, QueueKept
<1>3. PollInv'
  <2>1. PICK p : p = prog["poll"] /\ p = prog'["poll"]
    BY <1>1 DEF Tasks
  <2>2. PollProgram(p) /\ (poll.pc # "sending" => p = <<>>)
    BY <2>1 DEF IInv, PollInv
  <2> QED
    BY <2>1, <2>2 DEF PollInv, PollProgram
<1>4. ReapplyInv' /\ EngineInv'
  BY DEF IInv, ReapplyInv, EngineInv
<1> QED
  BY <1>1, <1>2, <1>3, <1>4 DEF IInv

(***************************************************************************)
(* The steps of the tasks.                                                 *)
(***************************************************************************)
LEMMA EnqueueInv ==
    ASSUME IInv, NEW t \in Tasks, Enqueue(t) PROVE IInv'
<1>1. PICK k \in CommandSteps : Moves(t, k)
  BY DEF Enqueue, CommandSteps
<1>2. PICK q : /\ q.task = t /\ q.cmd = Upcoming(t).cmd
               /\ queue' = Append(queue, q)
  BY DEF Enqueue
<1>3. /\ prog' = prog /\ app' = app /\ poll' = poll /\ settings' = settings
      /\ excused' = excused /\ group' = group
  BY DEF Enqueue
<1>4. prog[t] # <<>> /\ ~Waiting(t) /\ Upcoming(t).do \in CommandSteps
  BY <1>1 DEF Moves, Busy
<1>5. Upcoming(t).cmd # "engine"
  BY <1>4, TailOK DEF IInv, ProgramsInv, Upcoming, StepOK
<1>6. PICK S : queue \in Seq(S)
  BY DEF IInv, QueueInv
<1> DEFINE T == S \cup {q}
           n == Len(queue)
           new == Append(queue, q)
<1>7. \A i \in 1..n : queue[i] \in T
  BY <1>6
<1>8. queue \in Seq(T) /\ q \in T
  BY <1>6, <1>7
<1>9. /\ new \in Seq(T) /\ n \in Nat /\ Len(new) = n + 1
      /\ \A i \in 1..n : new[i] = queue[i]
      /\ new[n + 1] = q
  BY <1>8, AppendProperties
<1>10. \A i \in 1..Len(new) : i \in 1..n \/ i = n + 1
  BY <1>9
<1>11. \A i \in 1..n : queue[i].task # t
  BY <1>4, WaitingIs DEF IInv
<1> HIDE DEF T, n, new
<1>12. ASSUME NEW i \in 1..Len(new)
       PROVE  /\ new[i].task \in Tasks /\ prog[new[i].task] # <<>>
              /\ Upcoming(new[i].task).do \in CommandSteps /\ new[i].cmd # "engine"
              /\ \A j \in 1..Len(new) : new[i].task = new[j].task => i = j
  <2>1. CASE i \in 1..n
    BY <1>2, <1>9, <1>10, <1>11, <2>1 DEF IInv, QueueInv, n
  <2>2. CASE i = n + 1
    BY <1>2, <1>4, <1>5, <1>9, <1>10, <1>11, <2>2
  <2> QED
    BY <1>10, <2>1, <2>2
<1>13. QueueInv'
  BY <1>2, <1>3, <1>9, <1>12 DEF QueueInv, Upcoming, new
<1>14. ProgramsInv' /\ FieldsInv'
  BY <1>3 DEF IInv, ProgramsInv, FieldsInv
<1>15. PollInv' /\ ReapplyInv' /\ EngineInv'
  BY <1>3 DEF IInv, PollInv, PollProgram, ReapplyInv, EngineInv
<1> QED
  BY <1>13, <1>14, <1>15 DEF IInv

LEMMA WithFields ==
    ASSUME NEW s, NEW u, EngineFields \subseteq DOMAIN s
    PROVE  /\ EngineFields \subseteq DOMAIN With(s, u)
           /\ Harmless(u) /\ SystemAudioHapticsDesired(s) => SystemAudioHapticsDesired(With(s, u))
<1>1. \A f \in EngineFields : /\ f \in DOMAIN With(s, u)
                              /\ With(s, u)[f] = IF f \in DOMAIN u THEN u[f] ELSE s[f]
  BY DEF With
<1>2. EngineFields \subseteq DOMAIN With(s, u)
  BY <1>1
<1>3. ASSUME Harmless(u), SystemAudioHapticsDesired(s)
      PROVE  SystemAudioHapticsDesired(With(s, u))
  <2>1. s["hapticsEnabled"] /\ s["audioReactiveHapticsEnabled"]
    BY <1>3 DEF SystemAudioHapticsDesired
  <2> DEFINE w == With(s, u)
  <2>2. w["hapticsEnabled"] /\ w["audioReactiveHapticsEnabled"]
    BY <1>1, <1>3, <2>1 DEF Harmless, EngineFields
  <2> QED
    BY <2>2 DEF SystemAudioHapticsDesired
<1> QED
  BY <1>2, <1>3

LEMMA StoreInv ==
    ASSUME IInv, NEW t \in Tasks, StoreStep(t) PROVE IInv'
<1>1. /\ prog[t] # <<>> /\ ~Waiting(t) /\ Upcoming(t).do = "store" /\ t # "poll"
  BY MovesFacts DEF StoreStep
<1>2. /\ queue' = queue /\ poll' = poll /\ app' = app /\ group' = group
      /\ settings' = With(settings, Upcoming(t).upd)
      /\ "engine" \in excused => "engine" \in excused'
      /\ Proceed(t)
  BY DEF StoreStep
<1>3. PICK p : p = Tail(prog[t])
  OBVIOUS
<1>4. /\ GoesOn(t, p)
      /\ Has(prog[t]) => BringsEngine(Upcoming(t)) \/ Has(p)
      /\ Needs(Upcoming(t)) => Has(p)
      /\ Marks(prog[t]) => Upcoming(t).do = "reapplied" \/ Marks(p)
  BY <1>1, <1>2, <1>3, ProceedGoesOn DEF IInv
<1>5. ~BringsEngine(Upcoming(t)) /\ (Harmless(Upcoming(t).upd) \/ Has(p))
  BY <1>1, <1>4 DEF BringsEngine, Needs
<1>6. /\ EngineFields \subseteq DOMAIN settings'
      /\ SystemAudioHapticsDesired(settings) => SystemAudioHapticsDesired(settings') \/ Has(p)
  BY <1>2, <1>5, WithFields DEF IInv, FieldsInv
<1>7. EngineInv'
  BY <1>2, <1>4, <1>5, <1>6, EngineKept
<1>8. FieldsInv'
  BY <1>2, <1>6 DEF IInv, FieldsInv
<1> QED
  BY <1>1, <1>2, <1>4, <1>7, <1>8, GoesOnKeeps

LEMMA PushInv ==
    ASSUME IInv, NEW t \in Tasks, PushStep(t) PROVE IInv'
<1>1. prog[t] # <<>> /\ ~Waiting(t) /\ Upcoming(t).do = "push" /\ t # "poll"
  BY MovesFacts DEF PushStep
<1>2. /\ queue' = queue /\ poll' = poll /\ app' = app /\ group' = group
      /\ settings' = settings
  BY DEF PushStep
<1>3. FieldsInv'
  BY <1>2 DEF IInv, FieldsInv
<1>4. PICK rest : rest = Tail(prog[t])
  OBVIOUS
<1>5. /\ StepOK(Upcoming(t))
      /\ Has(prog[t]) => Upcoming(t).all \/ Has(rest)
      /\ Marks(prog[t]) => Marks(rest)
  BY <1>1, <1>4, TailOK DEF IInv, ProgramsInv, Upcoming, BringsEngine
<1>6. CASE app.state = "connected"
  <2> DEFINE all == IF Upcoming(t).all THEN ApplyCurrentSettings(settings) ELSE <<>>
             some == ApplyAll(Upcoming(t).cmds, settings)
             live == [i \in DOMAIN Upcoming(t).live |-> Live(Upcoming(t).live[i])]
  <2>1. ReplaceWith(t, all \o some \o live) /\ excused' = excused
    BY <1>6 DEF PushStep
  <2>2. Names(Upcoming(t).cmds) /\ Names(Upcoming(t).live)
    BY <1>1, <1>5 DEF StepOK
  <2>3. ProgramOK(all) /\ (Upcoming(t).all => Has(all))
    BY ApplyCurrentSettingsOK, EmptyOK
  <2>4. ProgramOK(some)
    BY <2>2, ApplyAllOK
  <2>5. ProgramOK(live)
    BY <2>2, LiveRowOK
  <2> HIDE DEF all, some, live
  <2>6. ProgramOK(all \o some) /\ (Upcoming(t).all => Has(all \o some))
    BY <2>3, <2>4, ConcatOK
  <2>7. PICK steps : /\ steps = all \o some \o live
                     /\ ProgramOK(steps) /\ (Upcoming(t).all => Has(steps))
    BY <2>5, <2>6, ConcatOK
  <2>8. ReplaceWith(t, steps)
    BY <2>1, <2>7
  <2>9. PICK p : /\ GoesOn(t, p)
                 /\ Has(steps) \/ Has(rest) => Has(p)
                 /\ Marks(rest) => Marks(p)
    BY <1>1, <1>4, <2>7, <2>8, ReplaceGoesOn DEF IInv
  <2>10. Has(prog[t]) => Has(p)
    BY <1>5, <2>7, <2>9
  <2>11. EngineInv'
    BY <1>2, <2>1, <2>9, <2>10, EngineKept
  <2> QED
    BY <1>1, <1>2, <1>3, <1>5, <2>9, <2>11, GoesOnKeeps
<1>7. CASE app.state # "connected"
  <2>1. /\ Proceed(t) /\ ("engine" \in excused => "engine" \in excused')
        /\ Upcoming(t).all => "engine" \in excused'
    BY <1>7 DEF PushStep
  <2>2. GoesOn(t, rest)
    BY <1>1, <1>4, <2>1, ProceedGoesOn DEF IInv
  <2>3. EngineInv'
    BY <1>2, <1>5, <2>1, <2>2, EngineKept
  <2> QED
    BY <1>1, <1>2, <1>3, <1>5, <2>2, <2>3, GoesOnKeeps
<1> QED
  BY <1>6, <1>7

LEMMA EngineStepInv ==
    ASSUME IInv, NEW t \in Tasks, EngineStep(t) PROVE IInv'
<1>1. /\ prog[t] # <<>> /\ ~Waiting(t) /\ t # "poll"
      /\ Upcoming(t).do \in {"engine", "engineUnlessReapplying"}
  BY MovesFacts DEF EngineStep
<1>2. /\ queue' = queue /\ poll' = poll /\ group' = group /\ settings' = settings /\ Proceed(t)
  BY DEF EngineStep
<1>3. PICK p : p = Tail(prog[t])
  OBVIOUS
<1>4. /\ GoesOn(t, p)
      /\ Marks(prog[t]) => Marks(p)
  BY <1>1, <1>2, <1>3, ProceedGoesOn DEF IInv
<1>5. \/ app' = [app EXCEPT !.engine = EngineWanted(settings)]
      \/ app.reapplying /\ app' = app
  BY DEF EngineStep
<1>6. /\ FieldsInv' /\ (app'.reapplying <=> app.reapplying)
  BY <1>2, <1>5 DEF IInv, FieldsInv
<1>7. EngineInv'
  <2>1. CASE app' = [app EXCEPT !.engine = EngineWanted(settings)]
    <3>1. app'.engine = EngineWanted(settings)
      BY <2>1 DEF IInv, FieldsInv
    <3> QED
      BY <1>2, <3>1 DEF EngineInv, EngineWanted
  <2>2. CASE app.reapplying
    <3>1. PICK r \in Reapplies : Marks(prog[r])
      BY <2>2 DEF IInv, ReapplyInv
    <3>2. r \in Tasks
      BY DEF Tasks
    <3>3. ProgramsInv' /\ Marks(prog'[r])
      BY <1>4, <3>1, <3>2, GoesOnFacts DEF IInv
    <3>4. Has(prog'[r])
      BY <3>2, <3>3, MarksHas DEF ProgramsInv
    <3> QED
      BY <3>2, <3>4 DEF EngineInv
  <2> QED
    BY <1>5, <2>1, <2>2
<1> QED
  BY <1>1, <1>2, <1>4, <1>6, <1>7, GoesOnKeeps

LEMMA SavingInv ==
    ASSUME IInv, NEW t \in Tasks, SavingStep(t) PROVE IInv'
<1>1. prog[t] # <<>> /\ ~Waiting(t) /\ Upcoming(t).do = "saving" /\ t # "poll"
  BY MovesFacts DEF SavingStep
<1>2. /\ queue' = queue /\ poll' = poll /\ group' = group /\ settings' = settings
      /\ excused \subseteq excused'
      /\ app' = app \/ app' = [app EXCEPT !.saving = OnOff(IsSaving(settings))]
  BY DEF SavingStep
<1>3. FieldsInv' /\ app'.engine = app.engine /\ app'.reapplying = app.reapplying
  BY <1>2 DEF IInv, FieldsInv
<1>4. PICK rest, steps : rest = Tail(prog[t]) /\ steps = ApplyAll(SavingOrder, settings)
  OBVIOUS
<1>5. ProgramOK(steps)
  BY <1>4, OrderNames, ApplyAllOK
<1>6. /\ Has(prog[t]) => Has(rest)
      /\ Marks(prog[t]) => Marks(rest)
  BY <1>1, <1>4, TailOK DEF IInv, ProgramsInv, Upcoming, BringsEngine
<1>7. Proceed(t) \/ ReplaceWith(t, steps)
  BY <1>4 DEF SavingStep
<1>8. \E p : GoesOn(t, p) /\ (Has(rest) => Has(p)) /\ (Marks(rest) => Marks(p))
  BY <1>1, <1>4, <1>5, <1>7, ProceedGoesOn, ReplaceGoesOn DEF IInv
<1>9. PICK p : GoesOn(t, p) /\ (Has(rest) => Has(p)) /\ (Marks(rest) => Marks(p))
  BY <1>8
<1>10. EngineInv'
  BY <1>2, <1>3, <1>6, <1>9, EngineKept
<1> QED
  BY <1>1, <1>2, <1>3, <1>6, <1>9, <1>10, GoesOnKeeps

LEMMA ReappliedInv ==
    ASSUME IInv, NEW t \in Tasks, ReappliedStep(t) PROVE IInv'
<1>1. prog[t] # <<>> /\ ~Waiting(t) /\ Upcoming(t).do = "reapplied" /\ t # "poll"
  BY MovesFacts DEF ReappliedStep
<1>2. /\ queue' = queue /\ poll' = poll /\ group' = group /\ settings' = settings
      /\ excused' = excused /\ Proceed(t)
      /\ app' = [app EXCEPT !.reapplied = app.reapplied \/ app.session, !.reapplying = FALSE]
  BY DEF ReappliedStep
<1>3. FieldsInv' /\ app'.engine = app.engine /\ app'.reapplying = FALSE
  BY <1>2 DEF IInv, FieldsInv
<1>4. PICK p : p = Tail(prog[t])
  OBVIOUS
<1>5. GoesOn(t, p) /\ Has(p)
  BY <1>1, <1>2, <1>4, ProceedGoesOn DEF IInv, Needs
<1>6. EngineInv'
  BY <1>2, <1>3, <1>5, EngineKept
<1> QED
  BY <1>1, <1>2, <1>3, <1>5, <1>6, GoesOnKeeps

LEMMA IdleNotWaiting ==
    ASSUME IInv, NEW t, prog[t] = <<>> PROVE ~Waiting(t)
BY WaitingIs DEF IInv, QueueInv

LEMMA ReapplyProgramOK == ProgramOK(ReapplyProgram) /\ Marks(ReapplyProgram)
<1> DEFINE step == [do |-> "reapplied"]
<1>1. StepOK(step) /\ step.do = "reapplied"
  BY DEF StepOK, CommandSteps
<1>2. PICK last : last = <<step, Engine>> /\ ProgramOK(last) /\ Marks(last)
  <2> HIDE DEF step
  <2> QED
    BY <1>1, OtherSteps, PairOK
<1>3. PICK sent, S : sent = ApplyCurrentSettings(settings) /\ sent \in Seq(S) /\ ProgramOK(sent)
  BY ApplyCurrentSettingsOK DEF ProgramOK
<1>4. PICK first : first = Follow(sent) /\ ProgramOK(first)
  BY <1>3, FollowOK
<1>5. ProgramOK(first \o last) /\ Marks(first \o last)
  BY <1>2, <1>4, ConcatOK
<1> QED
  BY <1>2, <1>3, <1>4, <1>5 DEF ReapplyProgram

LEMMA PollOnInv ==
    ASSUME IInv, PollOnStep PROVE IInv'
<1>1. /\ prog["poll"] # <<>> /\ ~Waiting("poll") /\ Upcoming("poll").do = "pollOn"
      /\ "poll" \in Tasks /\ ProgramOK(prog["poll"])
  BY DEF PollOnStep, Moves, Busy, IInv, ProgramsInv, Tasks
<1>2. Tail(prog["poll"]) = <<>> /\ ~Has(prog["poll"]) /\ ~Marks(prog["poll"])
  <2>1. PICK S : prog["poll"] \in Seq(S)
    BY <1>1 DEF ProgramOK
  <2>2. PICK p : p = prog["poll"]
    OBVIOUS
  <2>3. p \in Seq(S) /\ p # <<>> /\ Head(p).do = "pollOn" /\ PollProgram(p)
    BY <1>1, <2>1, <2>2 DEF IInv, PollInv, Upcoming
  <2>4. Len(p) \in Nat /\ 1 \in 1..Len(p) /\ Head(p) = p[1]
    BY <2>3
  <2>5. Len(p) = 1
    BY <2>3, <2>4 DEF PollProgram
  <2>6. Tail(p) \in Seq(S) /\ Len(Tail(p)) = 0
    BY <2>3, <2>5
  <2>7. Tail(p) = <<>>
    BY <2>6, EmptySeq
  <2>8. \A i \in 1..Len(p) : p[i].do = "pollOn"
    BY <2>3, <2>4, <2>5
  <2> QED
    BY <2>2, <2>7, <2>8 DEF Has, Marks, BringsEngine
<1>3. /\ queue' = queue /\ poll' = IdlePoll /\ group' = group /\ settings' = settings
      /\ excused' = excused
  BY DEF PollOnStep
<1>4. poll'.pc = "idle" /\ "pc" \in DOMAIN poll'
  BY <1>3 DEF IdlePoll
<1>5. CASE Proceed("poll") /\ app' = app
  <2>1. GoesOn("poll", <<>>)
    BY <1>1, <1>2, <1>5, ProceedGoesOn DEF IInv
  <2>2. ProgramsInv' /\ prog'["poll"] = <<>> /\ \A u \in Tasks : u # "poll" => prog'[u] = prog[u]
    BY <1>1, <2>1, GoesOnFacts DEF IInv
  <2>3. EngineInv'
    BY <1>1, <1>2, <1>3, <1>5, <2>1, EngineKept
  <2>4. QueueInv'
    BY <1>1, <1>3, <2>2, QueueKept DEF IInv
  <2>5. PollInv'
    <3>1. Len(prog'["poll"]) = 0
      BY <2>2
    <3> QED
      BY <2>2, <3>1 DEF PollInv, PollProgram
  <2>6. FieldsInv'
    BY <1>3, <1>4, <1>5 DEF IInv, FieldsInv
  <2>7. ReapplyInv'
    BY <1>5, <2>2 DEF IInv, ReapplyInv, Reapplies, Tasks
  <2> QED
    BY <2>2, <2>3, <2>4, <2>5, <2>6, <2>7 DEF IInv
<1>6. ASSUME NEW r \in Reapplies, ~Busy(r), app' = [app EXCEPT !.reapplying = TRUE],
             prog' = [prog EXCEPT !["poll"] = <<>>, ![r] = ReapplyProgram]
      PROVE  IInv'
  <2>1. r \in Tasks /\ r # "poll" /\ prog[r] = <<>>
    BY <1>6 DEF Reapplies, Tasks, Busy
  <2>2. PICK p : p = ReapplyProgram /\ ProgramOK(p) /\ Marks(p)
    BY ReapplyProgramOK
  <2>3. prog' = [u \in Tasks |-> IF u = r THEN p ELSE IF u = "poll" THEN <<>> ELSE prog[u]]
    BY <1>6, <2>1, <2>2 DEF IInv, ProgramsInv
  <2>4. /\ prog'[r] = p /\ prog'["poll"] = <<>>
        /\ \A u \in Tasks : u \notin {r, "poll"} => prog'[u] = prog[u]
    BY <1>1, <2>1, <2>3
  <2>5. ProgramsInv'
    <3>1. \A u \in Tasks : ProgramOK(prog'[u])
      BY <2>2, <2>4, EmptyOK DEF IInv, ProgramsInv
    <3>2. prog' = [u \in Tasks |-> prog'[u]]
      BY <2>3
    <3> QED
      BY <3>1, <3>2 DEF ProgramsInv
  <2>6. QueueInv'
    <3>1. ~Waiting(r)
      BY <2>1, IdleNotWaiting
    <3> QED
      BY <1>1, <1>3, <2>4, <3>1, QueueKept DEF IInv
  <2>7. PollInv'
    <3>1. Len(prog'["poll"]) = 0
      BY <2>4
    <3> QED
      BY <2>4, <3>1 DEF PollInv, PollProgram
  <2>8. FieldsInv' /\ app'.engine = app.engine
    BY <1>3, <1>4, <1>6 DEF IInv, FieldsInv
  <2>9. ReapplyInv'
    BY <2>2, <2>4 DEF ReapplyInv
  <2>10. EngineInv'
    <3>1. Has(prog'[r])
      BY <2>1, <2>2, <2>4, MarksHas
    <3> QED
      BY <2>1, <3>1 DEF EngineInv
  <2> QED
    BY <2>5, <2>6, <2>7, <2>8, <2>9, <2>10 DEF IInv
<1> QED
  BY <1>5, <1>6 DEF PollOnStep

(***************************************************************************)
(* The command at the head of the queue.                                   *)
(***************************************************************************)
LEMMA HeadFacts ==
    ASSUME IInv, queue # <<>>
    PROVE  /\ Head(queue).task \in Tasks /\ prog[Head(queue).task] # <<>>
           /\ Upcoming(Head(queue).task).do \in CommandSteps /\ Head(queue).cmd # "engine"
<1>1. PICK S : queue \in Seq(S)
  BY DEF IInv, QueueInv
<1>2. 1 \in 1..Len(queue) /\ Head(queue) = queue[1]
  BY <1>1
<1> QED
  BY <1>2 DEF IInv, QueueInv

LEMMA DequeueKeeps ==
    ASSUME IInv, queue # <<>>, queue' = Tail(queue),
           \A u \in Tasks : u # Head(queue).task => prog'[u] = prog[u]
    PROVE  QueueInv'
<1>1. PICK S : queue \in Seq(S)
  BY DEF IInv, QueueInv
<1> DEFINE rest == Tail(queue)
<1>2. /\ rest \in Seq(S) /\ Head(queue) = queue[1] /\ 1 \in 1..Len(queue)
      /\ \A i \in 1..Len(rest) : rest[i] = queue[i + 1]
      /\ \A i \in 1..Len(rest) : i + 1 \in 1..Len(queue) /\ i + 1 # 1
  BY <1>1
<1> HIDE DEF rest
<1>3. ASSUME NEW i \in 1..Len(rest)
      PROVE  /\ rest[i].task \in Tasks /\ prog'[rest[i].task] # <<>>
             /\ Head(prog'[rest[i].task]).do \in CommandSteps /\ rest[i].cmd # "engine"
             /\ \A j \in 1..Len(rest) : rest[i].task = rest[j].task => i = j
  <2>1. PICK k : k = i + 1 /\ k \in 1..Len(queue) /\ k # 1 /\ rest[i] = queue[k]
    BY <1>2
  <2>2. /\ queue[k].task \in Tasks /\ queue[k].task # queue[1].task
        /\ prog[queue[k].task] # <<>> /\ Head(prog[queue[k].task]).do \in CommandSteps
        /\ queue[k].cmd # "engine"
    BY <1>2, <2>1 DEF IInv, QueueInv, Upcoming
  <2>3. ASSUME NEW j \in 1..Len(rest), rest[i].task = rest[j].task PROVE i = j
    <3>1. k = j + 1
      BY <1>2, <2>1, <2>3 DEF IInv, QueueInv
    <3> QED
      BY <2>1, <3>1
  <2> QED
    BY <1>2, <2>1, <2>2, <2>3
<1> QED
  BY <1>2, <1>3 DEF QueueInv, Upcoming, rest

LEMMA PollTail ==
    ASSUME NEW S, NEW p \in Seq(S), p # <<>>, PollProgram(p) PROVE PollProgram(Tail(p))
<1> DEFINE q == Tail(p)
<1>1. /\ Len(p) \in Nat /\ Len(q) = Len(p) - 1
      /\ \A i \in 1..Len(q) : i + 1 \in 1..Len(p) /\ q[i] = p[i + 1]
  OBVIOUS
<1> HIDE DEF q
<1>2. ASSUME NEW i \in 1..Len(q)
      PROVE  q[i].do \in {"apply", "pollOn"} /\ (q[i].do = "pollOn" <=> i = Len(q))
  <2>1. PICK k : k = i + 1 /\ k \in 1..Len(p) /\ q[i] = p[k] /\ (i = Len(q) <=> k = Len(p))
    BY <1>1
  <2> QED
    BY <2>1 DEF PollProgram
<1> QED
  BY <1>2 DEF PollProgram, q

LEMMA ExecuteInv ==
    ASSUME IInv, Execute PROVE IInv'
<1>1. PICK q, t : q = Head(queue) /\ t = q.task
  OBVIOUS
<1>2. /\ queue # <<>> /\ queue' = Tail(queue) /\ excused' = ExcusedAfter(t, q) /\ Proceed(t)
      /\ app' = IF app.device THEN app ELSE Opened
      /\ poll' = poll /\ group' = group /\ settings' = settings
  BY <1>1 DEF Execute
<1>3. t \in Tasks /\ prog[t] # <<>> /\ Upcoming(t).do \in CommandSteps /\ q.cmd # "engine"
  BY <1>1, <1>2, HeadFacts
<1>4. PICK p : p = Tail(prog[t])
  OBVIOUS
<1>5. /\ GoesOn(t, p)
      /\ Has(prog[t]) => Has(p)
      /\ Marks(prog[t]) => Marks(p)
  BY <1>2, <1>3, <1>4, ProceedGoesOn DEF IInv, BringsEngine, CommandSteps
<1>6. ProgramsInv' /\ prog'[t] = p /\ \A u \in Tasks : u # t => prog'[u] = prog[u]
  BY <1>3, <1>5, GoesOnFacts DEF IInv
<1>7. QueueInv'
  BY <1>1, <1>2, <1>6, DequeueKeeps
<1>8. FieldsInv' /\ app'.engine = app.engine /\ app'.reapplying = app.reapplying
  BY <1>2 DEF IInv, FieldsInv, Opened
<1>9. "engine" \in excused => "engine" \in excused'
  <2>1. "engine" \notin Watched[group]
    <3>1. "engine" \notin Commands
      BY DEF Commands, Effective
    <3> QED
      BY <3>1, WatchedAssumption DEF IInv, FieldsInv
  <2> QED
    BY <1>2, <1>3, <2>1 DEF ExcusedAfter
<1>10. EngineInv'
  BY <1>2, <1>3, <1>5, <1>8, <1>9, EngineKept
<1>11. ReapplyInv'
  BY <1>5, <1>6, <1>8 DEF IInv, ReapplyInv, Reapplies, Tasks
<1>12. PollInv'
  <2>1. CASE t = "poll"
    <3>1. PICK S : prog["poll"] \in Seq(S)
      BY <1>3, <2>1 DEF IInv, ProgramsInv, ProgramOK
    <3>2. PollProgram(p)
      BY <1>3, <1>4, <2>1, <3>1, PollTail DEF IInv, PollInv
    <3> QED
      BY <1>2, <1>3, <1>6, <2>1, <3>2 DEF IInv, PollInv, PollProgram
  <2>2. CASE t # "poll"
    <3>1. prog'["poll"] = prog["poll"]
      BY <1>6, <2>2 DEF Tasks
    <3> QED
      BY <1>2, <3>1 DEF IInv, PollInv, PollProgram
  <2> QED
    BY <2>1, <2>2
<1> QED
  BY <1>6, <1>7, <1>8, <1>10, <1>11, <1>12 DEF IInv

LEMMA FailAsInv ==
    ASSUME IInv, queue # <<>>, NEW taken, FailAs(taken) PROVE IInv'
<1>1. PICK q, t : q = Head(queue) /\ t = q.task
  OBVIOUS
<1>2. t \in Tasks /\ prog[t] # <<>> /\ Upcoming(t).do \in CommandSteps
  BY <1>1, HeadFacts
<1> DEFINE p == IF Upcoming(t).do = "try" THEN Tail(prog[t]) ELSE <<>>
           before == IF app.device \/ ~daemon.up THEN app ELSE Opened
<1>3. /\ queue' = Tail(queue) /\ group' = group /\ settings' = settings
      /\ poll' = IF t = "poll" THEN IdlePoll ELSE poll
  BY <1>1 DEF FailAs
<1>4. app' = FailureOf(t, before)
  BY <1>1 DEF FailAs
<1>5. /\ "engine" \in excused => "engine" \in excused'
      /\ Upcoming(t).do # "try" /\ Brings(t) => "engine" \in excused'
  BY <1>1 DEF FailAs
<1>6. /\ prog' = [prog EXCEPT ![t] = p]
  BY <1>1 DEF FailAs
<1>7. /\ ProgramOK(prog[t]) /\ ProgramOK(p)
      /\ Upcoming(t).do = "try" /\ Has(prog[t]) => Has(p)
      /\ Upcoming(t).do = "try" /\ Marks(prog[t]) => Marks(p)
  BY <1>2, TailOK, EmptyOK DEF IInv, ProgramsInv, Upcoming, BringsEngine, CommandSteps
<1>8. GoesOn(t, p)
  <2> HIDE DEF p
  <2>1. prog' = [u \in Tasks |-> IF u = t THEN p ELSE prog[u]]
    BY <1>6 DEF IInv, ProgramsInv
  <2> QED
    BY <1>7, <2>1 DEF GoesOn
<1>9. Has(prog[t]) => Has(p) \/ "engine" \in excused'
  <2>1. PICK S : prog[t] \in Seq(S)
    BY <1>7 DEF ProgramOK
  <2>2. DOMAIN prog[t] = 1..Len(prog[t])
    BY <2>1
  <2>3. Has(prog[t]) => Brings(t)
    BY <2>2 DEF Has, Brings
  <2> QED
    BY <1>5, <1>7, <2>3
<1>10. /\ FieldsInv' /\ app'.engine = app.engine
       /\ app'.reapplying => app.reapplying /\ t \notin Reapplies
  <2>1. /\ DOMAIN before = DOMAIN app /\ before.engine = app.engine
        /\ before.reapplying = app.reapplying
    BY DEF IInv, FieldsInv, Opened
  <2> HIDE DEF before
  <2>2. /\ {"engine", "reapplying"} \subseteq DOMAIN before
    BY <2>1 DEF IInv, FieldsInv
  <2>3. PICK failed : failed = Failed(before)
    OBVIOUS
  <2>4. /\ {"engine", "reapplying"} \subseteq DOMAIN failed /\ failed.engine = before.engine
        /\ failed.reapplying = before.reapplying
    BY <2>2, <2>3 DEF Failed
  <2>5. \/ app' = before /\ t \notin Reapplies
        \/ app' = failed /\ t \notin Reapplies
        \/ app' = [failed EXCEPT !.reapplying = FALSE]
    BY <1>4, <2>3 DEF FailureOf, ReapplyEnds, Users, Reapplies
  <2>6. /\ {"engine", "reapplying"} \subseteq DOMAIN app' /\ app'.engine = app.engine
        /\ app'.reapplying => app.reapplying /\ t \notin Reapplies
    BY <2>1, <2>2, <2>4, <2>5
  <2>7. "pc" \in DOMAIN poll'
    BY <1>3 DEF IInv, FieldsInv, IdlePoll
  <2> QED
    BY <1>3, <2>6, <2>7 DEF IInv, FieldsInv
<1> HIDE DEF p, before
<1>11. ProgramsInv' /\ prog'[t] = p /\ \A u \in Tasks : u # t => prog'[u] = prog[u]
  BY <1>2, <1>8, GoesOnFacts DEF IInv
<1>12. QueueInv'
  BY <1>1, <1>3, <1>11, DequeueKeeps
<1>13. EngineInv'
  BY <1>2, <1>3, <1>5, <1>8, <1>9, <1>10, EngineKept
<1>14. ReapplyInv'
  BY <1>10, <1>11 DEF IInv, ReapplyInv, Reapplies, Tasks
<1>15. PollInv'
  <2>1. CASE t = "poll"
    <3>1. Upcoming(t).do # "try"
      BY <1>2, <2>1, PollUpcoming DEF Busy
    <3>2. prog'["poll"] = <<>> /\ Len(prog'["poll"]) = 0
      BY <1>11, <2>1, <3>1 DEF p
    <3> QED
      BY <3>2 DEF PollInv, PollProgram
  <2>2. CASE t # "poll"
    <3>1. prog'["poll"] = prog["poll"]
      BY <1>11, <2>2 DEF Tasks
    <3> QED
      BY <1>3, <2>2, <3>1 DEF IInv, PollInv, PollProgram
  <2> QED
    BY <2>1, <2>2
<1> QED
  BY <1>10, <1>11, <1>12, <1>13, <1>14, <1>15 DEF IInv

LEMMA FailInv == ASSUME IInv, Fail PROVE IInv'
BY FailAsInv DEF Fail

(***************************************************************************)
(* The poll, the user, the daemon, the controller and the headset.         *)
(***************************************************************************)
LEMMA PollStartInv == ASSUME IInv, PollStart PROVE IInv'
<1>1. /\ prog' = prog /\ queue' = queue /\ group' = group /\ settings' = settings
      /\ excused' = excused /\ poll.pc = "idle"
  BY DEF PollStart
<1>2. CASE PollReads
  <2>1. app' = app \/ app' = Opened
    BY <1>2 DEF PollReads
  <2>2. /\ {"engine", "reapplying"} \subseteq DOMAIN app'
        /\ app'.engine = app.engine /\ app'.reapplying = app.reapplying
    BY <2>1 DEF IInv, FieldsInv, Opened
  <2>3. "pc" \in DOMAIN poll'
    BY <1>2 DEF PollReads, IInv, FieldsInv
  <2>4. FieldsInv'
    BY <1>1, <2>2, <2>3 DEF IInv, FieldsInv
  <2> QED
    BY <1>1, <2>2, <2>4, RestKeeps
<1>3. CASE PollUnavailable \/ (app' = Failed(app) /\ poll' = poll)
  <2>1. app' = Fresh \/ app' = Failed(app)
    BY <1>3 DEF PollUnavailable, Unavailable
  <2>2. poll' = poll
    BY <1>3 DEF PollUnavailable
  <2>3. /\ {"engine", "reapplying"} \subseteq DOMAIN app'
        /\ (app'.engine => app.engine) /\ (app'.reapplying => app.reapplying)
    BY <2>1 DEF IInv, FieldsInv, Fresh, Failed
  <2>4. FieldsInv'
    BY <1>1, <2>2, <2>3 DEF IInv, FieldsInv
  <2> QED
    BY <1>1, <2>2, <2>3, <2>4, RestKeeps
<1> QED
  BY <1>2, <1>3 DEF PollStart

LEMMA PollFinishInv == ASSUME IInv, PollFinish PROVE IInv'
<1>1. prog' = prog /\ queue' = queue /\ group' = group /\ poll.pc = "read"
  BY DEF PollFinish
<1>2. PICK stored : /\ settings' = stored
                    /\ poll' = [poll EXCEPT !.pc = "synced", !.of = stored]
                    /\ \/ stored = settings
                       \/ stored = [settings EXCEPT !.micMuted = poll.saw.muted]
  BY DEF PollFinish
<1>3. PICK r, h, e : app' = [app EXCEPT !.state = "connected", !.session = TRUE,
                                        !.reapplied = r, !.lastUptime = poll.saw.uptime,
                                        !.headset = h, !.controller = poll.saw.controller,
                                        !.engine = e]
                     /\ e = EngineAfter(poll.saw)
  BY DEF PollFinish
<1>4. /\ {"engine", "reapplying"} \subseteq DOMAIN app'
      /\ app'.engine = e /\ app'.reapplying = app.reapplying
  BY <1>3 DEF IInv, FieldsInv
<1>5. e => app.engine
  BY <1>3 DEF EngineAfter
<1>6. /\ EngineFields \subseteq DOMAIN settings'
      /\ SystemAudioHapticsDesired(settings) => SystemAudioHapticsDesired(settings')
  BY <1>2 DEF IInv, FieldsInv, EngineFields, SystemAudioHapticsDesired
<1>7. "engine" \in excused => "engine" \in excused'
  BY DEF PollFinish
<1>8. "pc" \in DOMAIN poll'
  BY <1>2 DEF IInv, FieldsInv
<1>9. FieldsInv'
  BY <1>1, <1>4, <1>6, <1>8 DEF IInv, FieldsInv
<1> QED
  BY <1>1, <1>4, <1>5, <1>6, <1>7, <1>9, RestKeeps

LEMMA PollEnds ==
    ASSUME NEW p, ProgramOK(p), \A i \in 1..Len(p) : p[i].do = "apply"
    PROVE  /\ ProgramOK(p \o <<[do |-> "pollOn"]>>)
           /\ PollProgram(p \o <<[do |-> "pollOn"]>>)
<1>1. PICK last, one : last = [do |-> "pollOn"] /\ one = <<last>>
  OBVIOUS
<1>2. StepOK(last) /\ ~Needs(last) /\ last.do = "pollOn"
  BY <1>1 DEF StepOK, Needs, CommandSteps
<1>3. ProgramOK(one)
  BY <1>1, <1>2, OneOK
<1>4. PICK S : p \in Seq(S)
  BY DEF ProgramOK
<1> DEFINE T == S \cup {last}
<1>5. \A i \in 1..Len(p) : p[i] \in T
  BY <1>4
<1>6. p \in Seq(T) /\ one \in Seq(T) /\ Len(one) = 1 /\ one[1] = last
  BY <1>1, <1>4, <1>5
<1> HIDE DEF T
<1> DEFINE r == p \o one
<1>7. /\ Len(p) \in Nat /\ Len(r) = Len(p) + 1
      /\ \A i \in 1..Len(p) : r[i] = p[i]
      /\ r[Len(p) + 1] = last
  <2>1. /\ Len(r) = Len(p) + Len(one)
        /\ \A i \in 1..Len(p) : r[i] = p[i]
        /\ \A i \in 1..Len(one) : r[Len(p) + i] = one[i]
    BY <1>6, ConcatProperties
  <2> HIDE DEF r
  <2> QED
    BY <1>6, <2>1
<1> HIDE DEF r
<1>8. PollProgram(r)
  <2>1. \A i \in 1..Len(r) : \/ i \in 1..Len(p) /\ i # Len(r)
                             \/ i = Len(p) + 1 /\ i = Len(r)
    <3>1. PICK m, n : m = Len(p) /\ n = Len(r) /\ m \in Nat /\ n = m + 1
      BY <1>7
    <3>2. \A i \in 1..n : (i \in 1..m /\ i # n) \/ (i = m + 1 /\ i = n)
      BY <3>1
    <3> QED
      BY <3>1, <3>2
  <2> QED
    BY <1>2, <1>7, <2>1 DEF PollProgram
<1> QED
  BY <1>1, <1>3, <1>8, ConcatOK DEF r

LEMMA PollSyncInv == ASSUME IInv, PollSync PROVE IInv'
<1>1. /\ queue' = queue /\ group' = group /\ settings' = settings /\ poll.pc = "synced"
      /\ poll' = [poll EXCEPT !.pc = "sending", !.of = DefaultSettings]
  BY DEF PollSync
<1>2. PICK first : /\ prog' = [prog EXCEPT !["poll"] = first \o <<[do |-> "pollOn"]>>]
                   /\ \/ first = <<>>
                      \/ first = Follow(ApplyAll(SavingOrder, poll.of))
  BY DEF PollSync
<1>3. app' = [app EXCEPT !.saving = OnOff(IsSaving(poll.of))]
  BY DEF PollSync
<1>4. "engine" \in excused => "engine" \in excused'
  BY DEF PollSync
<1>5. ProgramOK(first) /\ \A i \in 1..Len(first) : first[i].do = "apply"
  <2>1. CASE first = <<>>
    BY <2>1, EmptyOK
  <2>2. CASE first = Follow(ApplyAll(SavingOrder, poll.of))
    <3>1. PICK p : p = ApplyAll(SavingOrder, poll.of)
      OBVIOUS
    <3>2. ProgramOK(p) /\ \A i \in 1..Len(p) : p[i].do = "apply"
      BY <3>1, OrderNames, ApplyAllOK
    <3>3. PICK S : p \in Seq(S)
      BY <3>2 DEF ProgramOK
    <3> DEFINE A == {st \in S : st.do = "apply"}
    <3>4. p \in Seq(A)
      <4>1. \A i \in 1..Len(p) : p[i] \in A
        BY <3>2, <3>3
      <4> QED
        BY <3>3, <4>1
    <3>5. Follow(p) \in Seq(A) /\ ProgramOK(Follow(p))
      BY <3>2, <3>4, FollowOK
    <3>6. first \in Seq(A)
      BY <2>2, <3>1, <3>5
    <3>7. \A i \in 1..Len(first) : first[i] \in A
      BY <3>6
    <3> QED
      BY <2>2, <3>1, <3>5, <3>7
  <2> QED
    BY <1>2, <2>1, <2>2
<1>6. PICK p : /\ p = first \o <<[do |-> "pollOn"]>>
               /\ ProgramOK(p) /\ PollProgram(p)
  BY <1>5, PollEnds
<1>7. "poll" \in Tasks /\ prog["poll"] = <<>>
  BY <1>1 DEF IInv, PollInv, Tasks
<1>8. GoesOn("poll", p)
  <2>1. prog' = [u \in Tasks |-> IF u = "poll" THEN p ELSE prog[u]]
    BY <1>2, <1>6 DEF IInv, ProgramsInv
  <2> QED
    BY <1>6, <2>1 DEF GoesOn
<1>9. ProgramsInv' /\ prog'["poll"] = p /\ \A u \in Tasks : u # "poll" => prog'[u] = prog[u]
  BY <1>7, <1>8, GoesOnFacts DEF IInv
<1>10. /\ FieldsInv' /\ poll'.pc = "sending"
       /\ app'.engine = app.engine /\ app'.reapplying = app.reapplying
  BY <1>1, <1>3 DEF IInv, FieldsInv
<1>11. ~Has(prog["poll"])
  BY <1>7, EmptyOK
<1>12. EngineInv'
  BY <1>1, <1>4, <1>7, <1>8, <1>10, <1>11, EngineKept
<1>13. ReapplyInv'
  BY <1>9, <1>10 DEF IInv, ReapplyInv, Reapplies, Tasks
<1>14. QueueInv'
  <2>1. ~Waiting("poll")
    BY <1>7, IdleNotWaiting
  <2> QED
    BY <1>1, <1>9, <2>1, QueueKept DEF IInv
<1>15. PollInv'
  BY <1>6, <1>9, <1>10 DEF PollInv, PollProgram
<1> QED
  BY <1>9, <1>10, <1>12, <1>13, <1>14, <1>15 DEF IInv

LEMMA CallInv == ASSUME IInv, NEW t \in Users, Call(t) PROVE IInv'
<1>1. /\ queue' = queue /\ poll' = poll /\ app' = app /\ group' = group
      /\ settings' = settings /\ excused' = excused
  BY DEF Call
<1>2. t \in Tasks /\ t # "poll" /\ prog[t] = <<>>
  BY DEF Call, Busy, Tasks, Users
<1>3. PICK op \in Operations : prog' = [prog EXCEPT ![t] = Follow(op)]
  BY DEF Call
<1>4. PICK S : op \in Seq(S) /\ ProgramOK(op)
  BY OperationsOK DEF ProgramOK
<1>5. PICK p : p = Follow(op) /\ ProgramOK(p)
  BY <1>4, FollowOK
<1>6. GoesOn(t, p)
  <2>1. prog' = [u \in Tasks |-> IF u = t THEN p ELSE prog[u]]
    BY <1>3, <1>5 DEF IInv, ProgramsInv
  <2> QED
    BY <1>5, <2>1 DEF GoesOn
<1>7. ~Has(prog[t]) /\ ~Marks(prog[t]) /\ ~Waiting(t)
  <2>1. \A i \in 1..Len(prog[t]) : FALSE
    BY <1>2
  <2> QED
    BY <1>2, <2>1, IdleNotWaiting DEF Has, Marks
<1>8. EngineInv' /\ FieldsInv'
  BY <1>1, <1>2, <1>6, <1>7, EngineKept DEF IInv, FieldsInv
<1> QED
  BY <1>1, <1>2, <1>6, <1>7, <1>8, GoesOnKeeps

LEMMA EnvironmentInv == ASSUME IInv, Environment PROVE IInv'
<1>1. Untouched /\ ("engine" \in excused => "engine" \in excused')
  BY DEF Environment, Stop, Start, Age, ControllerComesOrGoes, HeadsetPlug, MuteButton
<1>2. /\ prog' = prog /\ queue' = queue /\ group' = group /\ settings' = settings
      /\ app' = app /\ poll' = poll
  BY <1>1 DEF Untouched
<1>3. FieldsInv'
  BY <1>2 DEF IInv, FieldsInv
<1> QED
  BY <1>1, <1>2, <1>3, RestKeeps

LEMMA NextInv == IInv /\ [Next]_vars => IInv'
<1> SUFFICES ASSUME IInv, [Next]_vars PROVE IInv'
  OBVIOUS
<1>1. ASSUME NEW t \in Tasks,
             Enqueue(t) \/ StoreStep(t) \/ PushStep(t) \/ EngineStep(t) \/ SavingStep(t)
                 \/ ReappliedStep(t)
      PROVE  IInv'
  BY <1>1, EnqueueInv, StoreInv, PushInv, EngineStepInv, SavingInv, ReappliedInv
<1>2. CASE Step
  BY <1>1, <1>2, PollOnInv DEF Step
<1>3. CASE Execute \/ Fail
  BY <1>3, ExecuteInv, FailInv
<1>4. CASE Poll
  BY <1>4, PollStartInv, PollFinishInv, PollSyncInv DEF Poll
<1>5. CASE \E t \in Users : Call(t)
  BY <1>5, CallInv
<1>6. CASE Environment
  BY <1>6, EnvironmentInv
<1>7. CASE UNCHANGED vars
  <2>1. /\ prog' = prog /\ queue' = queue /\ group' = group /\ settings' = settings
        /\ app' = app /\ poll' = poll /\ excused' = excused
    BY <1>7 DEF vars
  <2>2. FieldsInv'
    BY <2>1 DEF IInv, FieldsInv
  <2> QED
    BY <2>1, <2>2, RestKeeps
<1> QED
  BY <1>2, <1>3, <1>4, <1>5, <1>6, <1>7 DEF Next

(* With nothing under way no task sees to the engine any more.             *)
LEMMA InvMirrorStops == IInv => MirrorStops
<1> SUFFICES ASSUME IInv, Settled, app.engine
             PROVE  SystemAudioHapticsDesired(settings) \/ "engine" \in excused
  BY DEF MirrorStops
<1>1. \A t \in Tasks : prog[t] = <<>>
  BY DEF Settled, Busy
<1>2. \A t \in Tasks : ~Has(prog[t])
  BY <1>1, EmptyOK
<1> QED
  BY <1>2 DEF IInv, EngineInv

(* Audio haptics that are turned off do not go on running on the host once *)
(* the app is settled, unless the task that was to stop them failed or its *)
(* push was left out: bridge-service.ts, updateSystemAudioHapticsEngine    *)
(* and every operation that ends in it.                                    *)
THEOREM EngineCorrect == Spec => []MirrorStops
<1>1. Init => IInv
  BY InitInv
<1>2. IInv /\ [Next]_vars => IInv'
  BY NextInv
<1>3. IInv => MirrorStops
  BY InvMirrorStops
<1> QED
  BY <1>1, <1>2, <1>3, PTL DEF Spec
=============================================================================
