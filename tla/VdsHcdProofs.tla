---------------------------- MODULE VdsHcdProofs ----------------------------
(***************************************************************************)
(* Safety of VdsHcd for any number of submissions, sessions, feature       *)
(* reports, frames and connections: the life cycle of a submission first,  *)
(* then the root hub port and the control requests.                        *)
(***************************************************************************)
EXTENDS VdsHcd, SequenceTheorems, FiniteSetTheorems, WellFoundedInduction, TLAPS

(***************************************************************************)
(* What the queue operators return, for queues of every length.            *)
(***************************************************************************)

(* A set of naturals that is not empty has a least element.                *)
LEMMA LeastElement ==
    ASSUME NEW T, T \subseteq Nat, T # {}
    PROVE  \E m \in T : \A j \in T : m <= j
<1>1. PICK m \in T : \A j \in T : ~(<<j, m>> \in OpToRel(<, Nat))
  BY NatLessThanWellFounded, WFMin
<1>2. \A j \in T : ~(j < m)
  BY <1>1 DEF OpToRel
<1> QED
  BY <1>2

(* The insertion point lies in the queue or just behind it; everything     *)
(* before it is due no later, and the entry at it is due later.            *)
LEMMA GivebackPositionBounds ==
    ASSUME NEW S, NEW queue \in Seq(S), NEW readyTime \in [S -> Nat],
           NEW time \in Nat
    PROVE  LET p == GivebackPosition(queue, readyTime, time)
           IN  /\ p \in 1..(Len(queue) + 1)
               /\ \A i \in 1..(p - 1) : readyTime[queue[i]] <= time
               /\ p <= Len(queue) => readyTime[queue[p]] > time
<1> DEFINE later == {i \in 1..Len(queue) : readyTime[queue[i]] > time}
           p == GivebackPosition(queue, readyTime, time)
<1>1. \A i \in 1..Len(queue) : readyTime[queue[i]] \in Nat
  OBVIOUS
<1>2. later = {} => p = Len(queue) + 1
  BY DEF GivebackPosition
<1>3. later # {} => p \in later /\ \A j \in later : p <= j
  <2>1. later \subseteq Nat
    OBVIOUS
  <2>2. later # {} => \E m \in later : \A j \in later : m <= j
    BY <2>1, LeastElement
  <2> QED
    BY <2>2 DEF GivebackPosition
<1> HIDE DEF p
<1>4. /\ p \in 1..(Len(queue) + 1)
      /\ \A i \in 1..(p - 1) : readyTime[queue[i]] <= time
      /\ p <= Len(queue) => readyTime[queue[p]] > time
  <2>1. CASE later = {}
    <3>1. Len(queue) \in Nat /\ p = Len(queue) + 1
      BY <1>2, <2>1
    <3>2. \A i \in 1..Len(queue) : ~(readyTime[queue[i]] > time)
      BY <2>1
    <3> QED
      BY <1>1, <3>1, <3>2
  <2>2. CASE later # {}
    <3>1. p \in 1..Len(queue) /\ readyTime[queue[p]] > time
      BY <1>3, <2>2
    <3>2. \A i \in 1..(p - 1) : i \in 1..Len(queue) /\ i \notin later
      BY <1>3, <2>2, <3>1
    <3> QED
      BY <1>1, <3>1, <3>2
  <2> QED
    BY <2>1, <2>2
<1> QED
  BY <1>4 DEF p

(* What it is to be a member of a sequence.                                *)
LEMMA RangeMember ==
    ASSUME NEW S, NEW s \in Seq(S)
    PROVE  \A x : x \in Range(s) <=> \E i \in 1..Len(s) : s[i] = x
BY RangeEquality

(* Concatenation, element by element.                                      *)
LEMMA ConcatElements ==
    ASSUME NEW S, NEW s \in Seq(S), NEW t \in Seq(S)
    PROVE  /\ s \o t \in Seq(S)
           /\ Len(s \o t) = Len(s) + Len(t)
           /\ Len(s) \in Nat /\ Len(t) \in Nat
           /\ \A i \in 1..Len(s) : (s \o t)[i] = s[i]
           /\ \A i \in 1..Len(t) : (s \o t)[Len(s) + i] = t[i]
<1>1. Len(s) \in Nat /\ Len(t) \in Nat
  OBVIOUS
<1>2. \A i \in 1..(Len(s) + Len(t)) :
         (s \o t)[i] = IF i <= Len(s) THEN s[i] ELSE t[i - Len(s)]
  BY ConcatProperties
<1>3. \A i \in 1..Len(s) : (s \o t)[i] = s[i]
  BY <1>1, <1>2
<1>4. \A i \in 1..Len(t) : (s \o t)[Len(s) + i] = t[i]
  <2> SUFFICES ASSUME NEW i \in 1..Len(t)
               PROVE  (s \o t)[Len(s) + i] = t[i]
    OBVIOUS
  <2>1. /\ Len(s) + i \in 1..(Len(s) + Len(t)) /\ ~(Len(s) + i <= Len(s))
        /\ (Len(s) + i) - Len(s) = i
    BY <1>1
  <2> QED
    BY <1>2, <2>1
<1> QED
  BY <1>1, <1>3, <1>4, ConcatProperties

(* Three sequences in a row, element by element.                           *)
LEMMA Blocks ==
    ASSUME NEW S, NEW a \in Seq(S), NEW u \in Seq(S), NEW b \in Seq(S)
    PROVE  LET q == (a \o u) \o b IN
        /\ q \in Seq(S) /\ Len(q) = Len(a) + Len(u) + Len(b) 
        /\ \A i \in 1..Len(a) : q[i] = a[i]
        /\ \A i \in 1..Len(u) : q[Len(a) + i] = u[i]
        /\ \A i \in 1..Len(b) : q[Len(a) + Len(u) + i] = b[i]
<1> DEFINE c == a \o u
           q == c \o b
<1>1. /\ c \in Seq(S) /\ Len(c) = Len(a) + Len(u)
      /\ \A i \in 1..Len(a) : c[i] = a[i]
      /\ \A i \in 1..Len(u) : c[Len(a) + i] = u[i]
  BY ConcatElements
<1> HIDE DEF c
<1>0. c \in Seq(S)
  BY <1>1
<1>2. /\ q \in Seq(S) /\ Len(q) = Len(c) + Len(b)
      /\ \A i \in 1..Len(c) : q[i] = c[i]
      /\ \A i \in 1..Len(b) : q[Len(c) + i] = b[i]
  BY <1>0, ConcatElements
<1> HIDE DEF q
<1>3. Len(a) \in Nat /\ Len(u) \in Nat /\ Len(b) \in Nat
  OBVIOUS
<1>4. \A i \in 1..Len(a) : q[i] = a[i]
  BY <1>1, <1>2, <1>3
<1>5. \A i \in 1..Len(u) : q[Len(a) + i] = u[i]
  BY <1>1, <1>2, <1>3
<1>6. \A i \in 1..Len(b) : q[Len(a) + Len(u) + i] = b[i]
  BY <1>1, <1>2, <1>3
<1> QED
  BY <1>1, <1>2, <1>3, <1>4, <1>5, <1>6 DEF q, c

(* q is `queue` with the block `urbs` inserted before position p.          *)
Spliced(q, queue, p, urbs, S) ==
    /\ q \in Seq(S)
    /\ Len(q) = Len(queue) + Len(urbs)
    /\ \A i \in 1..(p - 1) : q[i] = queue[i]
    /\ \A i \in 1..Len(urbs) : q[p - 1 + i] = urbs[i]
    /\ \A i \in p..Len(queue) : q[i + Len(urbs)] = queue[i]

(* Cutting a queue at p and putting a block in between splices it in.      *)
LEMMA SpliceElements ==
    ASSUME NEW S, NEW queue \in Seq(S), NEW p \in 1..(Len(queue) + 1),
           NEW urbs \in Seq(S)
    PROVE  Spliced(SubSeq(queue, 1, p - 1) \o urbs \o
                       SubSeq(queue, p, Len(queue)), queue, p, urbs, S)
<1> DEFINE a == SubSeq(queue, 1, p - 1)
           b == SubSeq(queue, p, Len(queue))
<1>1. /\ a \in Seq(S) /\ Len(a) = p - 1
      /\ \A i \in 1..(p - 1) : a[i] = queue[i]
  OBVIOUS
<1>2. /\ b \in Seq(S) /\ Len(b) = Len(queue) - p + 1
      /\ \A i \in 1..Len(b) : b[i] = queue[p + i - 1]
  OBVIOUS
<1> HIDE DEF a, b
<1>0. a \in Seq(S) /\ b \in Seq(S)
  BY <1>1, <1>2
<1> DEFINE q == (a \o urbs) \o b
<1>3. /\ q \in Seq(S) /\ Len(q) = Len(a) + Len(urbs) + Len(b) 
      /\ \A i \in 1..Len(a) : q[i] = a[i]
      /\ \A i \in 1..Len(urbs) : q[Len(a) + i] = urbs[i]
      /\ \A i \in 1..Len(b) : q[Len(a) + Len(urbs) + i] = b[i]
  BY <1>0, Blocks
<1> HIDE DEF q
<1>4. Len(queue) \in Nat /\ Len(urbs) \in Nat
  OBVIOUS
<1>5. \A i \in 1..(p - 1) : q[i] = queue[i]
  BY <1>1, <1>3
<1>6. \A i \in 1..Len(urbs) : q[p - 1 + i] = urbs[i]
  BY <1>1, <1>3
<1>7. ASSUME NEW i \in p..Len(queue) PROVE q[i + Len(urbs)] = queue[i]
  <2>1. /\ i - p + 1 \in 1..Len(b)
        /\ Len(a) + Len(urbs) + (i - p + 1) = i + Len(urbs)
        /\ p + (i - p + 1) - 1 = i
    BY <1>1, <1>2, <1>4
  <2>2. b[i - p + 1] = queue[p + (i - p + 1) - 1]
    BY <1>2, <2>1
  <2> QED
    BY <2>1, <2>2, <1>3
<1>8. Len(q) = Len(queue) + Len(urbs)
  BY <1>1, <1>2, <1>3, <1>4
<1>9. /\ q \in Seq(S)
      /\ Len(q) = Len(queue) + Len(urbs)
      /\ \A i \in 1..(p - 1) : q[i] = queue[i]
      /\ \A i \in 1..Len(urbs) : q[p - 1 + i] = urbs[i]
      /\ \A i \in p..Len(queue) : q[i + Len(urbs)] = queue[i]
  BY <1>3, <1>5, <1>6, <1>7, <1>8
<1> QED
  BY <1>9 DEF q, a, b, Spliced

(* Where each position of a spliced queue comes from.                      *)
LEMMA SpliceOrigin ==
    ASSUME NEW S, NEW queue \in Seq(S), NEW p \in 1..(Len(queue) + 1),
           NEW urbs \in Seq(S), NEW q, Spliced(q, queue, p, urbs, S),
           NEW i \in 1..Len(q)
    PROVE  \/ i \in 1..(p - 1) /\ i \in 1..Len(queue) /\ q[i] = queue[i]
           \/ /\ i - (p - 1) \in 1..Len(urbs)
              /\ q[i] = urbs[i - (p - 1)]
           \/ /\ i - Len(urbs) \in p..Len(queue)
              /\ i - Len(urbs) \in 1..Len(queue)
              /\ q[i] = queue[i - Len(urbs)]
<1>1. Len(queue) \in Nat /\ Len(urbs) \in Nat /\ Len(q) \in Nat
  BY DEF Spliced
<1>2. Len(q) = Len(queue) + Len(urbs)
  BY DEF Spliced
<1>3. CASE i \in 1..(p - 1)
  BY <1>1, <1>3 DEF Spliced
<1>4. CASE i - (p - 1) \in 1..Len(urbs)
  <2>1. (p - 1) + (i - (p - 1)) = i
    BY <1>1
  <2>2. q[p - 1 + (i - (p - 1))] = urbs[i - (p - 1)]
    BY <1>4 DEF Spliced
  <2> QED
    BY <1>4, <2>1, <2>2
<1>5. CASE i - Len(urbs) \in p..Len(queue)
  <2>1. (i - Len(urbs)) + Len(urbs) = i /\ i - Len(urbs) \in 1..Len(queue)
    BY <1>1, <1>5
  <2>2. q[(i - Len(urbs)) + Len(urbs)] = queue[i - Len(urbs)]
    BY <1>5 DEF Spliced
  <2> QED
    BY <1>5, <2>1, <2>2
<1> QED
  BY <1>1, <1>2, <1>3, <1>4, <1>5

(* Splicing adds the members of the block and drops none.                  *)
LEMMA SpliceRange ==
    ASSUME NEW S, NEW queue \in Seq(S), NEW p \in 1..(Len(queue) + 1),
           NEW urbs \in Seq(S), NEW q, Spliced(q, queue, p, urbs, S)
    PROVE  Range(q) = Range(queue) \cup Range(urbs)
<1>0. Len(queue) \in Nat /\ Len(urbs) \in Nat /\ q \in Seq(S)
      /\ Len(q) = Len(queue) + Len(urbs)
  BY DEF Spliced
<1>1. ASSUME NEW i \in 1..Len(q)
      PROVE  q[i] \in Range(queue) \cup Range(urbs)
  BY SMTT(40), SpliceOrigin, RangeMember
<1>2. ASSUME NEW i \in 1..Len(urbs) PROVE urbs[i] \in Range(q)
  <2>1. p - 1 + i \in 1..Len(q) /\ q[p - 1 + i] = urbs[i]
    BY <1>0 DEF Spliced
  <2> QED
    BY <1>0, <2>1, RangeMember
<1>3. ASSUME NEW i \in 1..Len(queue) PROVE queue[i] \in Range(q)
  <2>1. CASE i < p
    <3>1. i \in 1..Len(q) /\ q[i] = queue[i]
      BY <1>0, <2>1 DEF Spliced
    <3> QED
      BY <1>0, <3>1, RangeMember
  <2>2. CASE ~(i < p)
    <3>1. i + Len(urbs) \in 1..Len(q) /\ q[i + Len(urbs)] = queue[i]
      BY <1>0, <2>2 DEF Spliced
    <3> QED
      BY <1>0, <3>1, RangeMember
  <2> QED
    BY <2>1, <2>2
<1> QED
  <2>1. \A x : x \in Range(q) => x \in Range(queue) \cup Range(urbs)
    BY <1>0, <1>1, RangeMember
  <2>2. \A x : x \in Range(queue) \cup Range(urbs) => x \in Range(q)
    BY <1>2, <1>3, RangeMember
  <2> QED
    BY <2>1, <2>2

(* Splicing keeps a queue free of duplicates.                              *)
LEMMA SpliceInjective ==
    ASSUME NEW S, NEW queue \in Seq(S), NEW p \in 1..(Len(queue) + 1),
           NEW urbs \in Seq(S), NEW q, Spliced(q, queue, p, urbs, S),
           IsInjective(queue), IsInjective(urbs),
           Range(queue) \cap Range(urbs) = {}
    PROVE  IsInjective(q)
<1>0. /\ Len(queue) \in Nat /\ Len(urbs) \in Nat /\ q \in Seq(S)
      /\ Len(q) = Len(queue) + Len(urbs)
  BY DEF Spliced
<1>1. /\ \A i, j \in 1..Len(queue) : queue[i] = queue[j] => i = j
      /\ \A i, j \in 1..Len(urbs) : urbs[i] = urbs[j] => i = j
      /\ \A i \in 1..Len(queue), j \in 1..Len(urbs) : queue[i] # urbs[j]
  BY SMTT(40) DEF IsInjective, Range
<1>2. ASSUME NEW i \in 1..Len(q), NEW j \in 1..Len(q), q[i] = q[j]
      PROVE  i = j
  <2> DEFINE Origin(k) ==
                 \/ k \in 1..(p - 1) /\ k \in 1..Len(queue) /\ q[k] = queue[k]
                 \/ /\ k - (p - 1) \in 1..Len(urbs)
                    /\ q[k] = urbs[k - (p - 1)]
                 \/ /\ k - Len(urbs) \in p..Len(queue)
                    /\ k - Len(urbs) \in 1..Len(queue)
                    /\ q[k] = queue[k - Len(urbs)]
  <2>1. Origin(i) /\ Origin(j)
    BY SpliceOrigin
  <2>2. CASE i - (p - 1) \in 1..Len(urbs) /\ q[i] = urbs[i - (p - 1)]
    <3>1. CASE j - (p - 1) \in 1..Len(urbs) /\ q[j] = urbs[j - (p - 1)]
      <4>1. i - (p - 1) = j - (p - 1)
        BY <1>1, <1>2, <2>2, <3>1
      <4> QED
        BY <1>0, <4>1
    <3>2. CASE j \in 1..Len(queue) /\ q[j] = queue[j]
      BY <1>1, <1>2, <2>2, <3>2
    <3>3. CASE /\ j - Len(urbs) \in 1..Len(queue)
               /\ q[j] = queue[j - Len(urbs)]
      BY <1>1, <1>2, <2>2, <3>3
    <3> QED
      BY <2>1, <3>1, <3>2, <3>3
  <2>3. CASE i \in 1..(p - 1) /\ i \in 1..Len(queue) /\ q[i] = queue[i]
    BY <1>0, <1>1, <1>2, <2>1, <2>3
  <2>4. CASE /\ i - Len(urbs) \in p..Len(queue)
             /\ i - Len(urbs) \in 1..Len(queue)
             /\ q[i] = queue[i - Len(urbs)]
    BY SMTT(40), <1>0, <1>1, <1>2, <2>1, <2>4
  <2> QED
    BY <2>1, <2>2, <2>3, <2>4
<1> QED
  BY <1>0, <1>2 DEF IsInjective

(* Queueing is splicing at the insertion point.                            *)
LEMMA QueueGivebackSplices ==
    ASSUME NEW S, NEW queue \in Seq(S), NEW readyTime \in [S -> Nat],
           NEW time \in Nat, NEW urbs \in Seq(S)
    PROVE  /\ GivebackPosition(queue, readyTime, time) \in 1..(Len(queue) + 1)
           /\ Spliced(QueueGiveback(queue, readyTime, urbs, time), queue,
                      GivebackPosition(queue, readyTime, time), urbs, S)
<1> DEFINE p == GivebackPosition(queue, readyTime, time)
<1>1. p \in 1..(Len(queue) + 1)
  BY GivebackPositionBounds
<1> HIDE DEF p
<1>2. Spliced(SubSeq(queue, 1, p - 1) \o urbs \o SubSeq(queue, p, Len(queue)),
              queue, p, urbs, S)
  BY <1>1, SpliceElements
<1> QED
  BY <1>1, <1>2 DEF p, QueueGiveback

(* Queueing keeps every member, adds the new ones and no other, and never  *)
(* makes a duplicate of a context that was not queued.                     *)
LEMMA QueueGivebackMembers ==
    ASSUME NEW S, NEW queue \in Seq(S), NEW readyTime \in [S -> Nat],
           NEW time \in Nat, NEW urbs \in Seq(S)
    PROVE  LET q == QueueGiveback(queue, readyTime, urbs, time)
           IN  /\ q \in Seq(S)
               /\ Range(q) = Range(queue) \cup Range(urbs)
               /\ IsInjective(queue) /\ IsInjective(urbs)
                  /\ Range(queue) \cap Range(urbs) = {} => IsInjective(q)
<1> DEFINE p == GivebackPosition(queue, readyTime, time)
           q == QueueGiveback(queue, readyTime, urbs, time)
<1>1. p \in 1..(Len(queue) + 1) /\ Spliced(q, queue, p, urbs, S)
  BY QueueGivebackSplices
<1> HIDE DEF p, q
<1>2. q \in Seq(S)
  BY <1>1 DEF Spliced
<1>3. Range(q) = Range(queue) \cup Range(urbs)
  BY <1>1, SpliceRange
<1>4. /\ IsInjective(queue) /\ IsInjective(urbs)
      /\ Range(queue) \cap Range(urbs) = {}
      => IsInjective(q)
  BY <1>1, SpliceInjective
<1> QED
  BY <1>2, <1>3, <1>4 DEF q

(* A block without duplicates: one context, or none.                       *)
LEMMA Singleton ==
    ASSUME NEW S, NEW u \in S
    PROVE  <<u>> \in Seq(S) /\ Range(<<u>>) = {u} /\ IsInjective(<<u>>)
<1>1. <<u>> \in Seq(S) /\ Len(<<u>>) = 1 /\ <<u>>[1] = u
  OBVIOUS
<1>2. Range(<<u>>) = {u}
  BY <1>1 DEF Range
<1>3. IsInjective(<<u>>)
  BY DEF IsInjective
<1> QED
  BY <1>1, <1>2, <1>3

(* list_del leaves a list of contexts.                                     *)
LEMMA ListDelType ==
    ASSUME NEW S, NEW list \in Seq(S), NEW u
    PROVE  ListDel(list, u) \in Seq(S)
<1> DEFINE i == CHOOSE k \in DOMAIN list : list[k] = u
           a == SubSeq(list, 1, i - 1)
           b == SubSeq(list, i + 1, Len(list))
<1>1. CASE u \notin Range(list)
  BY <1>1 DEF ListDel
<1>2. CASE u \in Range(list)
  <2>1. i \in 1..Len(list)
    <3>1. \E k \in DOMAIN list : list[k] = u
      BY <1>2 DEF Range
    <3> QED
      BY <3>1
  <2> HIDE DEF i
  <2>2. a \in Seq(S) /\ b \in Seq(S)
    BY <2>1
  <2> HIDE DEF a, b
  <2>3. a \o b \in Seq(S)
    BY <2>2
  <2> QED
    BY <1>2, <2>3 DEF ListDel, a, b, i
<1> QED
  BY <1>1, <1>2

(* list_del drops the one context and leaves the others.                   *)
LEMMA ListDelMembers ==
    ASSUME NEW S, NEW list \in Seq(S), IsInjective(list), NEW u
    PROVE  /\ ListDel(list, u) \in Seq(S)
           /\ Range(ListDel(list, u)) = Range(list) \ {u}
           /\ IsInjective(ListDel(list, u))
<1>1. CASE u \notin Range(list)
  BY <1>1 DEF ListDel
<1>2. CASE u \in Range(list)
  <2> DEFINE i == CHOOSE k \in DOMAIN list : list[k] = u
             a == SubSeq(list, 1, i - 1)
             b == SubSeq(list, i + 1, Len(list))
             d == a \o b
  <2>1. i \in 1..Len(list) /\ list[i] = u
    <3>1. \E k \in DOMAIN list : list[k] = u
      BY <1>2 DEF Range
    <3> QED
      BY <3>1
  <2>2. ListDel(list, u) = d
    BY <1>2 DEF ListDel
  <2> HIDE DEF i
  <2>3. /\ a \in Seq(S) /\ Len(a) = i - 1
        /\ \A k \in 1..(i - 1) : a[k] = list[k]
    BY <2>1
  <2>4. /\ b \in Seq(S) /\ Len(b) = Len(list) - i
        /\ \A k \in 1..Len(b) : b[k] = list[i + k]
    BY <2>1
  <2> HIDE DEF a, b
  <2>5. a \in Seq(S) /\ b \in Seq(S)
    BY <2>3, <2>4
  <2>6. /\ d \in Seq(S) /\ Len(d) = Len(a) + Len(b)
        /\ \A k \in 1..Len(a) : d[k] = a[k]
        /\ \A k \in 1..Len(b) : d[Len(a) + k] = b[k]
    BY <2>5, ConcatElements
  <2> HIDE DEF d
  <2>7. Len(list) \in Nat /\ Len(d) = Len(list) - 1
    BY <2>1, <2>3, <2>4, <2>6
  <2>8. \A k \in 1..(i - 1) : d[k] = list[k]
    BY <2>3, <2>6
  <2>9. ASSUME NEW k \in i..Len(d) PROVE d[k] = list[k + 1]
    <3>1. /\ k - (i - 1) \in 1..Len(b) /\ Len(a) + (k - (i - 1)) = k
          /\ i + (k - (i - 1)) = k + 1
      BY <2>1, <2>3, <2>4, <2>7
    <3>2. b[k - (i - 1)] = list[i + (k - (i - 1))]
      BY <2>4, <3>1
    <3> QED
      BY <2>6, <3>1, <3>2
  <2>10. \A k, m \in 1..Len(list) : list[k] = list[m] => k = m
    BY DEF IsInjective
  <2>11. IsInjective(d)
    <3>1. ASSUME NEW k \in 1..Len(d), NEW m \in 1..Len(d), d[k] = d[m]
          PROVE  k = m
      <4>1. CASE k < i /\ m < i
        BY <2>1, <2>7, <2>8, <2>10, <3>1, <4>1
      <4>2. CASE k < i /\ ~(m < i)
        <5>1. /\ k \in 1..Len(list) /\ d[k] = list[k]
              /\ m + 1 \in 1..Len(list) /\ d[m] = list[m + 1]
          BY <2>1, <2>7, <2>8, <2>9, <4>2
        <5>2. k = m + 1
          BY <2>10, <3>1, <5>1
        <5> QED
          BY <2>1, <4>2, <5>2
      <4>3. CASE ~(k < i) /\ m < i
        <5>1. /\ k + 1 \in 1..Len(list) /\ d[k] = list[k + 1]
              /\ m \in 1..Len(list) /\ d[m] = list[m]
          BY <2>1, <2>7, <2>8, <2>9, <4>3
        <5>2. k + 1 = m
          BY <2>10, <3>1, <5>1
        <5> QED
          BY <2>1, <4>3, <5>2
      <4>4. CASE ~(k < i) /\ ~(m < i)
        <5>1. /\ k + 1 \in 1..Len(list) /\ d[k] = list[k + 1]
              /\ m + 1 \in 1..Len(list) /\ d[m] = list[m + 1]
          BY <2>1, <2>7, <2>9, <4>4
        <5>2. k + 1 = m + 1
          BY <2>10, <3>1, <5>1
        <5> QED
          BY <5>2
      <4> QED
        BY <4>1, <4>2, <4>3, <4>4
    <3> QED
      BY <2>6, <3>1 DEF IsInjective
  <2>12. ASSUME NEW k \in 1..Len(d) PROVE d[k] \in Range(list) \ {u}
    <3>1. CASE k < i
      <4>1. k \in 1..Len(list) /\ k # i /\ d[k] = list[k]
        BY <2>1, <2>7, <2>8, <3>1
      <4> QED
        BY <2>1, <2>10, <4>1, RangeMember
    <3>2. CASE ~(k < i)
      <4>1. k + 1 \in 1..Len(list) /\ k + 1 # i /\ d[k] = list[k + 1]
        BY <2>1, <2>7, <2>9, <3>2
      <4> QED
        BY <2>1, <2>10, <4>1, RangeMember
    <3> QED
      BY <3>1, <3>2
  <2>13. ASSUME NEW k \in 1..Len(list), list[k] # u PROVE list[k] \in Range(d)
    <3>1. CASE k < i
      <4>1. k \in 1..Len(d) /\ d[k] = list[k]
        BY <2>1, <2>7, <2>8, <3>1
      <4> QED
        BY <2>6, <4>1, RangeMember
    <3>2. CASE ~(k < i)
      <4>1. k - 1 \in i..Len(d) /\ (k - 1) + 1 = k
        BY <2>1, <2>7, <2>13, <3>2
      <4>2. d[k - 1] = list[(k - 1) + 1] /\ k - 1 \in 1..Len(d)
        BY <2>1, <2>9, <4>1
      <4> QED
        BY <2>6, <4>1, <4>2, RangeMember
    <3> QED
      BY <3>1, <3>2
  <2>14. \A x : x \in Range(d) <=> x \in Range(list) \ {u}
    BY <2>6, <2>12, <2>13, RangeMember
  <2> QED
    BY <2>2, <2>6, <2>11, <2>14
<1> QED
  BY <1>1, <1>2

(* The members of a list that are in S, in list order: a list of exactly   *)
(* those members.                                                          *)
LEMMA InListOrderMembers ==
    ASSUME NEW S, NEW list \in Seq(S), NEW T, NEW t \in InListOrder(list, T)
    PROVE  /\ t \in Seq(S)
           /\ Range(t) = Range(list) \cap T
           /\ IsInjective(t)
<1> DEFINE kept == Range(list) \cap T
<1>1. IsFiniteSet(Range(list))
  <2>1. IsFiniteSet(1..Len(list))
    BY FS_Interval
  <2>2. list \in Surjection(1..Len(list), Range(list))
    BY RangeMember DEF Surjection, Range
  <2> QED
    BY <2>1, <2>2, FS_Surjection
<1>2. Cardinality(kept) \in Nat
  BY <1>1, FS_Subset, FS_CardinalityType
<1>3. Range(t) = kept /\ IsInjective(t) /\ t \in [1..Cardinality(kept) -> kept]
  BY DEF InListOrder
<1>4. kept \subseteq S
  BY RangeMember
<1>5. t \in [1..Cardinality(kept) -> S]
  BY <1>3, <1>4
<1> HIDE DEF kept
<1>6. t \in Seq(S)
  BY <1>2, <1>5, SeqDef
<1> QED
  BY <1>3, <1>6 DEF kept

(***************************************************************************)
(* Append, Tail and concatenation on lists without duplicates.             *)
(***************************************************************************)
LEMMA AppendMembers ==
    ASSUME NEW S, NEW list \in Seq(S), NEW u \in S
    PROVE  /\ Append(list, u) \in Seq(S)
           /\ Range(Append(list, u)) = Range(list) \cup {u}
           /\ IsInjective(list) /\ u \notin Range(list)
              => IsInjective(Append(list, u))
<1> DEFINE q == Append(list, u)
<1>1. /\ q \in Seq(S) /\ Len(q) = Len(list) + 1 /\ Len(list) \in Nat
      /\ \A i \in 1..Len(list) : q[i] = list[i]
      /\ q[Len(list) + 1] = u
  OBVIOUS
<1> HIDE DEF q
<1>2. \A x : x \in Range(q) <=> \E i \in 1..Len(q) : q[i] = x
  BY <1>1, RangeMember
<1>3. \A x : x \in Range(list) <=> \E i \in 1..Len(list) : list[i] = x
  BY RangeMember
<1>4. \A i : i \in 1..Len(q) <=> i \in 1..Len(list) \/ i = Len(list) + 1
  BY <1>1
<1>5. Range(q) = Range(list) \cup {u}
  <2>1. ASSUME NEW x \in Range(q) PROVE x \in Range(list) \cup {u}
    BY <1>1, <1>2, <1>3, <1>4
  <2>2. ASSUME NEW x \in Range(list) PROVE x \in Range(q)
    <3>1. PICK i \in 1..Len(list) : list[i] = x
      BY <1>3
    <3>2. i \in 1..Len(q) /\ q[i] = x
      BY <1>1, <1>4, <3>1
    <3> QED
      BY <1>2, <3>2
  <2>3. u \in Range(q)
    BY <1>1, <1>2, <1>4
  <2> QED
    BY <2>1, <2>2, <2>3
<1>6. ASSUME IsInjective(list), u \notin Range(list) PROVE IsInjective(q)
  <2>1. \A i, j \in 1..Len(list) : list[i] = list[j] => i = j
    BY <1>6 DEF IsInjective
  <2>2. \A i \in 1..Len(list) : list[i] # u
    BY <1>3, <1>6
  <2>3. \A i, j \in 1..Len(q) : q[i] = q[j] => i = j
    BY <1>1, <1>4, <2>1, <2>2
  <2> QED
    BY <1>1, <2>3 DEF IsInjective
<1> QED
  BY <1>1, <1>5, <1>6 DEF q

LEMMA TailMembers ==
    ASSUME NEW S, NEW list \in Seq(S), list # <<>>, IsInjective(list)
    PROVE  /\ Head(list) \in S /\ Head(list) \in Range(list)
           /\ Tail(list) \in Seq(S)
           /\ Range(Tail(list)) = Range(list) \ {Head(list)}
           /\ IsInjective(Tail(list))
<1> DEFINE q == Tail(list)
           u == Head(list)
<1>1. /\ q \in Seq(S) /\ Len(list) \in Nat /\ Len(list) = Len(q) + 1
      /\ Len(q) \in Nat
      /\ \A i \in 1..Len(q) : q[i] = list[i + 1]
      /\ u = list[1] /\ u \in S
  OBVIOUS
<1> HIDE DEF q, u
<1>2. \A i, j \in 1..Len(list) : list[i] = list[j] => i = j
  BY DEF IsInjective
<1>3. \A x : x \in Range(q) <=> \E i \in 1..Len(q) : q[i] = x
  BY <1>1, RangeMember
<1>4. \A x : x \in Range(list) <=> \E i \in 1..Len(list) : list[i] = x
  BY RangeMember
<1>5. 1 \in 1..Len(list) /\ \A i \in 1..Len(q) : i + 1 \in 1..Len(list) /\ i + 1 # 1
  BY <1>1
<1>6. u \in Range(list)
  BY <1>1, <1>4, <1>5
<1>7. Range(q) = Range(list) \ {u}
  <2>1. ASSUME NEW x \in Range(q) PROVE x \in Range(list) \ {u}
    <3>1. PICK i \in 1..Len(q) : q[i] = x
      BY <1>3
    <3>2. list[i + 1] = x /\ i + 1 \in 1..Len(list) /\ i + 1 # 1
      BY <1>1, <1>5, <3>1
    <3> QED
      BY <1>1, <1>2, <1>4, <1>5, <3>2
  <2>2. ASSUME NEW x \in Range(list) \ {u} PROVE x \in Range(q)
    <3>1. PICK i \in 1..Len(list) : list[i] = x
      BY <1>4
    <3>2. i # 1
      BY <1>1, <3>1
    <3>3. i - 1 \in 1..Len(q) /\ (i - 1) + 1 = i
      BY <1>1, <3>2
    <3> QED
      BY <1>1, <1>3, <3>1, <3>3
  <2> QED
    BY <2>1, <2>2
<1>8. IsInjective(q)
  <2>1. \A i, j \in 1..Len(q) : q[i] = q[j] => i = j
    BY <1>1, <1>2, <1>5
  <2> QED
    BY <1>1, <2>1 DEF IsInjective
<1> QED
  BY <1>1, <1>6, <1>7, <1>8 DEF q, u

LEMMA ConcatMembers ==
    ASSUME NEW S, NEW s \in Seq(S), NEW t \in Seq(S)
    PROVE  /\ s \o t \in Seq(S)
           /\ Range(s \o t) = Range(s) \cup Range(t)
           /\ IsInjective(s) /\ IsInjective(t) /\ Range(s) \cap Range(t) = {}
              => IsInjective(s \o t)
<1> DEFINE q == s \o t
<1>1. /\ q \in Seq(S) /\ Len(q) = Len(s) + Len(t)
      /\ Len(s) \in Nat /\ Len(t) \in Nat
      /\ \A i \in 1..Len(s) : q[i] = s[i]
      /\ \A i \in 1..Len(t) : q[Len(s) + i] = t[i]
  BY ConcatElements
<1> HIDE DEF q
<1>2. \A x : x \in Range(q) <=> \E i \in 1..Len(q) : q[i] = x
  BY <1>1, RangeMember
<1>3. /\ \A x : x \in Range(s) <=> \E i \in 1..Len(s) : s[i] = x
      /\ \A x : x \in Range(t) <=> \E i \in 1..Len(t) : t[i] = x
  BY RangeMember
<1>4. /\ \A i \in 1..Len(q) : \/ i \in 1..Len(s)
                              \/ /\ i - Len(s) \in 1..Len(t)
                                 /\ q[i] = t[i - Len(s)]
      /\ \A i \in 1..Len(s) : i \in 1..Len(q)
      /\ \A i \in 1..Len(t) : Len(s) + i \in 1..Len(q)
  <2>1. ASSUME NEW i \in 1..Len(q), i \notin 1..Len(s)
        PROVE  i - Len(s) \in 1..Len(t) /\ q[i] = t[i - Len(s)]
    <3>1. i - Len(s) \in 1..Len(t) /\ Len(s) + (i - Len(s)) = i
      BY <1>1, <2>1
    <3> QED
      BY <1>1, <3>1
  <2> QED
    BY <1>1, <2>1
<1>5. Range(q) = Range(s) \cup Range(t)
  <2>1. ASSUME NEW x \in Range(q) PROVE x \in Range(s) \cup Range(t)
    BY <1>1, <1>2, <1>3, <1>4
  <2>2. ASSUME NEW x \in Range(s) PROVE x \in Range(q)
    BY <1>1, <1>2, <1>3, <1>4
  <2>3. ASSUME NEW x \in Range(t) PROVE x \in Range(q)
    BY <1>1, <1>2, <1>3, <1>4
  <2> QED
    BY <2>1, <2>2, <2>3
<1>6. ASSUME IsInjective(s), IsInjective(t), Range(s) \cap Range(t) = {}
      PROVE  IsInjective(q)
  <2>1. /\ \A i, j \in 1..Len(s) : s[i] = s[j] => i = j
        /\ \A i, j \in 1..Len(t) : t[i] = t[j] => i = j
    BY <1>6 DEF IsInjective
  <2>2. \A i \in 1..Len(s), j \in 1..Len(t) : s[i] # t[j]
    BY <1>3, <1>6
  <2>3. ASSUME NEW i \in 1..Len(q), NEW j \in 1..Len(q), q[i] = q[j]
        PROVE  i = j
    <3>1. CASE i \in 1..Len(s) /\ j \in 1..Len(s)
      BY <1>1, <2>1, <2>3, <3>1
    <3>2. CASE i \in 1..Len(s) /\ j \notin 1..Len(s)
      <4>1. q[i] = s[i] /\ j - Len(s) \in 1..Len(t) /\ q[j] = t[j - Len(s)]
        BY <1>1, <1>4, <3>2
      <4> QED
        BY <2>2, <2>3, <3>2, <4>1
    <3>3. CASE i \notin 1..Len(s) /\ j \in 1..Len(s)
      <4>1. q[j] = s[j] /\ i - Len(s) \in 1..Len(t) /\ q[i] = t[i - Len(s)]
        BY <1>1, <1>4, <3>3
      <4> QED
        BY <2>2, <2>3, <3>3, <4>1
    <3>4. CASE i \notin 1..Len(s) /\ j \notin 1..Len(s)
      <4>1. /\ i - Len(s) \in 1..Len(t) /\ q[i] = t[i - Len(s)]
            /\ j - Len(s) \in 1..Len(t) /\ q[j] = t[j - Len(s)]
        BY <1>4, <3>4
      <4>2. i - Len(s) = j - Len(s)
        BY <2>1, <2>3, <4>1
      <4> QED
        BY <1>1, <4>2
    <3> QED
      BY <3>1, <3>2, <3>3, <3>4
  <2> QED
    BY <1>1, <2>3 DEF IsInjective
<1> QED
  BY <1>1, <1>5, <1>6 DEF q

(***************************************************************************)
(* The order of the completion queue.                                      *)
(***************************************************************************)

(* Timed entries stand in order of their ready_time, and an untimed one    *)
(* behind no timed one, unless it is exempt.                               *)
QueueOrder(queue, readyTime, exempt) ==
    /\ TimedSorted(queue, readyTime)
    /\ \A i, j \in 1..Len(queue) :
              /\ i < j
              /\ readyTime[queue[j]] = 0
              /\ queue[j] \notin exempt
            => readyTime[queue[i]] = 0

(* What stands behind the place where a context is queued is later, or was *)
(* unlinked where it stood.                                                *)
LEMMA LaterStays ==
    ASSUME NEW S, NEW queue \in Seq(S), NEW readyTime \in [S -> Nat],
           NEW time \in Nat, NEW exempt, QueueOrder(queue, readyTime, exempt),
           NEW k \in 1..Len(queue),
           GivebackPosition(queue, readyTime, time) <= k
    PROVE  \/ readyTime[queue[k]] > time
           \/ readyTime[queue[k]] = 0 /\ queue[k] \in exempt
<1> DEFINE p == GivebackPosition(queue, readyTime, time)
<1>1. /\ p \in 1..(Len(queue) + 1)
      /\ p <= Len(queue) => readyTime[queue[p]] > time
  BY GivebackPositionBounds
<1> HIDE DEF p
<1>2. p <= k /\ Len(queue) \in Nat
  BY DEF p
<1>3. p \in 1..Len(queue) /\ queue[p] \in S /\ queue[k] \in S
  BY <1>1, <1>2
<1>4. readyTime[queue[p]] \in Nat /\ readyTime[queue[k]] \in Nat
      /\ readyTime[queue[p]] > time
  BY <1>1, <1>3
<1>5. CASE k = p
  BY <1>4, <1>5
<1>6. CASE k # p
  <2>1. p < k
    BY <1>2, <1>3, <1>6
  <2>2. readyTime[queue[k]] # 0 => readyTime[queue[p]] <= readyTime[queue[k]]
    BY <1>3, <2>1 DEF QueueOrder, TimedSorted
  <2>3. readyTime[queue[k]] = 0 /\ queue[k] \notin exempt
        => readyTime[queue[p]] = 0
    BY <1>3, <2>1 DEF QueueOrder
  <2> QED
    BY <1>4, <2>2, <2>3
<1> QED
  BY <1>5, <1>6

(* Queueing a block of contexts that share a ready_time keeps the order:   *)
(* an untimed one goes before every timed one, a timed one behind all that *)
(* are due no later.                                                       *)
LEMMA QueueGivebackOrder ==
    ASSUME NEW S, NEW queue \in Seq(S), NEW readyTime \in [S -> Nat],
           NEW newTime \in [S -> Nat], NEW urbs \in Seq(S), NEW time \in Nat,
           NEW exempt, QueueOrder(queue, readyTime, exempt),
           \A u \in Range(queue) : newTime[u] = readyTime[u],
           \A u \in Range(urbs) : newTime[u] = time
    PROVE  QueueOrder(QueueGiveback(queue, readyTime, urbs, time), newTime,
                      exempt)
<1> DEFINE p == GivebackPosition(queue, readyTime, time)
           q == QueueGiveback(queue, readyTime, urbs, time)
           Before(i) == /\ i \in 1..(p - 1) /\ i \in 1..Len(queue)
                        /\ q[i] = queue[i] /\ newTime[q[i]] = readyTime[queue[i]]
                        /\ newTime[q[i]] <= time
           New(i) == i - (p - 1) \in 1..Len(urbs) /\ newTime[q[i]] = time
           Behind(i) == LET k == i - Len(urbs) IN
                        /\ k \in p..Len(queue) /\ k \in 1..Len(queue)
                        /\ q[i] = queue[k] /\ newTime[q[i]] = readyTime[queue[k]]
                        /\ \/ newTime[q[i]] > time
                           \/ newTime[q[i]] = 0 /\ q[i] \in exempt
<1>1. p \in 1..(Len(queue) + 1) /\ Spliced(q, queue, p, urbs, S)
  BY QueueGivebackSplices
<1>2. \A i \in 1..(p - 1) : readyTime[queue[i]] <= time
  BY GivebackPositionBounds
<1>3. \A k \in 1..Len(queue) : p <= k =>
          \/ readyTime[queue[k]] > time
          \/ readyTime[queue[k]] = 0 /\ queue[k] \in exempt
  BY LaterStays
<1> HIDE DEF p, q
<1>4. Len(queue) \in Nat /\ Len(urbs) \in Nat /\ q \in Seq(S)
      /\ Len(q) = Len(queue) + Len(urbs)
  BY <1>1 DEF Spliced
<1>5. \A i \in 1..Len(q) : newTime[q[i]] \in Nat
  BY <1>4
<1>6. ASSUME NEW i \in 1..Len(q) PROVE Before(i) \/ New(i) \/ Behind(i)
  <2>1. CASE i \in 1..(p - 1) /\ i \in 1..Len(queue) /\ q[i] = queue[i]
    <3>1. queue[i] \in Range(queue)
      BY <2>1, RangeMember
    <3> QED
      BY <1>2, <2>1, <3>1
  <2>2. CASE i - (p - 1) \in 1..Len(urbs) /\ q[i] = urbs[i - (p - 1)]
    <3>1. urbs[i - (p - 1)] \in Range(urbs)
      BY <2>2, RangeMember
    <3> QED
      BY <2>2, <3>1
  <2>3. CASE /\ i - Len(urbs) \in p..Len(queue)
             /\ i - Len(urbs) \in 1..Len(queue)
             /\ q[i] = queue[i - Len(urbs)]
    <3>1. queue[i - Len(urbs)] \in Range(queue)
      BY <2>3, RangeMember
    <3>2. p <= i - Len(urbs)
      BY <1>1, <1>4, <2>3
    <3> QED
      BY <1>3, <2>3, <3>1, <3>2
  <2> QED
    BY <1>1, <2>1, <2>2, <2>3, SpliceOrigin
<1>7. ASSUME NEW i \in 1..Len(q), NEW j \in 1..Len(q), i < j
      PROVE  /\ newTime[q[j]] # 0 => newTime[q[i]] <= newTime[q[j]]
             /\ newTime[q[j]] = 0 /\ q[j] \notin exempt => newTime[q[i]] = 0
  <2>0. newTime[q[i]] \in Nat /\ newTime[q[j]] \in Nat
    BY <1>5
  <2>1. CASE Before(i) /\ Before(j)
    BY <1>7, <2>1 DEF QueueOrder, TimedSorted
  <2>2. CASE Behind(i) /\ Behind(j)
    <3>1. i - Len(urbs) < j - Len(urbs)
      BY <1>4, <1>7
    <3> QED
      BY <2>2, <3>1 DEF QueueOrder, TimedSorted
  <2>3. CASE newTime[q[i]] <= time /\ (New(j) \/ Behind(j))
    <3>1. \/ newTime[q[j]] = time \/ newTime[q[j]] > time
          \/ newTime[q[j]] = 0 /\ q[j] \in exempt
      BY <2>3
    <3>2. CASE newTime[q[j]] = 0 /\ q[j] \in exempt
      BY <3>2
    <3>3. CASE newTime[q[j]] = time \/ newTime[q[j]] > time
      <4> HIDE DEF Before, New, Behind
      <4>1. newTime[q[i]] <= newTime[q[j]]
        BY <2>0, <2>3, <3>3
      <4> QED
        BY <2>0, <4>1
    <3> HIDE DEF Before, New, Behind
    <3> QED
      BY <3>1, <3>2, <3>3
  <2>4. ~(New(i) /\ Before(j)) /\ ~(Behind(i) /\ Before(j))
    BY <1>1, <1>4, <1>7
  <2>5. ~(Behind(i) /\ New(j))
    BY <1>1, <1>4, <1>7
  <2>6. Before(i) => newTime[q[i]] <= time
    OBVIOUS
  <2>7. New(i) => newTime[q[i]] <= time
    BY <2>0
  <2>8. (Before(i) \/ New(i) \/ Behind(i)) /\ (Before(j) \/ New(j) \/ Behind(j))
    BY <1>6
  <2> HIDE DEF Before, New, Behind
  <2> QED
    BY <2>1, <2>2, <2>3, <2>4, <2>5, <2>6, <2>7, <2>8
<1> QED
  BY <1>7 DEF QueueOrder, TimedSorted, q

(* Taking the first entry keeps the order.                                 *)
LEMMA QueueTailOrder ==
    ASSUME NEW S, NEW queue \in Seq(S), queue # <<>>, NEW readyTime,
           NEW exempt, QueueOrder(queue, readyTime, exempt)
    PROVE  QueueOrder(Tail(queue), readyTime, exempt)
<1> DEFINE q == Tail(queue)
<1>1. \A i \in 1..Len(q) : i + 1 \in 1..Len(queue) /\ q[i] = queue[i + 1]
  OBVIOUS
<1>2. \A i, j \in 1..Len(q) : i < j => i + 1 < j + 1
  OBVIOUS
<1> HIDE DEF q
<1> QED
  BY <1>1, <1>2 DEF QueueOrder, TimedSorted, q

(* So does clearing the ready_time of an entry where it stands, which      *)
(* makes it exempt.                                                        *)
LEMMA QueueClearedOrder ==
    ASSUME NEW S, NEW queue \in Seq(S), NEW readyTime \in [S -> Nat],
           NEW exempt, NEW u \in S, QueueOrder(queue, readyTime, exempt)
    PROVE  QueueOrder(queue, [readyTime EXCEPT ![u] = 0], exempt \cup {u})
<1> DEFINE cleared == [readyTime EXCEPT ![u] = 0]
<1>1. \A v \in S : /\ cleared[v] = IF v = u THEN 0 ELSE readyTime[v]
                   /\ readyTime[v] \in Nat
  OBVIOUS
<1>2. \A i \in 1..Len(queue) : queue[i] \in S
  OBVIOUS
<1> HIDE DEF cleared
<1>3. TimedSorted(queue, cleared)
  BY <1>1, <1>2 DEF QueueOrder, TimedSorted
<1>4. \A i, j \in 1..Len(queue) :
          i < j /\ cleared[queue[j]] = 0 /\ queue[j] \notin exempt \cup {u}
          => cleared[queue[i]] = 0
  BY <1>1, <1>2 DEF QueueOrder
<1> QED
  BY <1>3, <1>4 DEF QueueOrder, cleared

(***************************************************************************)
(* Types.  TypeOK alone is not inductive: `asked` has feature report ids   *)
(* and `configuration` a configuration only because of what the            *)
(* submissions behind them asked for, which RequestInv says.  The two are  *)
(* proved together.                                                        *)
(***************************************************************************)

TypeInv == TypeOK /\ RequestInv

LEMMA TypeInit == Init => TypeInv
<1> SUFFICES ASSUME Init PROVE TypeInv
  OBVIOUS
<1>1. [kind |-> "other", arg |-> 0] \in Request
  BY DEF Request, Kinds
<1>2. ContextTypes
  BY <1>1 DEF Init, ContextTypes, ContextStates, Steps, Results
<1>3. ListTypes /\ QueueTypes
  BY DEF Init, ListTypes, QueueTypes
<1>4. ClockTypes /\ PortTypes /\ DeviceTypes /\ ThreadTypes
  BY DEF Init, ClockTypes, PortTypes, DeviceTypes, ThreadTypes, UsbPortBits
<1>5. UserTypes /\ HubTypes
  BY DEF Init, UserTypes, HubTypes, UserStates
<1>6. RequestInv
  BY DEF Init, RequestInv
<1> QED
  BY <1>2, <1>3, <1>4, <1>5, <1>6 DEF TypeOK, TypeInv

(***************************************************************************)
(* The helpers.                                                            *)
(***************************************************************************)
LEMMA EnqueueFrameTypes ==
    ASSUME TypeOK, NEW type \in FrameTypes, NEW u \in Urbs,
           EnqueueFrame(type, u)
    PROVE  events' \in Seq(Event) /\ next_sequence' \in Nat
<1>1. events \in Seq(Event) /\ next_sequence \in Nat
  BY DEF TypeOK, QueueTypes
<1>2. [type |-> type, urb |-> u, sequence |-> next_sequence] \in Event
  BY <1>1 DEF Event
<1> QED
  BY <1>1, <1>2 DEF EnqueueFrame

LEMMA EnqueueBestEffortTypes ==
    ASSUME TypeOK, NEW type \in FrameTypes, NEW u \in Urbs,
           EnqueueBestEffort(type, u)
    PROVE  events' \in Seq(Event) /\ next_sequence' \in Nat
<1>1. CASE CanEnqueue
  BY <1>1, EnqueueFrameTypes DEF EnqueueBestEffort
<1>2. CASE ~CanEnqueue
  BY <1>2 DEF EnqueueBestEffort, TypeOK, QueueTypes, eventVars
<1> QED
  BY <1>1, <1>2

LEMMA HandlerReturnsTypes ==
    ASSUME TypeOK, NEW u \in Urbs, NEW result \in Results,
           HandlerReturns(u, result)
    PROVE  pc' \in [Urbs -> Steps] /\ ret' \in [Urbs -> Results]
BY DEF HandlerReturns, TypeOK, ContextTypes, Steps

LEMMA GotoTypes ==
    ASSUME TypeOK, NEW u \in Urbs, NEW step \in Steps, Goto(u, step)
    PROVE  pc' \in [Urbs -> Steps] /\ ret' \in [Urbs -> Results]
BY DEF Goto, TypeOK, ContextTypes

LEMMA NextReadyType ==
    ASSUME TypeOK, NEW next \in Nat, NEW interval \in Nat
    PROVE  NextReady(next, interval) \in Nat
BY DEF NextReady, TypeOK, ClockTypes

(* The body of vds_queue_urb_giveback_locked keeps the lists sequences.    *)
LEMMA QueueGivebackLockedTypes ==
    ASSUME TypeOK, NEW u \in Urbs, NEW result \in Results,
           QueueGivebackLocked(u, result)
    PROVE  /\ ctx' \in [Urbs -> ContextStates]
           /\ status' \in [Urbs -> Results]
           /\ ListTypes'
<1>1. CASE GivebackRefused(u)
  BY <1>1 DEF QueueGivebackLocked, TypeOK, ContextTypes, ListTypes, listVars
<1>2. CASE ~GivebackRefused(u)
  <2>1. /\ pending_hid_in' \in Seq(Urbs)
        /\ pending_feature_get' \in Seq(Urbs)
    <3>1. /\ pending_hid_in \in Seq(Urbs)
          /\ pending_feature_get \in Seq(Urbs)
      BY DEF TypeOK, ListTypes
    <3>2. /\ pending_hid_in' = ListDel(pending_hid_in, u)
          /\ pending_feature_get' = ListDel(pending_feature_get, u)
      BY <1>2 DEF QueueGivebackLocked
    <3> QED
      BY <3>1, <3>2, ListDelType
  <2>2. completed_urbs' \in Seq(Urbs)
    <3>1. /\ completed_urbs \in Seq(Urbs) /\ ready_time \in [Urbs -> Nat]
          /\ ready_time[u] \in Nat /\ <<u>> \in Seq(Urbs)
      BY DEF TypeOK, ContextTypes, ListTypes
    <3>2. QueueGiveback(completed_urbs, ready_time, <<u>>, ready_time[u])
              \in Seq(Urbs)
      BY <3>1, QueueGivebackMembers
    <3> QED
      BY <1>2, <3>2 DEF QueueGivebackLocked
  <2>3. /\ ctx' = [ctx EXCEPT ![u] = "PENDING_GIVEBACK"]
        /\ status' = [status EXCEPT ![u] = result]
    BY <1>2 DEF QueueGivebackLocked
  <2> QED
    BY <2>1, <2>2, <2>3 DEF TypeOK, ContextTypes, ListTypes, ContextStates
<1> QED
  BY <1>1, <1>2

(* The body of vds_cancel_pending_urbs_locked does, too.                   *)
LEMMA CancelPendingTypes ==
    ASSUME TypeOK, CancelPending
    PROVE  /\ ctx' \in [Urbs -> ContextStates]
           /\ status' \in [Urbs -> Results]
           /\ ListTypes'
<1> DEFINE pending == pending_hid_in \o pending_feature_get
<1>1. /\ pending \in Seq(Urbs) /\ completed_urbs \in Seq(Urbs)
      /\ ready_time \in [Urbs -> Nat] /\ 0 \in Nat
  BY DEF TypeOK, ContextTypes, ListTypes
<1>2. /\ ctx' = [u \in Urbs |-> IF u \in Range(pending)
                                THEN "PENDING_GIVEBACK" ELSE ctx[u]]
      /\ status' = [u \in Urbs |-> IF u \in Range(pending)
                                   THEN "ESHUTDOWN" ELSE status[u]]
      /\ pending_hid_in' = <<>> /\ pending_feature_get' = <<>>
      /\ completed_urbs' = QueueGiveback(completed_urbs, ready_time, pending, 0)
  BY DEF CancelPending
<1> HIDE DEF pending
<1>3. completed_urbs' \in Seq(Urbs)
  BY <1>1, <1>2, QueueGivebackMembers
<1>4. ctx' \in [Urbs -> ContextStates] /\ status' \in [Urbs -> Results]
  BY <1>2 DEF TypeOK, ContextTypes, ContextStates, Results
<1> QED
  BY <1>2, <1>3, <1>4 DEF ListTypes

(***************************************************************************)
(* The actions whose typing is a matter of one step each.                  *)
(***************************************************************************)
LEMMA TypeHandlers ==
    ASSUME TypeOK, NEW u \in Urbs
    PROVE  /\ \A r \in Requests : Submit(u, r) => TypeOK'
           /\ HandleOther(u) => TypeOK'
           /\ HandleFeatureGet(u) => TypeOK'
           /\ SetConfiguredStatus(u) => TypeOK'
           /\ ClearAudioStatus(u) => TypeOK'
           /\ SetAudioStatus(u) => TypeOK'
<1> USE DEF TypeOK, ContextTypes, ListTypes, QueueTypes, ClockTypes, PortTypes,
            DeviceTypes, ThreadTypes, UserTypes, HubTypes, contextVars,
            listVars, eventVars, pacingVars, usbVars, threadVars, userVars,
            hubVars, portVars, Steps, Results
<1>1. ASSUME NEW r \in Requests, Submit(u, r) PROVE TypeOK'
  BY <1>1, RequestsAssumption DEF Submit, ContextStates
<1>2. HandleOther(u) => TypeOK'
  BY DEF HandleOther, HandlerReturns
<1>3. HandleFeatureGet(u) => TypeOK'
  BY DEF HandleFeatureGet, HandlerReturns, Goto
<1>4. SetConfiguredStatus(u) => TypeOK'
  BY DEF SetConfiguredStatus, Goto, StatusFlags, UsbDeviceStatus
<1>5. ClearAudioStatus(u) => TypeOK'
  BY DEF ClearAudioStatus, AudioCleared, HandlerReturns
<1>6. SetAudioStatus(u) => TypeOK'
  BY DEF SetAudioStatus, Goto, StatusFlags, UsbDeviceStatus
<1> QED
  BY <1>1, <1>2, <1>3, <1>4, <1>5, <1>6

LEMMA TypeThreads ==
    ASSUME TypeOK
    PROVE  /\ GivebackUrb => TypeOK'
           /\ GivebackThreadExits => TypeOK'
           /\ Tick => TypeOK'
           /\ HubNoticesChange => TypeOK'
           /\ BeginRemove => TypeOK'
           /\ \A f \in PortClears : ClearPortFeature(f) => TypeOK'
<1> USE DEF TypeOK, ContextTypes, ListTypes, QueueTypes, ClockTypes, PortTypes,
            DeviceTypes, ThreadTypes, UserTypes, HubTypes, contextVars,
            listVars, eventVars, pacingVars, usbVars, threadVars, userVars,
            hubVars, portVars
<1>1. GivebackUrb => TypeOK'
  BY DEF GivebackUrb, ContextStates
<1>2. GivebackThreadExits => TypeOK'
  BY DEF GivebackThreadExits
<1>3. Tick => TypeOK'
  BY DEF Tick
<1>4. HubNoticesChange => TypeOK'
  BY DEF HubNoticesChange
<1>5. BeginRemove => TypeOK'
  BY DEF BeginRemove
<1>6. ASSUME NEW f \in PortClears, ClearPortFeature(f) PROVE TypeOK'
  BY <1>6 DEF ClearPortFeature
<1> QED
  BY <1>1, <1>2, <1>3, <1>4, <1>5, <1>6

LEMMA TypeSessions ==
    ASSUME TypeOK, NEW s \in Sessions
    PROVE  /\ Open(s) => TypeOK'
           /\ \A f \in FeatureIds : CacheReply(s, f) => TypeOK'
           /\ SetProfile(s) => TypeOK'
           /\ ResetUsbDevice(s) => TypeOK'
           /\ Release(s) => TypeOK'
           /\ ReleaseAfterStop(s) => TypeOK'
<1> USE DEF TypeOK, ContextTypes, ListTypes, QueueTypes, ClockTypes, PortTypes,
            DeviceTypes, ThreadTypes, UserTypes, HubTypes, contextVars,
            listVars, eventVars, pacingVars, usbVars, threadVars, userVars,
            hubVars, portVars, UserStates
<1>1. Open(s) => TypeOK'
  BY DEF Open
<1>2. ASSUME NEW f \in FeatureIds, CacheReply(s, f) PROVE TypeOK'
  BY <1>2 DEF CacheReply
<1>3. SetProfile(s) => TypeOK'
  BY DEF SetProfile
<1>4. ResetUsbDevice(s) => TypeOK'
  BY DEF ResetUsbDevice
<1>5. Release(s) => TypeOK'
  BY DEF Release
<1>6. ReleaseAfterStop(s) => TypeOK'
  BY DEF ReleaseAfterStop
<1> QED
  BY <1>1, <1>2, <1>3, <1>4, <1>5, <1>6

(***************************************************************************)
(* Handlers that queue frames or move contexts.                            *)
(***************************************************************************)
LEMMA TypeHandleHidIn ==
    ASSUME TypeOK, NEW u \in Urbs, HandleHidIn(u)
    PROVE  TypeOK'
<1>1. CASE input_packets # <<>>
  <2> DEFINE ready == NextReady(next_hid_in_ready, HidInterval)
  <2>1. ready \in Nat
    BY NextReadyType, BoundsAssumption DEF TypeOK, ClockTypes
  <2>2. Head(input_packets) \in Nat /\ Tail(input_packets) \in Seq(Nat)
    BY <1>1 DEF TypeOK, QueueTypes
  <2>3. pc' \in [Urbs -> Steps] /\ ret' \in [Urbs -> Results]
    BY <1>1, HandlerReturnsTypes DEF HandleHidIn, Results
  <2>4. /\ report' = [report EXCEPT ![u] = Head(input_packets)]
        /\ input_packets' = Tail(input_packets)
        /\ ready_time' = [ready_time EXCEPT ![u] = ready]
        /\ next_hid_in_ready' = ready
        /\ UNCHANGED <<ctx, pending_hid_in>>
    BY <1>1 DEF HandleHidIn
  <2> HIDE DEF ready
  <2>5. ContextTypes'
    BY <2>1, <2>2, <2>3, <2>4 DEF HandleHidIn, TypeOK, ContextTypes
  <2>6. ListTypes' /\ QueueTypes' /\ ClockTypes'
    BY <2>1, <2>2, <2>4
    DEF HandleHidIn, TypeOK, ListTypes, QueueTypes, ClockTypes, eventVars
  <2> QED
    BY <2>5, <2>6
    DEF HandleHidIn, TypeOK, PortTypes, DeviceTypes, ThreadTypes, UserTypes,
        HubTypes, portVars, usbVars, threadVars, userVars, hubVars
<1>2. CASE input_packets = <<>>
  <2>1. pc' \in [Urbs -> Steps] /\ ret' \in [Urbs -> Results]
    BY <1>2, GotoTypes DEF HandleHidIn, Steps
  <2>0. /\ pending_hid_in' = Append(pending_hid_in, u)
        /\ ctx' = [ctx EXCEPT ![u] = "PENDING_HID_IN"]
    BY <1>2 DEF HandleHidIn
  <2>2. pending_hid_in' \in Seq(Urbs)
    BY <2>0 DEF TypeOK, ListTypes
  <2>3. ctx' \in [Urbs -> ContextStates]
    BY <2>0 DEF TypeOK, ContextTypes, ContextStates
  <2>4. ContextTypes' /\ ListTypes'
    BY <1>2, <2>1, <2>2, <2>3 DEF HandleHidIn, TypeOK, ContextTypes, ListTypes
  <2>5. QueueTypes' /\ ClockTypes'
    BY <1>2 DEF HandleHidIn, TypeOK, QueueTypes, ClockTypes, eventVars
  <2> QED
    BY <2>4, <2>5
    DEF HandleHidIn, TypeOK, PortTypes, DeviceTypes, ThreadTypes, UserTypes,
        HubTypes, portVars, usbVars, threadVars, userVars, hubVars
<1> QED
  BY <1>1, <1>2

LEMMA TypeFrames ==
    ASSUME TypeOK, NEW u \in Urbs
    PROVE  /\ HandleHidOut(u) => TypeOK'
           /\ EnqueueInterfaceEvent(u) => TypeOK'
           /\ HandleOtherInterface(u) => TypeOK'
           /\ HandleFeatureSet(u) => TypeOK'
           /\ RequestFeature(u) => TypeOK'
           /\ giving = u /\ DeliverIsoOut => TypeOK'
<1>a. ASSUME /\ events' \in Seq(Event) /\ next_sequence' \in Nat
             /\ pc' \in [Urbs -> Steps] /\ ret' \in [Urbs -> Results]
             /\ giveback' \in {"wait", "deliver", "complete", "exited"}
             /\ UNCHANGED <<ctx, request, status, ready_time, report, unlinked,
                            born, listVars, input_packets, now, pacingVars,
                            portVars, usbVars, giving, userVars, epoch,
                            hubVars>>
      PROVE  TypeOK'
  BY <1>a
  DEF TypeOK, ContextTypes, ListTypes, QueueTypes, ClockTypes, PortTypes,
      DeviceTypes, ThreadTypes, UserTypes, HubTypes, listVars, pacingVars,
      usbVars, userVars, hubVars, portVars
<1>b. giveback \in {"wait", "deliver", "complete", "exited"}
  BY DEF TypeOK, ThreadTypes
<1>1. ASSUME HandleHidOut(u) PROVE TypeOK'
  <2>1. events' \in Seq(Event) /\ next_sequence' \in Nat
    BY <1>1, EnqueueBestEffortTypes DEF HandleHidOut, FrameTypes
  <2>2. pc' \in [Urbs -> Steps] /\ ret' \in [Urbs -> Results]
    BY <1>1, HandlerReturnsTypes DEF HandleHidOut, Results
  <2> QED
    BY <1>1, <1>a, <1>b, <2>1, <2>2 DEF HandleHidOut, threadVars
<1>2. ASSUME EnqueueInterfaceEvent(u) PROVE TypeOK'
  <2>1. events' \in Seq(Event) /\ next_sequence' \in Nat
    BY <1>2, EnqueueBestEffortTypes DEF EnqueueInterfaceEvent, FrameTypes
  <2>2. pc' \in [Urbs -> Steps] /\ ret' \in [Urbs -> Results]
    BY <1>2, HandlerReturnsTypes DEF EnqueueInterfaceEvent, Results
  <2> QED
    BY <1>2, <1>a, <1>b, <2>1, <2>2 DEF EnqueueInterfaceEvent, threadVars
<1>3. ASSUME HandleOtherInterface(u) PROVE TypeOK'
  <2>1. events' \in Seq(Event) /\ next_sequence' \in Nat
    BY <1>3, EnqueueBestEffortTypes DEF HandleOtherInterface, FrameTypes
  <2>2. pc' \in [Urbs -> Steps] /\ ret' \in [Urbs -> Results]
    BY <1>3, HandlerReturnsTypes DEF HandleOtherInterface, Results
  <2> QED
    BY <1>3, <1>a, <1>b, <2>1, <2>2 DEF HandleOtherInterface, threadVars
<1>4. ASSUME HandleFeatureSet(u) PROVE TypeOK'
  <2>1. events' \in Seq(Event) /\ next_sequence' \in Nat
    <3>1. CASE CanEnqueue
      BY <1>4, <3>1, EnqueueFrameTypes DEF HandleFeatureSet, FrameTypes
    <3>2. CASE ~CanEnqueue
      BY <1>4, <3>2 DEF HandleFeatureSet, TypeOK, QueueTypes, eventVars
    <3> QED
      BY <3>1, <3>2
  <2>2. pc' \in [Urbs -> Steps] /\ ret' \in [Urbs -> Results]
    <3>1. PICK result \in {"ok", "ESHUTDOWN", "ENOSPC"} :
              HandlerReturns(u, result)
      BY <1>4 DEF HandleFeatureSet
    <3> QED
      BY <3>1, HandlerReturnsTypes DEF Results
  <2> QED
    BY <1>4, <1>a, <1>b, <2>1, <2>2 DEF HandleFeatureSet, threadVars
<1>5. ASSUME RequestFeature(u) PROVE TypeOK'
  <2>1. events' \in Seq(Event) /\ next_sequence' \in Nat
    <3>1. CASE CanEnqueue
      BY <1>5, <3>1, EnqueueFrameTypes DEF RequestFeature, FrameTypes
    <3>2. CASE ~CanEnqueue
      BY <1>5, <3>2 DEF RequestFeature, TypeOK, QueueTypes, eventVars
    <3> QED
      BY <3>1, <3>2
  <2>2. pc' \in [Urbs -> Steps] /\ ret' \in [Urbs -> Results]
    BY <1>5, HandlerReturnsTypes, GotoTypes DEF RequestFeature, Results, Steps
  <2> QED
    BY <1>5, <1>a, <1>b, <2>1, <2>2 DEF RequestFeature, threadVars
<1>6. ASSUME giving = u, DeliverIsoOut PROVE TypeOK'
  <2>1. events' \in Seq(Event) /\ next_sequence' \in Nat
    BY <1>6, EnqueueBestEffortTypes DEF DeliverIsoOut, FrameTypes
  <2>2. pc \in [Urbs -> Steps] /\ ret \in [Urbs -> Results]
    BY DEF TypeOK, ContextTypes
  <2> QED
    BY <1>6, <1>a, <2>1, <2>2 DEF DeliverIsoOut, contextVars
<1> QED
  BY <1>1, <1>2, <1>3, <1>4, <1>5, <1>6

LEMMA TypeDeferFeatureGet ==
    ASSUME TypeOK, NEW u \in Urbs, DeferFeatureGet(u)
    PROVE  TypeOK'
<1>1. pc' \in [Urbs -> Steps] /\ ret' \in [Urbs -> Results]
  BY HandlerReturnsTypes, GotoTypes DEF DeferFeatureGet, Results, Steps
<1>2. ctx' \in [Urbs -> ContextStates] /\ pending_feature_get' \in Seq(Urbs)
  <2>1. CASE stopping
    BY <2>1 DEF DeferFeatureGet, TypeOK, ContextTypes, ListTypes
  <2>2. CASE ~stopping
    <3>1. /\ ctx' = [ctx EXCEPT ![u] = "PENDING_FEATURE_GET"]
          /\ pending_feature_get' = Append(pending_feature_get, u)
      BY <2>2 DEF DeferFeatureGet
    <3>2. ctx \in [Urbs -> ContextStates] /\ pending_feature_get \in Seq(Urbs)
      BY DEF TypeOK, ContextTypes, ListTypes
    <3> QED
      BY <3>1, <3>2 DEF ContextStates
  <2> QED
    BY <2>1, <2>2
<1> QED
  BY <1>1, <1>2
  DEF DeferFeatureGet, TypeOK, ContextTypes, ListTypes, QueueTypes, ClockTypes,
      PortTypes, DeviceTypes, ThreadTypes, UserTypes, HubTypes, eventVars,
      pacingVars, portVars, usbVars, threadVars, userVars, hubVars

LEMMA TypeScheduleIso ==
    ASSUME TypeOK, NEW u \in Urbs
    PROVE  ScheduleIsoOut(u) \/ ScheduleIsoIn(u) => TypeOK'
<1> SUFFICES ASSUME ScheduleIsoOut(u) \/ ScheduleIsoIn(u) PROVE TypeOK'
  OBVIOUS
<1>1. \A next \in {next_iso_out_ready, next_iso_in_ready} :
          NextReady(next, IsoDuration) \in Nat
  BY NextReadyType, BoundsAssumption DEF TypeOK, ClockTypes
<1>2. pc' \in [Urbs -> Steps] /\ ret' \in [Urbs -> Results]
  BY HandlerReturnsTypes DEF ScheduleIsoOut, ScheduleIsoIn, Results
<1>3. /\ \E ready \in Nat : ready_time' = [ready_time EXCEPT ![u] = ready]
      /\ ClockTypes'
  BY <1>1 DEF ScheduleIsoOut, ScheduleIsoIn, TypeOK, ClockTypes
<1>4. ready_time' \in [Urbs -> Nat]
  BY <1>3 DEF TypeOK, ContextTypes
<1>5. ContextTypes'
  BY <1>2, <1>4 DEF ScheduleIsoOut, ScheduleIsoIn, TypeOK, ContextTypes
<1> QED
  BY <1>3, <1>5
  DEF ScheduleIsoOut, ScheduleIsoIn, TypeOK, ListTypes, QueueTypes, PortTypes,
      DeviceTypes, ThreadTypes, UserTypes, HubTypes, listVars, eventVars,
      usbVars, threadVars, userVars, hubVars, portVars

LEMMA TypeConfiguration ==
    ASSUME TypeInv, NEW u \in Urbs
    PROVE  HandleSetConfiguration(u) \/ HandleSetInterface(u) => TypeOK'
<1> SUFFICES ASSUME HandleSetConfiguration(u) \/ HandleSetInterface(u)
             PROVE  TypeOK'
  OBVIOUS
<1>1. request[u].arg \in {0, 1}
  <2>1. pc[u] = "handle"
        /\ request[u].kind \in {"set_configuration", "set_interface"}
    BY DEF HandleSetConfiguration, HandleSetInterface, Handling
  <2>2. request[u] \in Requests
    BY <2>1 DEF TypeInv, RequestInv
  <2> QED
    BY <2>1, <2>2, RequestsAssumption
<1>2. pc' \in [Urbs -> Steps] /\ ret' \in [Urbs -> Results] /\ TypeOK
  BY GotoTypes DEF HandleSetConfiguration, HandleSetInterface, Steps, TypeInv
<1>3. ContextTypes'
  BY <1>2 DEF HandleSetConfiguration, HandleSetInterface, TypeOK, ContextTypes
<1>4. DeviceTypes'
  BY <1>1, <1>2
  DEF HandleSetConfiguration, HandleSetInterface, TypeOK, DeviceTypes
<1> QED
  BY <1>2, <1>3, <1>4
  DEF HandleSetConfiguration, HandleSetInterface, TypeOK, ListTypes, QueueTypes,
      ClockTypes, PortTypes, ThreadTypes, UserTypes, HubTypes, listVars,
      eventVars, pacingVars, portVars, threadVars, userVars, hubVars

LEMMA TypeQueueResult ==
    ASSUME TypeOK, NEW u \in Urbs, QueueResult(u)
    PROVE  TypeOK'
<1>1. ret[u] \in Results
  BY DEF TypeOK, ContextTypes
<1>2. /\ ctx' \in [Urbs -> ContextStates] /\ status' \in [Urbs -> Results]
      /\ ListTypes'
  BY <1>1, QueueGivebackLockedTypes DEF QueueResult
<1>3. ContextTypes'
  BY <1>2 DEF QueueResult, TypeOK, ContextTypes, Steps, Results
<1> QED
  BY <1>2, <1>3
  DEF QueueResult, TypeOK, QueueTypes, ClockTypes, PortTypes, DeviceTypes,
      ThreadTypes, UserTypes, HubTypes, eventVars, pacingVars, portVars,
      usbVars, threadVars, userVars, hubVars

LEMMA TypeUnlink ==
    ASSUME TypeOK, NEW u \in Urbs, DequeueUrb(u)
    PROVE  TypeOK'
<1>1. /\ ctx' \in [Urbs -> ContextStates] /\ status' \in [Urbs -> Results]
      /\ ListTypes' /\ ready_time' \in [Urbs -> Nat]
  <2>1. CASE ctx[u] = "PENDING_GIVEBACK"
    <3>1. /\ status' = [status EXCEPT ![u] = "UNLINKED"]
          /\ ready_time' = [ready_time EXCEPT ![u] = 0]
          /\ UNCHANGED <<ctx, listVars>>
      BY <2>1 DEF DequeueUrb
    <3>2. status' \in [Urbs -> Results] /\ ready_time' \in [Urbs -> Nat]
      BY <3>1 DEF TypeOK, ContextTypes, Results
    <3> QED
      BY <3>1, <3>2 DEF TypeOK, ContextTypes, ListTypes, listVars
  <2>2. CASE ctx[u] # "PENDING_GIVEBACK"
    <3>1. /\ QueueGivebackLocked(u, "UNLINKED")
          /\ ready_time' = ready_time
          /\ "UNLINKED" \in Results
      BY <2>2 DEF DequeueUrb, Results
    <3>2. ready_time' \in [Urbs -> Nat]
      BY <3>1 DEF TypeOK, ContextTypes
    <3>3. /\ ctx' \in [Urbs -> ContextStates]
          /\ status' \in [Urbs -> Results]
          /\ ListTypes'
      BY <3>1, QueueGivebackLockedTypes
    <3> QED
      BY <3>2, <3>3
  <2> QED
    BY <2>1, <2>2
<1> QED
  BY <1>1
  DEF DequeueUrb, TypeOK, ContextTypes, QueueTypes, ClockTypes, PortTypes,
      DeviceTypes, ThreadTypes, UserTypes, HubTypes, eventVars, pacingVars,
      portVars, usbVars, threadVars, userVars, hubVars

(***************************************************************************)
(* The giveback thread, the sessions and the hub thread.                   *)
(***************************************************************************)
LEMMA TypeTakeCompleted ==
    ASSUME TypeOK, TakeCompleted
    PROVE  TypeOK'
<1>1. Head(completed_urbs) \in Urbs /\ Tail(completed_urbs) \in Seq(Urbs)
  BY DEF TakeCompleted, TypeOK, ListTypes
<1>2. ctx' \in [Urbs -> ContextStates]
  BY DEF TakeCompleted, TypeOK, ContextTypes, ContextStates
<1> QED
  BY <1>1, <1>2
  DEF TakeCompleted, TypeOK, ContextTypes, ListTypes, QueueTypes, ClockTypes,
      PortTypes, DeviceTypes, ThreadTypes, UserTypes, HubTypes, eventVars,
      pacingVars, portVars, usbVars, userVars, hubVars

LEMMA TypeRead ==
    ASSUME TypeInv, NEW s \in Sessions, Read(s)
    PROVE  TypeOK'
<1>0. TypeOK
  BY DEF TypeInv
<1>1. /\ Head(events) = events[1] /\ 1 \in 1..Len(events)
      /\ Tail(events) \in Seq(Event) /\ Head(events) \in Event
  BY <1>0 DEF Read, TypeOK, QueueTypes
<1>2. asked' \in [Sessions -> SUBSET FeatureIds]
  <2>1. asked \in [Sessions -> SUBSET FeatureIds]
    BY <1>0 DEF TypeOK, UserTypes
  <2>2. CASE Head(events).type = "FEATURE_GET"
    <3> DEFINE u == Head(events).urb
    <3>1. u \in Urbs /\ ctx[u] # "UNUSED" /\ request[u].kind = "feature_get"
      BY <1>1, <2>2 DEF TypeInv, RequestInv, Event
    <3>2. request[u] \in Requests
      BY <3>1 DEF TypeInv, RequestInv
    <3>3. request[u].arg \in FeatureIds
      BY <3>1, <3>2, RequestsAssumption
    <3>4. asked' = [asked EXCEPT ![s] = @ \cup {request[u].arg}]
      BY <2>2 DEF Read
    <3> QED
      BY <2>1, <3>3, <3>4
  <2>3. CASE Head(events).type # "FEATURE_GET"
    BY <2>1, <2>3 DEF Read
  <2> QED
    BY <2>2, <2>3
<1> QED
  BY <1>0, <1>1, <1>2
  DEF Read, TypeOK, ContextTypes, ListTypes, QueueTypes, ClockTypes, PortTypes,
      DeviceTypes, ThreadTypes, UserTypes, HubTypes, contextVars, listVars,
      pacingVars, portVars, usbVars, threadVars, hubVars

LEMMA TypeWriteInput ==
    ASSUME TypeOK, NEW s \in Sessions, WriteInput(s)
    PROVE  TypeOK'
<1>0. written + 1 \in Nat
  BY DEF TypeOK, UserTypes
<1>1. CASE pending_hid_in # <<>>
  <2> DEFINE u == Head(pending_hid_in)
             ready == NextReady(next_hid_in_ready, HidInterval)
             queue == QueueGiveback(completed_urbs, ready_time, <<u>>, ready)
  <2>1. ready \in Nat
    BY NextReadyType, BoundsAssumption DEF TypeOK, ClockTypes
  <2>2. u \in Urbs /\ Tail(pending_hid_in) \in Seq(Urbs)
    BY <1>1 DEF TypeOK, ListTypes
  <2>3. queue \in Seq(Urbs)
    <3>1. /\ completed_urbs \in Seq(Urbs) /\ ready_time \in [Urbs -> Nat]
          /\ <<u>> \in Seq(Urbs)
      BY <2>2 DEF TypeOK, ListTypes, ContextTypes
    <3> HIDE DEF u, ready
    <3> QED
      BY <2>1, <3>1, QueueGivebackMembers
  <2>4. /\ report' = [report EXCEPT ![u] = written + 1]
        /\ ready_time' = [ready_time EXCEPT ![u] = ready]
        /\ next_hid_in_ready' = ready
        /\ ctx' = [ctx EXCEPT ![u] = "PENDING_GIVEBACK"]
        /\ status' = [status EXCEPT ![u] = "ok"]
        /\ pending_hid_in' = Tail(pending_hid_in)
        /\ completed_urbs' = queue
        /\ input_packets' = input_packets
    BY <1>1 DEF WriteInput
  <2> HIDE DEF u, ready, queue
  <2>5. /\ ctx' \in [Urbs -> ContextStates] /\ status' \in [Urbs -> Results]
        /\ report' \in [Urbs -> Nat] /\ ready_time' \in [Urbs -> Nat]
    BY <1>0, <2>1, <2>2, <2>4
    DEF TypeOK, ContextTypes, ContextStates, Results
  <2>6. ContextTypes' /\ ListTypes'
    BY <2>2, <2>3, <2>4, <2>5 DEF WriteInput, TypeOK, ContextTypes, ListTypes
  <2>7. QueueTypes' /\ ClockTypes' /\ UserTypes'
    BY <1>0, <2>1, <2>4
    DEF WriteInput, TypeOK, QueueTypes, ClockTypes, UserTypes, eventVars
  <2> QED
    BY <2>6, <2>7
    DEF WriteInput, TypeOK, PortTypes, DeviceTypes, ThreadTypes, HubTypes,
        portVars, usbVars, threadVars, hubVars
<1>2. CASE pending_hid_in = <<>>
  <2>1. input_packets' \in Seq(Nat)
    <3>1. input_packets' = <<written + 1>>
      BY <1>2 DEF WriteInput, Buffered
    <3> QED
      BY <1>0, <3>1
  <2>2. ContextTypes' /\ ListTypes'
    BY <1>2 DEF WriteInput, TypeOK, ContextTypes, ListTypes
  <2> QED
    BY <1>0, <1>2, <2>1, <2>2
    DEF WriteInput, TypeOK, QueueTypes, ClockTypes, PortTypes, DeviceTypes,
        ThreadTypes, UserTypes, HubTypes, eventVars, portVars, usbVars,
        threadVars, hubVars
<1> QED
  BY <1>1, <1>2

LEMMA TypeCompleteReply ==
    ASSUME TypeOK, NEW s \in Sessions, CompleteReply(s)
    PROVE  TypeOK'
<1>1. UserTypes'
  BY DEF CompleteReply, TypeOK, UserTypes, UserStates
<1>2. /\ ctx' \in [Urbs -> ContextStates] /\ status' \in [Urbs -> Results]
      /\ pending_feature_get' \in Seq(Urbs) /\ completed_urbs' \in Seq(Urbs)
  <2>1. CASE stopping
    BY <2>1 DEF CompleteReply, TypeOK, ContextTypes, ListTypes
  <2>2. CASE ~stopping
    <3> DEFINE answered == Answered(replying[s])
    <3>1. PICK done \in InListOrder(pending_feature_get, answered) :
              completed_urbs' =
                  QueueGiveback(completed_urbs, ready_time, done, 0)
      BY <2>2 DEF CompleteReply
    <3>2. /\ ctx' = [u \in Urbs |-> IF u \in answered
                                    THEN "PENDING_GIVEBACK" ELSE ctx[u]]
          /\ status' = [u \in Urbs |-> IF u \in answered
                                       THEN "ok" ELSE status[u]]
          /\ pending_feature_get' \in
                 InListOrder(pending_feature_get, Urbs \ answered)
      BY <2>2 DEF CompleteReply
    <3> HIDE DEF answered
    <3>3. /\ pending_feature_get \in Seq(Urbs) /\ completed_urbs \in Seq(Urbs)
          /\ ready_time \in [Urbs -> Nat] /\ 0 \in Nat
          /\ ctx \in [Urbs -> ContextStates] /\ status \in [Urbs -> Results]
      BY DEF TypeOK, ContextTypes, ListTypes
    <3>4. done \in Seq(Urbs) /\ pending_feature_get' \in Seq(Urbs)
      BY <3>2, <3>3, InListOrderMembers
    <3>5. completed_urbs' \in Seq(Urbs)
      BY <3>1, <3>3, <3>4, QueueGivebackMembers
    <3>6. ctx' \in [Urbs -> ContextStates] /\ status' \in [Urbs -> Results]
      BY <3>2, <3>3 DEF ContextStates, Results
    <3> QED
      BY <3>4, <3>5, <3>6
  <2> QED
    BY <2>1, <2>2
<1>3. ContextTypes' /\ ListTypes'
  BY <1>2 DEF CompleteReply, TypeOK, ContextTypes, ListTypes
<1> QED
  BY <1>1, <1>3
  DEF CompleteReply, TypeOK, QueueTypes, ClockTypes, PortTypes, DeviceTypes,
      ThreadTypes, HubTypes, eventVars, pacingVars, portVars, usbVars,
      threadVars, hubVars

LEMMA TypeConnect ==
    ASSUME TypeOK, NEW s \in Sessions, Connect(s)
    PROVE  TypeOK'
<1>1. PortTypes'
  BY DEF Connect, PortConnected, TypeOK, PortTypes, UsbPortBits, StatusFlags,
         portVars
<1>2. HubTypes'
  BY DEF Connect, TypeOK, HubTypes, hubVars
<1> QED
  BY <1>1, <1>2
  DEF Connect, TypeOK, ContextTypes, ListTypes, QueueTypes, ClockTypes,
      DeviceTypes, ThreadTypes, UserTypes, contextVars, listVars, eventVars,
      pacingVars, usbVars, threadVars, userVars

LEMMA TypeDisconnect ==
    ASSUME TypeOK, NEW s \in Sessions
    PROVE  Disconnect(s) \/ ReleaseDisconnects(s) => TypeOK'
<1> SUFFICES ASSUME Disconnect(s) \/ ReleaseDisconnects(s)
             PROVE  TypeOK'
  OBVIOUS
<1>1. /\ CancelPending /\ FlushBufferedFrames /\ DisconnectLocked
      /\ \E state \in UserStates : user' = [user EXCEPT ![s] = state]
  BY DEF Disconnect, ReleaseDisconnects, DisconnectLocked, UserStates
<1>2. /\ ctx' \in [Urbs -> ContextStates] /\ status' \in [Urbs -> Results]
      /\ ListTypes'
  BY <1>1, CancelPendingTypes
<1>3. PortTypes' /\ HubTypes' /\ ClockTypes'
  BY <1>1
  DEF DisconnectLocked, PortDisconnected, TypeOK, PortTypes, HubTypes,
      ClockTypes, UsbPortBits, hubVars
<1>4. UserTypes'
  BY <1>1 DEF DisconnectLocked, TypeOK, UserTypes
<1>5. QueueTypes' /\ DeviceTypes' /\ ThreadTypes'
  BY <1>1
  DEF DisconnectLocked, FlushBufferedFrames, TypeOK, QueueTypes, DeviceTypes,
      ThreadTypes, usbVars, threadVars
<1> QED
  BY <1>1, <1>2, <1>3, <1>4, <1>5 DEF DisconnectLocked, TypeOK, ContextTypes

LEMMA TypeHub ==
    ASSUME TypeOK
    PROVE  HubEnumerates \/ StopHcd => TypeOK'
<1>1. ASSUME HubEnumerates PROVE TypeOK'
  <2>1. PortTypes'
    BY <1>1 DEF HubEnumerates, TypeOK, PortTypes, UsbPortBits, portVars
  <2>2. HubTypes'
    BY <1>1 DEF HubEnumerates, TypeOK, HubTypes, hubVars
  <2> QED
    BY <1>1, <2>1, <2>2
    DEF HubEnumerates, TypeOK, ContextTypes, ListTypes, QueueTypes, ClockTypes,
        DeviceTypes, ThreadTypes, UserTypes, contextVars, listVars, eventVars,
        pacingVars, usbVars, threadVars, userVars
<1>2. ASSUME StopHcd PROVE TypeOK'
  <2>1. /\ ctx' \in [Urbs -> ContextStates] /\ status' \in [Urbs -> Results]
        /\ ListTypes'
    BY <1>2, CancelPendingTypes DEF StopHcd
  <2>2. QueueTypes' /\ HubTypes' /\ PortTypes'
    BY <1>2 DEF StopHcd, FlushBufferedFrames, TypeOK, QueueTypes, HubTypes,
                PortTypes
  <2> QED
    BY <1>2, <2>1, <2>2
    DEF StopHcd, TypeOK, ContextTypes, ClockTypes, DeviceTypes, ThreadTypes,
        UserTypes, pacingVars, usbVars, threadVars, userVars
<1> QED
  BY <1>1, <1>2

(***************************************************************************)
(* RequestInv: requests and feature frames.                                *)
(***************************************************************************)

(* Every feature request in a queue of frames stands for a GET_REPORT.     *)
GetFrames(queue) ==
    \A i \in 1..Len(queue) :
        queue[i].type = "FEATURE_GET"
        => /\ ctx[queue[i].urb] # "UNUSED"
           /\ request[queue[i].urb].kind = "feature_get"

LEMMA FrameUrbs ==
    ASSUME NEW queue \in Seq(Event)
    PROVE  \A i \in 1..Len(queue) : queue[i].urb \in Urbs
<1> SUFFICES ASSUME NEW i \in 1..Len(queue) PROVE queue[i].urb \in Urbs
  OBVIOUS
<1>1. queue[i] \in Event
  OBVIOUS
<1> QED
  BY <1>1 DEF Event

(* A step that starts no submission and no handler keeps RequestInv.       *)
LEMMA RequestKept ==
    ASSUME RequestInv, request' = request,
           \A u \in Urbs : ctx[u] # "UNUSED" <=> ctx'[u] # "UNUSED",
           \A u \in Urbs : pc'[u] # "none" => pc[u] # "none",
           \A u \in Urbs : pc'[u] \in {"defer", "request"}
                               => request[u].kind = "feature_get",
           events' \in Seq(Event), GetFrames(events')
    PROVE  RequestInv'
<1>1. \A i \in 1..Len(events') : events'[i].urb \in Urbs
  BY FrameUrbs
<1> QED
  BY <1>1 DEF RequestInv, GetFrames

LEMMA GetFramesAppend ==
    ASSUME TypeOK, RequestInv, NEW type \in FrameTypes, NEW u \in Urbs,
           type = "FEATURE_GET" => /\ ctx[u] # "UNUSED"
                                   /\ request[u].kind = "feature_get",
           EnqueueFrame(type, u)
    PROVE  GetFrames(events')
<1> DEFINE e == [type |-> type, urb |-> u, sequence |-> next_sequence]
<1>1. events \in Seq(Event) /\ e \in Event
  BY DEF TypeOK, QueueTypes, Event
<1>2. events' = Append(events, e) /\ e.type = type /\ e.urb = u
  BY DEF EnqueueFrame
<1> HIDE DEF e
<1>3. SUFFICES ASSUME NEW i \in 1..Len(events'),
                      events'[i].type = "FEATURE_GET"
               PROVE  /\ ctx[events'[i].urb] # "UNUSED"
                      /\ request[events'[i].urb].kind = "feature_get"
  BY DEF GetFrames
<1>4. CASE i \in 1..Len(events)
  <2>1. events'[i] = events[i]
    BY <1>1, <1>2, <1>4
  <2> QED
    BY <1>3, <1>4, <2>1 DEF RequestInv
<1>5. CASE i = Len(events) + 1
  <2>1. events'[i] = e
    BY <1>1, <1>2, <1>5
  <2> QED
    BY <1>2, <1>3, <2>1
<1>6. i \in 1..Len(events) \/ i = Len(events) + 1
  BY <1>1, <1>2
<1> QED
  BY <1>4, <1>5, <1>6

LEMMA GetFramesBestEffort ==
    ASSUME TypeOK, RequestInv, NEW type \in FrameTypes \ {"FEATURE_GET"},
           NEW u \in Urbs, EnqueueBestEffort(type, u)
    PROVE  events' \in Seq(Event) /\ GetFrames(events')
<1>1. events' \in Seq(Event)
  BY EnqueueBestEffortTypes
<1>2. CASE CanEnqueue
  BY <1>1, <1>2, GetFramesAppend DEF EnqueueBestEffort
<1>3. CASE ~CanEnqueue
  BY <1>1, <1>3 DEF EnqueueBestEffort, eventVars, GetFrames, RequestInv
<1> QED
  BY <1>2, <1>3, <1>1

LEMMA GetFramesKept ==
    ASSUME TypeOK, RequestInv,
           \/ events' = events
           \/ events' = <<>>
           \/ events # <<>> /\ events' = Tail(events)
    PROVE  events' \in Seq(Event) /\ GetFrames(events')
<1>1. events \in Seq(Event)
  BY DEF TypeOK, QueueTypes
<1>2. CASE events' = events
  BY <1>1, <1>2 DEF GetFrames, RequestInv
<1>3. CASE events' = <<>>
  BY <1>3 DEF GetFrames
<1>4. CASE events # <<>> /\ events' = Tail(events)
  <2>1. /\ events' \in Seq(Event)
        /\ \A i \in 1..Len(events') :
               i + 1 \in 1..Len(events) /\ events'[i] = events[i + 1]
    BY <1>1, <1>4
  <2> QED
    BY <2>1 DEF GetFrames, RequestInv
<1> QED
  BY <1>2, <1>3, <1>4

LEMMA RequestSubmit ==
    ASSUME TypeOK, RequestInv, NEW u \in Urbs, NEW r \in Requests, Submit(u, r)
    PROVE  RequestInv'
<1>1. events' = events /\ \A i \in 1..Len(events) : events[i].urb \in Urbs
  BY FrameUrbs DEF Submit, eventVars, TypeOK, QueueTypes
<1>2. /\ ctx' = [ctx EXCEPT ![u] = "ACTIVE"]
      /\ pc' = [pc EXCEPT ![u] = "handle"]
      /\ request' = [request EXCEPT ![u] = r] /\ ctx[u] = "UNUSED"
  BY DEF Submit
<1>3. ctx \in [Urbs -> ContextStates] /\ pc \in [Urbs -> Steps]
      /\ request \in [Urbs -> Request]
  BY DEF TypeOK, ContextTypes
<1> QED
  BY <1>1, <1>2, <1>3 DEF RequestInv

(* Handlers that leave the frames alone.                                   *)
LEMMA RequestHandlers ==
    ASSUME TypeOK, RequestInv, NEW u \in Urbs,
           \/ HandleOther(u) \/ HandleHidIn(u) \/ HandleFeatureGet(u)
           \/ DeferFeatureGet(u) \/ HandleSetConfiguration(u)
           \/ SetConfiguredStatus(u) \/ ClearAudioStatus(u)
           \/ HandleSetInterface(u) \/ SetAudioStatus(u)
           \/ ScheduleIsoOut(u) \/ ScheduleIsoIn(u)
    PROVE  RequestInv'
<1>1. pc[u] # "none" /\ request' = request /\ events' = events
  BY DEF HandleOther, HandleHidIn, HandleFeatureGet, DeferFeatureGet,
         HandleSetConfiguration, SetConfiguredStatus, ClearAudioStatus,
         HandleSetInterface, SetAudioStatus, ScheduleIsoOut, ScheduleIsoIn,
         Handling, eventVars
<1>2. \/ ctx' = ctx
      \/ \E state \in {"PENDING_HID_IN", "PENDING_FEATURE_GET"} :
             ctx' = [ctx EXCEPT ![u] = state]
  BY DEF HandleOther, HandleHidIn, HandleFeatureGet, DeferFeatureGet,
         HandleSetConfiguration, SetConfiguredStatus, ClearAudioStatus,
         HandleSetInterface, SetAudioStatus, ScheduleIsoOut, ScheduleIsoIn
<1>3. \E step \in Steps :
          /\ pc' = [pc EXCEPT ![u] = step]
          /\ step \in {"defer", "request"} => request[u].kind = "feature_get"
  BY DEF HandleOther, HandleHidIn, HandleFeatureGet, DeferFeatureGet,
         HandleSetConfiguration, SetConfiguredStatus, ClearAudioStatus,
         HandleSetInterface, SetAudioStatus, ScheduleIsoOut, ScheduleIsoIn,
         HandlerReturns, Goto, Handling, Steps, RequestInv
<1>4. ctx \in [Urbs -> ContextStates] /\ pc \in [Urbs -> Steps]
  BY DEF TypeOK, ContextTypes
<1>5. events' \in Seq(Event) /\ GetFrames(events')
  BY <1>1, GetFramesKept
<1>6. ctx[u] # "UNUSED"
  BY <1>1 DEF RequestInv
<1>7. \A v \in Urbs : ctx[v] # "UNUSED" <=> ctx'[v] # "UNUSED"
  BY <1>2, <1>4, <1>6
<1>8. \A v \in Urbs : /\ pc'[v] # "none" => pc[v] # "none"
                      /\ pc'[v] \in {"defer", "request"}
                             => request[v].kind = "feature_get"
  BY <1>1, <1>3, <1>4 DEF RequestInv
<1> QED
  BY <1>1, <1>5, <1>7, <1>8, RequestKept

(* Handlers that queue a frame.                                            *)
LEMMA RequestFrames ==
    ASSUME TypeOK, RequestInv, NEW u \in Urbs,
           \/ HandleHidOut(u) \/ HandleFeatureSet(u) \/ RequestFeature(u)
           \/ EnqueueInterfaceEvent(u) \/ HandleOtherInterface(u)
    PROVE  RequestInv'
<1>1. /\ pc[u] # "none" /\ request' = request /\ ctx' = ctx
      /\ \E step \in {"queue", "none"} : pc' = [pc EXCEPT ![u] = step]
  BY DEF HandleHidOut, HandleFeatureSet, RequestFeature, EnqueueInterfaceEvent,
         HandleOtherInterface, HandlerReturns, Goto, Handling
<1>2. events' \in Seq(Event) /\ GetFrames(events')
  <2>1. CASE HandleHidOut(u) \/ EnqueueInterfaceEvent(u)
             \/ HandleOtherInterface(u)
    <3>1. \E type \in FrameTypes \ {"FEATURE_GET"} : EnqueueBestEffort(type, u)
      BY <2>1 DEF HandleHidOut, EnqueueInterfaceEvent, HandleOtherInterface,
                  FrameTypes
    <3> QED
      BY <3>1, GetFramesBestEffort
  <2>2. CASE HandleFeatureSet(u) /\ CanEnqueue
    <3>1. EnqueueFrame("FEATURE_SET", u)
      BY <2>2 DEF HandleFeatureSet
    <3> QED
      BY <3>1, EnqueueFrameTypes, GetFramesAppend DEF FrameTypes
  <2>3. CASE RequestFeature(u) /\ CanEnqueue
    <3>1. /\ EnqueueFrame("FEATURE_GET", u)
          /\ ctx[u] # "UNUSED" /\ request[u].kind = "feature_get"
      BY <2>3 DEF RequestFeature, RequestInv
    <3> QED
      BY <3>1, EnqueueFrameTypes, GetFramesAppend DEF FrameTypes
  <2>4. CASE (HandleFeatureSet(u) \/ RequestFeature(u)) /\ ~CanEnqueue
    BY <2>4, GetFramesKept DEF HandleFeatureSet, RequestFeature, eventVars
  <2> QED
    BY <2>1, <2>2, <2>3, <2>4
<1>3. pc \in [Urbs -> Steps]
  BY DEF TypeOK, ContextTypes
<1>4. \A v \in Urbs : /\ pc'[v] # "none" => pc[v] # "none"
                      /\ pc'[v] \in {"defer", "request"}
                             => request[v].kind = "feature_get"
  BY <1>1, <1>3 DEF RequestInv
<1> QED
  BY <1>1, <1>2, <1>4, RequestKept


(***************************************************************************)
(* OnePlace: the lists of contexts.                                        *)
(*                                                                         *)
(* A context is appended to a list, or queued, on the strength of where    *)
(* its submitter and the giveback thread stand, so OnePlace is inductive   *)
(* only together with these two facts.                                     *)
(***************************************************************************)

(* A submission moves its own context until it has handed it over.         *)
ActiveSteps == {"handle", "defer", "configured", "audio_off", "audio",
                "interface_event"}
ActiveInv == \A u \in Urbs : pc[u] \in ActiveSteps => ctx[u] = "ACTIVE"

(* The giveback thread is between two critical sections exactly while it   *)
(* holds a context.                                                        *)
GivingInv == giving # NoUrb <=> giveback \in {"deliver", "complete"}

(* The inductive invariant behind the theorems below.                      *)
CoreInv == RequestInv /\ OnePlace /\ ActiveInv /\ GivingInv
IInv == TypeOK /\ CoreInv

(* One context changes its state.                                          *)
LEMMA StateMoved ==
    ASSUME TypeOK, NEW u \in Urbs, NEW new \in ContextStates,
           ctx' = [ctx EXCEPT ![u] = new], NEW state
    PROVE  InState(state)' = IF state = new THEN InState(state) \cup {u}
                                            ELSE InState(state) \ {u}
<1>1. \A v \in Urbs : ctx'[v] = IF v = u THEN new ELSE ctx[v]
  BY DEF TypeOK, ContextTypes
<1> QED
  BY <1>1 DEF InState

LEMMA PlaceKept ==
    ASSUME OnePlace, UNCHANGED <<ctx, listVars, giving>>
    PROVE  OnePlace'
<1>1. \A state : InState(state)' = InState(state)
  BY DEF InState
<1> QED
  BY <1>1 DEF OnePlace, listVars

(* What OnePlace says about each list, with its type.                      *)
LEMMA PlaceFacts ==
    ASSUME TypeOK, OnePlace
    PROVE  /\ pending_hid_in \in Seq(Urbs) /\ IsInjective(pending_hid_in)
           /\ pending_feature_get \in Seq(Urbs)
           /\ IsInjective(pending_feature_get)
           /\ completed_urbs \in Seq(Urbs) /\ IsInjective(completed_urbs)
           /\ ready_time \in [Urbs -> Nat]
BY DEF TypeOK, ContextTypes, ListTypes, OnePlace

(* The new state of the contexts after a step, list by list.               *)
LEMMA PlaceMade ==
    ASSUME Range(pending_hid_in') = InState("PENDING_HID_IN")',
           Range(pending_feature_get') = InState("PENDING_FEATURE_GET")',
           Range(completed_urbs') = InState("PENDING_GIVEBACK")',
           IsInjective(pending_hid_in'), IsInjective(pending_feature_get'),
           IsInjective(completed_urbs'),
           InState("GIVING_BACK")' = {giving'} \ {NoUrb}
    PROVE  OnePlace'
BY DEF OnePlace

(* A block of contexts that were not queued joins the completion queue.    *)
LEMMA PlaceBlock ==
    ASSUME TypeOK, OnePlace, NEW urbs \in Seq(Urbs), IsInjective(urbs),
           NEW time \in Nat,
           Range(urbs) \cap InState("PENDING_GIVEBACK") = {},
           completed_urbs' = QueueGiveback(completed_urbs, ready_time, urbs,
                                           time)
    PROVE  /\ Range(completed_urbs') =
                  InState("PENDING_GIVEBACK") \cup Range(urbs)
           /\ IsInjective(completed_urbs')
<1> DEFINE q == QueueGiveback(completed_urbs, ready_time, urbs, time)
<1>1. /\ completed_urbs \in Seq(Urbs) /\ IsInjective(completed_urbs)
      /\ ready_time \in [Urbs -> Nat]
  BY PlaceFacts
<1>2. Range(completed_urbs) = InState("PENDING_GIVEBACK")
  BY DEF OnePlace
<1>3. /\ Range(q) = Range(completed_urbs) \cup Range(urbs)
      /\ IsInjective(q)
  <2> HIDE DEF q
  <2>1. /\ Range(q) = Range(completed_urbs) \cup Range(urbs)
        /\ IsInjective(completed_urbs) /\ IsInjective(urbs)
           /\ Range(completed_urbs) \cap Range(urbs) = {} => IsInjective(q)
    BY <1>1, QueueGivebackMembers DEF q
  <2> QED
    BY <1>1, <1>2, <2>1
<1> QED
  BY <1>2, <1>3

(* vds_queue_urb_giveback_locked takes the context off whatever list it is *)
(* on and queues it once.                                                  *)
LEMMA PlaceQueueGivebackLocked ==
    ASSUME TypeOK, OnePlace, NEW u \in Urbs, NEW result,
           QueueGivebackLocked(u, result), giving' = giving
    PROVE  OnePlace'
<1>1. CASE GivebackRefused(u)
  BY <1>1, PlaceKept DEF QueueGivebackLocked
<1>2. CASE ~GivebackRefused(u)
  <2>1. /\ ctx' = [ctx EXCEPT ![u] = "PENDING_GIVEBACK"]
        /\ pending_hid_in' = ListDel(pending_hid_in, u)
        /\ pending_feature_get' = ListDel(pending_feature_get, u)
        /\ completed_urbs' = QueueGiveback(completed_urbs, ready_time, <<u>>,
                                           ready_time[u])
    BY <1>2 DEF QueueGivebackLocked
  <2>2. \A state : InState(state)' = IF state = "PENDING_GIVEBACK"
                                     THEN InState(state) \cup {u}
                                     ELSE InState(state) \ {u}
    BY <2>1, StateMoved DEF ContextStates
  <2>3. u \notin InState("PENDING_GIVEBACK") /\ u \notin InState("GIVING_BACK")
    BY <1>2 DEF GivebackRefused, InState
  <2>4. /\ Range(pending_hid_in') = Range(pending_hid_in) \ {u}
        /\ IsInjective(pending_hid_in')
        /\ Range(pending_feature_get') = Range(pending_feature_get) \ {u}
        /\ IsInjective(pending_feature_get')
    BY <2>1, PlaceFacts, ListDelMembers
  <2>5. /\ Range(completed_urbs') = Range(completed_urbs) \cup {u}
        /\ IsInjective(completed_urbs')
    <3>1. <<u>> \in Seq(Urbs) /\ Range(<<u>>) = {u} /\ IsInjective(<<u>>)
      BY Singleton
    <3>2. Range(<<u>>) \cap InState("PENDING_GIVEBACK") = {}
      BY <2>3, <3>1
    <3>3. ready_time[u] \in Nat
      BY PlaceFacts
    <3> QED
      BY <2>1, <3>1, <3>2, <3>3, PlaceBlock DEF OnePlace
  <2>6. /\ InState("PENDING_HID_IN")' = InState("PENDING_HID_IN") \ {u}
        /\ InState("PENDING_FEATURE_GET")' =
               InState("PENDING_FEATURE_GET") \ {u}
        /\ InState("PENDING_GIVEBACK")' = InState("PENDING_GIVEBACK") \cup {u}
        /\ InState("GIVING_BACK")' = InState("GIVING_BACK")
    BY <2>2, <2>3
  <2> QED
    BY <2>4, <2>5, <2>6, PlaceMade DEF OnePlace
<1> QED
  BY <1>1, <1>2

(* A new submission is on no list.                                         *)
LEMMA PlaceSubmit ==
    ASSUME TypeOK, OnePlace, NEW u \in Urbs, NEW r \in Requests, Submit(u, r)
    PROVE  OnePlace'
<1>1. /\ ctx' = [ctx EXCEPT ![u] = "ACTIVE"] /\ ctx[u] = "UNUSED"
      /\ giving' = giving /\ UNCHANGED listVars
  BY DEF Submit, threadVars
<1>2. \A state : u \in InState(state) => state = "UNUSED"
  BY <1>1 DEF InState
<1>3. \A state : InState(state)' = IF state = "ACTIVE"
                                   THEN InState(state) \cup {u}
                                   ELSE InState(state) \ {u}
  BY <1>1, StateMoved DEF ContextStates
<1>4. \A state \in {"PENDING_HID_IN", "PENDING_FEATURE_GET",
                    "PENDING_GIVEBACK", "GIVING_BACK"} :
          InState(state)' = InState(state)
  BY <1>2, <1>3
<1> QED
  BY <1>1, <1>4 DEF OnePlace, listVars

(* A handler that lets its URB wait for data.                              *)
LEMMA PlaceWait ==
    ASSUME TypeOK, OnePlace, NEW u \in Urbs, ctx[u] = "ACTIVE",
           UNCHANGED <<completed_urbs, giving>>,
           \/ /\ ctx' = [ctx EXCEPT ![u] = "PENDING_HID_IN"]
              /\ pending_hid_in' = Append(pending_hid_in, u)
              /\ UNCHANGED pending_feature_get
           \/ /\ ctx' = [ctx EXCEPT ![u] = "PENDING_FEATURE_GET"]
              /\ pending_feature_get' = Append(pending_feature_get, u)
              /\ UNCHANGED pending_hid_in
    PROVE  OnePlace'
<1>1. \A state : u \in InState(state) => state = "ACTIVE"
  BY DEF InState
<1>2. CASE ctx' = [ctx EXCEPT ![u] = "PENDING_HID_IN"]
  <2>1. \A state : InState(state)' = IF state = "PENDING_HID_IN"
                                     THEN InState(state) \cup {u}
                                     ELSE InState(state) \ {u}
    BY <1>2, StateMoved DEF ContextStates
  <2>2. /\ pending_hid_in' = Append(pending_hid_in, u)
        /\ UNCHANGED pending_feature_get
    <3>1. ctx'[u] = "PENDING_HID_IN"
      BY <1>2 DEF TypeOK, ContextTypes
    <3> QED
      BY <3>1 DEF TypeOK, ContextTypes
  <2>3. u \notin Range(pending_hid_in)
    BY <1>1 DEF OnePlace
  <2>4. /\ Range(pending_hid_in') = Range(pending_hid_in) \cup {u}
        /\ IsInjective(pending_hid_in')
    BY <2>2, <2>3, PlaceFacts, AppendMembers
  <2>5. /\ InState("PENDING_HID_IN")' = InState("PENDING_HID_IN") \cup {u}
        /\ InState("PENDING_FEATURE_GET")' = InState("PENDING_FEATURE_GET")
        /\ InState("PENDING_GIVEBACK")' = InState("PENDING_GIVEBACK")
        /\ InState("GIVING_BACK")' = InState("GIVING_BACK")
    BY <1>1, <2>1
  <2> QED
    BY <2>2, <2>4, <2>5, PlaceMade DEF OnePlace
<1>3. CASE ctx' = [ctx EXCEPT ![u] = "PENDING_FEATURE_GET"]
  <2>1. \A state : InState(state)' = IF state = "PENDING_FEATURE_GET"
                                     THEN InState(state) \cup {u}
                                     ELSE InState(state) \ {u}
    BY <1>3, StateMoved DEF ContextStates
  <2>2. /\ pending_feature_get' = Append(pending_feature_get, u)
        /\ UNCHANGED pending_hid_in
    <3>1. ctx'[u] = "PENDING_FEATURE_GET"
      BY <1>3 DEF TypeOK, ContextTypes
    <3> QED
      BY <3>1 DEF TypeOK, ContextTypes
  <2>3. u \notin Range(pending_feature_get)
    BY <1>1 DEF OnePlace
  <2>4. /\ Range(pending_feature_get') = Range(pending_feature_get) \cup {u}
        /\ IsInjective(pending_feature_get')
    BY <2>2, <2>3, PlaceFacts, AppendMembers
  <2>5. /\ InState("PENDING_HID_IN")' = InState("PENDING_HID_IN")
        /\ InState("PENDING_FEATURE_GET")' =
               InState("PENDING_FEATURE_GET") \cup {u}
        /\ InState("PENDING_GIVEBACK")' = InState("PENDING_GIVEBACK")
        /\ InState("GIVING_BACK")' = InState("GIVING_BACK")
    BY <1>1, <2>1
  <2> QED
    BY <2>2, <2>4, <2>5, PlaceMade DEF OnePlace
<1> QED
  BY <1>2, <1>3

(* The giveback thread takes the head of the queue ...                     *)
LEMMA PlaceTakeCompleted ==
    ASSUME TypeOK, OnePlace, GivingInv, TakeCompleted
    PROVE  OnePlace'
<1> DEFINE u == Head(completed_urbs)
<1>1. /\ ctx' = [ctx EXCEPT ![u] = "GIVING_BACK"] /\ giving' = u
      /\ completed_urbs # <<>> /\ completed_urbs' = Tail(completed_urbs)
      /\ UNCHANGED <<pending_hid_in, pending_feature_get>>
      /\ giveback = "wait"
  BY DEF TakeCompleted
<1>2. /\ u \in Urbs /\ u \in Range(completed_urbs)
      /\ Range(completed_urbs') = Range(completed_urbs) \ {u}
      /\ IsInjective(completed_urbs')
  BY <1>1, PlaceFacts, TailMembers
<1> HIDE DEF u
<1>3. u \in InState("PENDING_GIVEBACK")
  BY <1>2 DEF OnePlace
<1>4. \A state : u \in InState(state) => state = "PENDING_GIVEBACK"
  BY <1>3 DEF InState
<1>5. \A state : InState(state)' = IF state = "GIVING_BACK"
                                   THEN InState(state) \cup {u}
                                   ELSE InState(state) \ {u}
  BY <1>1, <1>2, StateMoved DEF ContextStates
<1>6. /\ InState("PENDING_HID_IN")' = InState("PENDING_HID_IN")
      /\ InState("PENDING_FEATURE_GET")' = InState("PENDING_FEATURE_GET")
      /\ InState("PENDING_GIVEBACK")' = InState("PENDING_GIVEBACK") \ {u}
      /\ InState("GIVING_BACK")' = InState("GIVING_BACK") \cup {u}
  BY <1>4, <1>5
<1>7. InState("GIVING_BACK") = {} /\ u # NoUrb
  BY <1>1, <1>2, DistinctAssumption DEF OnePlace, GivingInv
<1> QED
  BY <1>1, <1>2, <1>6, <1>7, PlaceMade DEF OnePlace

(* ... and gives it back.                                                  *)
LEMMA PlaceGivebackUrb ==
    ASSUME TypeOK, OnePlace, GivingInv, GivebackUrb
    PROVE  OnePlace'
<1>1. /\ ctx' = [ctx EXCEPT ![giving] = "FREED"] /\ giving' = NoUrb
      /\ UNCHANGED listVars /\ giveback = "complete"
  BY DEF GivebackUrb
<1>2. giving \in Urbs
  BY <1>1 DEF GivingInv, TypeOK, ThreadTypes
<1>3. InState("GIVING_BACK") = {giving}
  BY <1>2, DistinctAssumption DEF OnePlace
<1>4. \A state : giving \in InState(state) => state = "GIVING_BACK"
  BY <1>3 DEF InState
<1>5. \A state : InState(state)' = IF state = "FREED"
                                   THEN InState(state) \cup {giving}
                                   ELSE InState(state) \ {giving}
  BY <1>1, <1>2, StateMoved DEF ContextStates
<1>6. /\ InState("PENDING_HID_IN")' = InState("PENDING_HID_IN")
      /\ InState("PENDING_FEATURE_GET")' = InState("PENDING_FEATURE_GET")
      /\ InState("PENDING_GIVEBACK")' = InState("PENDING_GIVEBACK")
      /\ InState("GIVING_BACK")' = {}
  BY <1>3, <1>4, <1>5
<1> QED
  BY <1>1, <1>6 DEF OnePlace, listVars

(* A snapshot completes the first URB that waits for one.                  *)
LEMMA PlaceWriteInput ==
    ASSUME TypeOK, OnePlace, NEW s \in Sessions, WriteInput(s)
    PROVE  OnePlace'
<1>0. giving' = giving /\ UNCHANGED pending_feature_get
  BY DEF WriteInput, threadVars
<1>1. CASE pending_hid_in = <<>>
  BY <1>0, <1>1, PlaceKept DEF WriteInput, listVars
<1>2. CASE pending_hid_in # <<>>
  <2> DEFINE u == Head(pending_hid_in)
             ready == NextReady(next_hid_in_ready, HidInterval)
  <2>1. /\ ctx' = [ctx EXCEPT ![u] = "PENDING_GIVEBACK"]
        /\ pending_hid_in' = Tail(pending_hid_in)
        /\ completed_urbs' =
               QueueGiveback(completed_urbs, ready_time, <<u>>, ready)
    BY <1>2 DEF WriteInput
  <2>2. ready \in Nat
    BY NextReadyType, BoundsAssumption DEF TypeOK, ClockTypes
  <2>3. /\ u \in Urbs /\ u \in Range(pending_hid_in)
        /\ Range(pending_hid_in') = Range(pending_hid_in) \ {u}
        /\ IsInjective(pending_hid_in')
    BY <1>2, <2>1, PlaceFacts, TailMembers
  <2> HIDE DEF u, ready
  <2>4. \A state : u \in InState(state) => state = "PENDING_HID_IN"
    BY <2>3 DEF OnePlace, InState
  <2>5. \A state : InState(state)' = IF state = "PENDING_GIVEBACK"
                                     THEN InState(state) \cup {u}
                                     ELSE InState(state) \ {u}
    BY <2>1, <2>3, StateMoved DEF ContextStates
  <2>6. /\ InState("PENDING_HID_IN")' = InState("PENDING_HID_IN") \ {u}
        /\ InState("PENDING_FEATURE_GET")' = InState("PENDING_FEATURE_GET")
        /\ InState("PENDING_GIVEBACK")' = InState("PENDING_GIVEBACK") \cup {u}
        /\ InState("GIVING_BACK")' = InState("GIVING_BACK")
    BY <2>4, <2>5
  <2>7. <<u>> \in Seq(Urbs) /\ Range(<<u>>) = {u} /\ IsInjective(<<u>>)
    BY <2>3, Singleton
  <2>8. Range(<<u>>) \cap InState("PENDING_GIVEBACK") = {}
    BY <2>4, <2>7
  <2>9. /\ Range(completed_urbs') = InState("PENDING_GIVEBACK") \cup {u}
        /\ IsInjective(completed_urbs')
    BY <2>1, <2>2, <2>7, <2>8, PlaceBlock
  <2> QED
    BY <1>0, <2>3, <2>6, <2>9, PlaceMade DEF OnePlace
<1> QED
  BY <1>1, <1>2

(* A set of waiting contexts changes its state.                            *)
LEMMA StatesMoved ==
    ASSUME NEW moved \in SUBSET Urbs,
           ctx' = [u \in Urbs |-> IF u \in moved THEN "PENDING_GIVEBACK"
                                                 ELSE ctx[u]],
           moved \subseteq InState("PENDING_HID_IN")
                               \cup InState("PENDING_FEATURE_GET")
    PROVE  /\ InState("PENDING_HID_IN")' = InState("PENDING_HID_IN") \ moved
           /\ InState("PENDING_FEATURE_GET")' =
                  InState("PENDING_FEATURE_GET") \ moved
           /\ InState("PENDING_GIVEBACK")' =
                  InState("PENDING_GIVEBACK") \cup moved
           /\ InState("GIVING_BACK")' = InState("GIVING_BACK")
           /\ moved \cap InState("PENDING_GIVEBACK") = {}
<1>1. \A u \in Urbs : ctx'[u] = IF u \in moved THEN "PENDING_GIVEBACK"
                                               ELSE ctx[u]
  OBVIOUS
<1>2. \A u \in moved : ctx[u] \in {"PENDING_HID_IN", "PENDING_FEATURE_GET"}
  BY DEF InState
<1> QED
  BY <1>1, <1>2 DEF InState

(* A feature reply completes the GET_REPORTs that wait for its report.     *)
LEMMA PlaceCompleteReply ==
    ASSUME TypeOK, OnePlace, NEW s \in Sessions, CompleteReply(s)
    PROVE  OnePlace'
<1>0. giving' = giving /\ UNCHANGED pending_hid_in
  BY DEF CompleteReply, threadVars
<1>1. CASE stopping
  BY <1>0, <1>1, PlaceKept DEF CompleteReply, listVars
<1>2. CASE ~stopping
  <2> DEFINE answered == Answered(replying[s])
  <2>1. PICK done \in InListOrder(pending_feature_get, answered) :
            completed_urbs' = QueueGiveback(completed_urbs, ready_time, done, 0)
    BY <1>2 DEF CompleteReply
  <2>2. /\ ctx' = [u \in Urbs |-> IF u \in answered
                                  THEN "PENDING_GIVEBACK" ELSE ctx[u]]
        /\ pending_feature_get' \in
               InListOrder(pending_feature_get, Urbs \ answered)
    BY <1>2 DEF CompleteReply
  <2>3. answered \subseteq InState("PENDING_FEATURE_GET")
    BY DEF Answered, OnePlace
  <2> HIDE DEF answered
  <2>4. InState("PENDING_FEATURE_GET") \subseteq Urbs
    BY DEF InState
  <2>5. InState("PENDING_FEATURE_GET") \cap InState("PENDING_HID_IN") = {}
    BY DEF InState
  <2>6. /\ done \in Seq(Urbs) /\ IsInjective(done)
        /\ Range(done) = Range(pending_feature_get) \cap answered
    BY PlaceFacts, InListOrderMembers
  <2>7. Range(done) = answered
    BY <2>3, <2>6 DEF OnePlace
  <2>8. /\ IsInjective(pending_feature_get')
        /\ Range(pending_feature_get') =
               Range(pending_feature_get) \cap (Urbs \ answered)
    BY <2>2, PlaceFacts, InListOrderMembers
  <2>9. Range(pending_feature_get') =
            InState("PENDING_FEATURE_GET") \ answered
    BY <2>4, <2>8 DEF OnePlace
  <2>10. /\ InState("PENDING_HID_IN")' = InState("PENDING_HID_IN") \ answered
         /\ InState("PENDING_FEATURE_GET")' =
                InState("PENDING_FEATURE_GET") \ answered
         /\ InState("PENDING_GIVEBACK")' =
                InState("PENDING_GIVEBACK") \cup answered
         /\ InState("GIVING_BACK")' = InState("GIVING_BACK")
         /\ answered \cap InState("PENDING_GIVEBACK") = {}
    BY <2>2, <2>3, <2>4, StatesMoved
  <2>11. InState("PENDING_HID_IN")' = InState("PENDING_HID_IN")
    BY <2>3, <2>5, <2>10
  <2>12. /\ Range(completed_urbs') = InState("PENDING_GIVEBACK") \cup answered
         /\ IsInjective(completed_urbs')
    BY <2>1, <2>6, <2>7, <2>10, PlaceBlock
  <2> QED
    BY <1>0, <2>8, <2>9, <2>10, <2>11, <2>12, PlaceMade DEF OnePlace
<1> QED
  BY <1>1, <1>2

(* A disconnect completes every URB that waits for data.                   *)
LEMMA PlaceCancelPending ==
    ASSUME TypeOK, OnePlace, CancelPending, giving' = giving
    PROVE  OnePlace'
<1> DEFINE pending == pending_hid_in \o pending_feature_get
           waiting == InState("PENDING_HID_IN")
                          \cup InState("PENDING_FEATURE_GET")
<1>1. /\ ctx' = [u \in Urbs |-> IF u \in Range(pending)
                                THEN "PENDING_GIVEBACK" ELSE ctx[u]]
      /\ pending_hid_in' = <<>> /\ pending_feature_get' = <<>>
      /\ completed_urbs' = QueueGiveback(completed_urbs, ready_time, pending, 0)
  BY DEF CancelPending
<1>2. /\ InState("PENDING_HID_IN") \cap InState("PENDING_FEATURE_GET") = {}
      /\ waiting \in SUBSET Urbs
  BY DEF InState
<1>3. /\ pending \in Seq(Urbs)
      /\ Range(pending) = Range(pending_hid_in) \cup Range(pending_feature_get)
      /\ IsInjective(pending_hid_in) /\ IsInjective(pending_feature_get)
         /\ Range(pending_hid_in) \cap Range(pending_feature_get) = {}
         => IsInjective(pending)
  BY PlaceFacts, ConcatMembers
<1> HIDE DEF pending
<1>4. Range(pending) = waiting /\ IsInjective(pending)
  BY <1>2, <1>3, PlaceFacts DEF OnePlace
<1>5. /\ InState("PENDING_HID_IN")' = InState("PENDING_HID_IN") \ waiting
      /\ InState("PENDING_FEATURE_GET")' =
             InState("PENDING_FEATURE_GET") \ waiting
      /\ InState("PENDING_GIVEBACK")' = InState("PENDING_GIVEBACK") \cup waiting
      /\ InState("GIVING_BACK")' = InState("GIVING_BACK")
      /\ waiting \cap InState("PENDING_GIVEBACK") = {}
  <2> HIDE DEF waiting
  <2>1. waiting \subseteq InState("PENDING_HID_IN")
                              \cup InState("PENDING_FEATURE_GET")
    BY DEF waiting
  <2> QED
    BY <1>1, <1>2, <1>4, <2>1, StatesMoved
<1>6. /\ Range(completed_urbs') = InState("PENDING_GIVEBACK") \cup waiting
      /\ IsInjective(completed_urbs')
  BY <1>1, <1>3, <1>4, <1>5, PlaceBlock
<1>7. Range(<<>>) = {} /\ IsInjective(<<>>)
  BY DEF Range, IsInjective
<1>8. Range(pending_hid_in') = {} /\ IsInjective(pending_hid_in')
  BY <1>1, <1>7
<1>9. Range(pending_feature_get') = {} /\ IsInjective(pending_feature_get')
  BY <1>1, <1>7
<1> QED
  BY <1>5, <1>6, <1>8, <1>9, PlaceMade DEF OnePlace

(***************************************************************************)
(* CoreInv, action by action.                                              *)
(***************************************************************************)

(* A step inside a later life of some contexts: no submission starts, no   *)
(* handler moves, no context goes back to its beginning.                   *)
LEMMA LaterKept ==
    ASSUME IInv, UNCHANGED <<request, pc>>,
           \A v \in Urbs : ctx'[v] # ctx[v] =>
               /\ ctx[v] # "UNUSED" /\ ctx'[v] # "UNUSED"
               /\ ctx[v] = "ACTIVE" => pc[v] \notin ActiveSteps,
           \/ events' = events
           \/ events' = <<>>
           \/ events # <<>> /\ events' = Tail(events)
    PROVE  RequestInv' /\ ActiveInv'
<1>1. TypeOK /\ RequestInv /\ ActiveInv
  BY DEF IInv, CoreInv
<1>2. events' \in Seq(Event) /\ GetFrames(events')
  BY <1>1, GetFramesKept
<1>3. \A v \in Urbs : pc[v] \in {"defer", "request"}
                          => request[v].kind = "feature_get"
  BY <1>1 DEF RequestInv
<1>4. \A v \in Urbs : ctx[v] # "UNUSED" <=> ctx'[v] # "UNUSED"
  OBVIOUS
<1>5. RequestInv'
  BY <1>1, <1>2, <1>3, <1>4, RequestKept
<1>6. ActiveInv'
  BY <1>1 DEF ActiveInv
<1> QED
  BY <1>5, <1>6

(* Steps that touch neither the contexts nor the lists.                    *)
LEMMA QuietStep ==
    ASSUME IInv, UNCHANGED <<contextVars, listVars, threadVars>>,
           \/ events' = events
           \/ events # <<>> /\ events' = Tail(events)
    PROVE  CoreInv'
<1>1. UNCHANGED <<ctx, pc, request, giving, giveback>>
  BY DEF contextVars, threadVars
<1>2. RequestInv' /\ ActiveInv'
  BY <1>1, LaterKept
<1>3. OnePlace' /\ GivingInv'
  BY <1>1, PlaceKept DEF IInv, CoreInv, GivingInv
<1> QED
  BY <1>2, <1>3 DEF CoreInv

LEMMA CoreQuiet ==
    ASSUME IInv
    PROVE  /\ Tick => CoreInv'
           /\ \A s \in Sessions :
                  \/ Open(s) \/ Read(s) \/ SetProfile(s) \/ Connect(s)
                  \/ ResetUsbDevice(s) \/ Release(s) \/ ReleaseAfterStop(s)
                  \/ \E f \in FeatureIds : CacheReply(s, f)
                  => CoreInv'
           /\ HubNoticesChange \/ HubEnumerates \/ BeginRemove => CoreInv'
           /\ \A f \in PortClears : ClearPortFeature(f) => CoreInv'
<1>1. ASSUME Tick PROVE CoreInv'
  BY <1>1, QuietStep DEF Tick, eventVars
<1>2. ASSUME NEW s \in Sessions,
             \/ Open(s) \/ Read(s) \/ SetProfile(s) \/ Connect(s)
             \/ ResetUsbDevice(s) \/ Release(s) \/ ReleaseAfterStop(s)
             \/ \E f \in FeatureIds : CacheReply(s, f)
      PROVE  CoreInv'
  <2>1. /\ UNCHANGED <<contextVars, listVars, threadVars>>
        /\ \/ events' = events
           \/ events # <<>> /\ events' = Tail(events)
    BY <1>2 DEF Open, Read, SetProfile, Connect, ResetUsbDevice, Release,
                ReleaseAfterStop, CacheReply, eventVars
  <2> QED
    BY <2>1, QuietStep
<1>3. ASSUME HubNoticesChange \/ HubEnumerates \/ BeginRemove PROVE CoreInv'
  BY <1>3, QuietStep
  DEF HubNoticesChange, HubEnumerates, BeginRemove, eventVars
<1>4. ASSUME NEW f \in PortClears, ClearPortFeature(f) PROVE CoreInv'
  BY <1>4, QuietStep DEF ClearPortFeature, eventVars
<1> QED
  BY <1>1, <1>2, <1>3, <1>4

LEMMA CoreSubmit ==
    ASSUME IInv, NEW u \in Urbs, NEW r \in Requests, Submit(u, r)
    PROVE  CoreInv'
<1>1. TypeOK /\ RequestInv /\ OnePlace /\ ActiveInv /\ GivingInv
  BY DEF IInv, CoreInv
<1>2. RequestInv' /\ OnePlace'
  BY <1>1, RequestSubmit, PlaceSubmit
<1>3. /\ ctx' = [ctx EXCEPT ![u] = "ACTIVE"]
      /\ pc' = [pc EXCEPT ![u] = "handle"]
      /\ UNCHANGED <<giveback, giving>>
  BY DEF Submit, threadVars
<1>4. ActiveInv'
  BY <1>1, <1>3 DEF ActiveInv, TypeOK, ContextTypes
<1>5. GivingInv'
  BY <1>1, <1>3 DEF GivingInv
<1> QED
  BY <1>2, <1>4, <1>5 DEF CoreInv

(* A handler that goes on, leaving its context where it is.                *)
LEMMA CoreHandlers ==
    ASSUME IInv, NEW u \in Urbs,
           \/ HandleOther(u) \/ HandleFeatureGet(u)
           \/ HandleSetConfiguration(u) \/ SetConfiguredStatus(u)
           \/ ClearAudioStatus(u) \/ HandleSetInterface(u)
           \/ SetAudioStatus(u) \/ ScheduleIsoOut(u) \/ ScheduleIsoIn(u)
           \/ HandleHidOut(u) \/ HandleFeatureSet(u) \/ RequestFeature(u)
           \/ EnqueueInterfaceEvent(u) \/ HandleOtherInterface(u)
    PROVE  CoreInv'
<1>1. TypeOK /\ RequestInv /\ OnePlace /\ ActiveInv /\ GivingInv
  BY DEF IInv, CoreInv
<1>2. RequestInv'
  BY <1>1, RequestHandlers, RequestFrames
<1>3. UNCHANGED <<ctx, listVars, giveback, giving>>
  BY DEF HandleOther, HandleFeatureGet, HandleSetConfiguration,
         SetConfiguredStatus, ClearAudioStatus, HandleSetInterface,
         SetAudioStatus, ScheduleIsoOut, ScheduleIsoIn, HandleHidOut,
         HandleFeatureSet, RequestFeature, EnqueueInterfaceEvent,
         HandleOtherInterface, threadVars
<1>4. \E step \in Steps : /\ pc' = [pc EXCEPT ![u] = step]
                          /\ step \in ActiveSteps => pc[u] \in ActiveSteps
  BY DEF HandleOther, HandleFeatureGet, HandleSetConfiguration,
         SetConfiguredStatus, ClearAudioStatus, HandleSetInterface,
         SetAudioStatus, ScheduleIsoOut, ScheduleIsoIn, HandleHidOut,
         HandleFeatureSet, RequestFeature, EnqueueInterfaceEvent,
         HandleOtherInterface, HandlerReturns, Goto, Handling, Steps,
         ActiveSteps
<1>5. ActiveInv'
  BY <1>1, <1>3, <1>4 DEF ActiveInv, TypeOK, ContextTypes
<1>6. OnePlace' /\ GivingInv'
  BY <1>1, <1>3, PlaceKept DEF GivingInv
<1> QED
  BY <1>2, <1>5, <1>6 DEF CoreInv

(* A handler that may put its context on a list of waiting ones.           *)
LEMMA CoreWaiting ==
    ASSUME IInv, NEW u \in Urbs, HandleHidIn(u) \/ DeferFeatureGet(u)
    PROVE  CoreInv'
<1>1. TypeOK /\ RequestInv /\ OnePlace /\ ActiveInv /\ GivingInv
  BY DEF IInv, CoreInv
<1>2. RequestInv'
  BY <1>1, RequestHandlers
<1>3. ctx[u] = "ACTIVE" /\ pc[u] \in ActiveSteps
  BY <1>1 DEF HandleHidIn, DeferFeatureGet, Handling, ActiveInv, ActiveSteps
<1>4. UNCHANGED <<completed_urbs, giveback, giving>>
  BY DEF HandleHidIn, DeferFeatureGet, threadVars
<1>5. \/ UNCHANGED <<ctx, pending_hid_in, pending_feature_get>>
      \/ /\ ctx' = [ctx EXCEPT ![u] = "PENDING_HID_IN"]
         /\ pending_hid_in' = Append(pending_hid_in, u)
         /\ UNCHANGED pending_feature_get
      \/ /\ ctx' = [ctx EXCEPT ![u] = "PENDING_FEATURE_GET"]
         /\ pending_feature_get' = Append(pending_feature_get, u)
         /\ UNCHANGED pending_hid_in
  BY DEF HandleHidIn, DeferFeatureGet
<1>6. \E step \in Steps \ ActiveSteps : pc' = [pc EXCEPT ![u] = step]
  BY DEF HandleHidIn, DeferFeatureGet, HandlerReturns, Goto, Steps, ActiveSteps
<1>7. OnePlace'
  BY <1>1, <1>3, <1>4, <1>5, PlaceKept, PlaceWait DEF listVars
<1>8. \A v \in Urbs : v # u => ctx'[v] = ctx[v]
  BY <1>1, <1>5 DEF TypeOK, ContextTypes
<1>9. ActiveInv'
  BY <1>1, <1>6, <1>8 DEF ActiveInv, TypeOK, ContextTypes
<1> QED
  BY <1>1, <1>2, <1>4, <1>7, <1>9 DEF CoreInv, GivingInv

(* vds_queue_urb_giveback_locked on u, when no handler still needs u where *)
(* it is.                                                                  *)
LEMMA CoreQueued ==
    ASSUME IInv, NEW u \in Urbs, NEW result, QueueGivebackLocked(u, result),
           UNCHANGED <<request, events, giveback, giving>>,
           ctx[u] # "UNUSED",
           \A v \in Urbs : pc'[v] # "none" => pc'[v] = pc[v],
           pc'[u] \notin ActiveSteps
    PROVE  CoreInv'
<1>1. TypeOK /\ RequestInv /\ OnePlace /\ ActiveInv /\ GivingInv
  BY DEF IInv, CoreInv
<1>2. OnePlace'
  BY <1>1, PlaceQueueGivebackLocked
<1>3. \/ ctx' = ctx
      \/ ctx' = [ctx EXCEPT ![u] = "PENDING_GIVEBACK"]
  BY DEF QueueGivebackLocked
<1>4. \A v \in Urbs : /\ v # u => ctx'[v] = ctx[v]
                      /\ ctx'[u] # "UNUSED"
  BY <1>1, <1>3 DEF TypeOK, ContextTypes
<1>5. events' \in Seq(Event) /\ GetFrames(events')
  BY <1>1, GetFramesKept
<1>6. \A v \in Urbs : /\ pc'[v] # "none" => pc[v] # "none"
                      /\ pc'[v] \in {"defer", "request"}
                             => request[v].kind = "feature_get"
  BY <1>1 DEF RequestInv
<1>7. RequestInv'
  BY <1>1, <1>4, <1>5, <1>6, RequestKept
<1>8. ActiveInv'
  BY <1>1, <1>4 DEF ActiveInv, ActiveSteps
<1> QED
  BY <1>1, <1>2, <1>7, <1>8 DEF CoreInv, GivingInv

LEMMA CoreQueueResult ==
    ASSUME IInv, NEW u \in Urbs, QueueResult(u)
    PROVE  CoreInv'
<1>1. /\ QueueGivebackLocked(u, ret[u]) /\ pc[u] = "queue"
      /\ pc' = [pc EXCEPT ![u] = "none"]
      /\ UNCHANGED <<request, events, giveback, giving>>
  BY DEF QueueResult, eventVars, threadVars
<1>2. ctx[u] # "UNUSED" /\ pc \in [Urbs -> Steps]
  BY <1>1 DEF IInv, CoreInv, RequestInv, TypeOK, ContextTypes
<1>3. /\ \A v \in Urbs : pc'[v] # "none" => pc'[v] = pc[v]
      /\ pc'[u] \notin ActiveSteps
  BY <1>1, <1>2 DEF ActiveSteps
<1> QED
  BY <1>1, <1>2, <1>3, CoreQueued

LEMMA CoreUnlink ==
    ASSUME IInv, NEW u \in Urbs, Unlink(u)
    PROVE  CoreInv'
<1>1. /\ ctx[u] # "UNUSED" /\ pc[u] = "none"
      /\ UNCHANGED <<pc, request, events, giveback, giving>>
  BY DEF Unlink, DequeueUrb, Linked, eventVars, threadVars
<1>2. pc'[u] \notin ActiveSteps
  BY <1>1 DEF ActiveSteps
<1>3. CASE ctx[u] = "PENDING_GIVEBACK"
  <2>1. UNCHANGED <<ctx, listVars>>
    BY <1>3 DEF Unlink, DequeueUrb
  <2>2. RequestInv' /\ ActiveInv'
    BY <1>1, <2>1, LaterKept
  <2> QED
    BY <1>1, <2>1, <2>2, PlaceKept DEF IInv, CoreInv, GivingInv
<1>4. CASE ctx[u] # "PENDING_GIVEBACK"
  <2>1. QueueGivebackLocked(u, "UNLINKED")
    BY <1>4 DEF Unlink, DequeueUrb
  <2> QED
    BY <1>1, <1>2, <2>1, CoreQueued
<1> QED
  BY <1>3, <1>4

LEMMA CoreGiveback ==
    ASSUME IInv, TakeCompleted \/ GivebackUrb \/ GivebackThreadExits
    PROVE  CoreInv'
<1>0. TypeOK /\ RequestInv /\ OnePlace /\ ActiveInv /\ GivingInv
  BY DEF IInv, CoreInv
<1>1. ASSUME TakeCompleted PROVE CoreInv'
  <2> DEFINE u == Head(completed_urbs)
  <2>1. /\ ctx' = [ctx EXCEPT ![u] = "GIVING_BACK"] /\ completed_urbs # <<>>
        /\ UNCHANGED <<pc, request, events>>
        /\ giving' = u /\ giveback' \in {"deliver", "complete"}
    BY <1>1 DEF TakeCompleted, eventVars
  <2>2. u \in Urbs /\ u \in Range(completed_urbs)
    BY <1>0, <2>1, PlaceFacts, TailMembers
  <2> HIDE DEF u
  <2>3. ctx[u] = "PENDING_GIVEBACK"
    BY <1>0, <2>2 DEF OnePlace, InState
  <2>4. \A v \in Urbs : ctx'[v] # ctx[v] =>
            /\ ctx[v] # "UNUSED" /\ ctx'[v] # "UNUSED" /\ ctx[v] # "ACTIVE"
    BY <1>0, <2>1, <2>3 DEF TypeOK, ContextTypes
  <2>5. RequestInv' /\ ActiveInv'
    BY <2>1, <2>4, LaterKept
  <2>6. GivingInv'
    BY <2>1, <2>2, DistinctAssumption DEF GivingInv
  <2> QED
    BY <1>0, <1>1, <2>5, <2>6, PlaceTakeCompleted DEF CoreInv
<1>2. ASSUME GivebackUrb PROVE CoreInv'
  <2>1. /\ ctx' = [ctx EXCEPT ![giving] = "FREED"] /\ giveback = "complete"
        /\ UNCHANGED <<pc, request, events>>
        /\ giving' = NoUrb /\ giveback' = "wait"
    BY <1>2 DEF GivebackUrb, eventVars
  <2>2. giving \in Urbs
    BY <1>0, <2>1 DEF GivingInv, TypeOK, ThreadTypes
  <2>3. ctx[giving] = "GIVING_BACK"
    BY <1>0, <2>2, DistinctAssumption DEF OnePlace, InState
  <2>4. \A v \in Urbs : ctx'[v] # ctx[v] =>
            /\ ctx[v] # "UNUSED" /\ ctx'[v] # "UNUSED" /\ ctx[v] # "ACTIVE"
    BY <1>0, <2>1, <2>3 DEF TypeOK, ContextTypes
  <2>5. RequestInv' /\ ActiveInv'
    BY <2>1, <2>4, LaterKept
  <2> QED
    BY <1>0, <1>2, <2>1, <2>5, PlaceGivebackUrb DEF CoreInv, GivingInv
<1>3. ASSUME GivebackThreadExits PROVE CoreInv'
  <2>1. /\ UNCHANGED <<ctx, pc, request, listVars, events, giving>>
        /\ giveback = "wait" /\ giveback' = "exited"
    BY <1>3 DEF GivebackThreadExits, contextVars, eventVars
  <2> QED
    BY <1>0, <2>1, LaterKept, PlaceKept DEF CoreInv, GivingInv
<1> QED
  BY <1>1, <1>2, <1>3

LEMMA CoreDeliverIsoOut ==
    ASSUME IInv, DeliverIsoOut
    PROVE  CoreInv'
<1>1. TypeOK /\ RequestInv /\ OnePlace /\ ActiveInv /\ GivingInv
  BY DEF IInv, CoreInv
<1>2. /\ giveback = "deliver" /\ EnqueueBestEffort("AUDIO_OUT", giving)
      /\ giveback' = "complete"
      /\ UNCHANGED <<ctx, pc, request, listVars, giving>>
  BY DEF DeliverIsoOut, contextVars
<1>3. giving \in Urbs
  BY <1>1, <1>2 DEF GivingInv, TypeOK, ThreadTypes
<1>4. events' \in Seq(Event) /\ GetFrames(events')
  BY <1>1, <1>2, <1>3, GetFramesBestEffort DEF FrameTypes
<1>5. \A u \in Urbs : pc[u] \in {"defer", "request"}
                          => request[u].kind = "feature_get"
  BY <1>1 DEF RequestInv
<1>6. RequestInv'
  BY <1>1, <1>2, <1>4, <1>5, RequestKept
<1> QED
  BY <1>1, <1>2, <1>6, PlaceKept DEF CoreInv, ActiveInv, GivingInv

LEMMA CoreReports ==
    ASSUME IInv, NEW s \in Sessions, WriteInput(s) \/ CompleteReply(s)
    PROVE  CoreInv'
<1>0. TypeOK /\ RequestInv /\ OnePlace /\ ActiveInv /\ GivingInv
  BY DEF IInv, CoreInv
<1>1. OnePlace'
  BY <1>0, PlaceWriteInput, PlaceCompleteReply
<1>2. UNCHANGED <<pc, request, events, giveback, giving>>
  BY DEF WriteInput, CompleteReply, eventVars, threadVars
<1>3. \A v \in Urbs : ctx'[v] # ctx[v] =>
          /\ ctx[v] \in {"PENDING_HID_IN", "PENDING_FEATURE_GET"}
          /\ ctx'[v] = "PENDING_GIVEBACK"
  <2>1. CASE WriteInput(s) /\ pending_hid_in # <<>>
    <3>1. ctx' = [ctx EXCEPT ![Head(pending_hid_in)] = "PENDING_GIVEBACK"]
      BY <2>1 DEF WriteInput
    <3>2. Head(pending_hid_in) \in Range(pending_hid_in)
      BY <1>0, <2>1, PlaceFacts, TailMembers
    <3>3. ctx[Head(pending_hid_in)] = "PENDING_HID_IN"
      BY <1>0, <3>2 DEF OnePlace, InState
    <3> QED
      BY <1>0, <3>1, <3>3 DEF TypeOK, ContextTypes
  <2>2. CASE WriteInput(s) /\ pending_hid_in = <<>>
    BY <2>2 DEF WriteInput
  <2>3. CASE CompleteReply(s) /\ stopping
    BY <2>3 DEF CompleteReply
  <2>4. CASE CompleteReply(s) /\ ~stopping
    <3>1. ctx' = [u \in Urbs |-> IF u \in Answered(replying[s])
                                 THEN "PENDING_GIVEBACK" ELSE ctx[u]]
      BY <2>4 DEF CompleteReply
    <3>2. \A u \in Answered(replying[s]) : ctx[u] = "PENDING_FEATURE_GET"
      BY <1>0 DEF Answered, OnePlace, InState
    <3> QED
      BY <3>1, <3>2
  <2> QED
    BY <2>1, <2>2, <2>3, <2>4
<1>4. RequestInv' /\ ActiveInv'
  BY <1>2, <1>3, LaterKept
<1> QED
  BY <1>0, <1>1, <1>2, <1>4 DEF CoreInv, GivingInv

LEMMA CoreCancel ==
    ASSUME IInv, CancelPending, events' = <<>>,
           UNCHANGED <<pc, request, giveback, giving>>
    PROVE  CoreInv'
<1>0. TypeOK /\ RequestInv /\ OnePlace /\ ActiveInv /\ GivingInv
  BY DEF IInv, CoreInv
<1>1. OnePlace'
  BY <1>0, PlaceCancelPending
<1> DEFINE pending == pending_hid_in \o pending_feature_get
<1>2. ctx' = [u \in Urbs |-> IF u \in Range(pending)
                             THEN "PENDING_GIVEBACK" ELSE ctx[u]]
  BY DEF CancelPending
<1>3. Range(pending) = InState("PENDING_HID_IN")
                           \cup InState("PENDING_FEATURE_GET")
  BY <1>0, PlaceFacts, ConcatMembers DEF OnePlace
<1> HIDE DEF pending
<1>4. \A v \in Urbs : ctx'[v] # ctx[v] =>
          /\ ctx[v] \in {"PENDING_HID_IN", "PENDING_FEATURE_GET"}
          /\ ctx'[v] = "PENDING_GIVEBACK"
  BY <1>2, <1>3 DEF InState
<1>5. RequestInv' /\ ActiveInv'
  BY <1>4, LaterKept
<1> QED
  BY <1>0, <1>1, <1>5 DEF CoreInv, GivingInv

LEMMA CoreDisconnect ==
    ASSUME IInv
    PROVE  /\ \A s \in Sessions :
                  Disconnect(s) \/ ReleaseDisconnects(s) => CoreInv'
           /\ StopHcd => CoreInv'
BY CoreCancel
DEF Disconnect, ReleaseDisconnects, DisconnectLocked, StopHcd,
    FlushBufferedFrames, threadVars

(***************************************************************************)
(* The invariant is inductive.                                             *)
(***************************************************************************)
LEMMA NextTypes ==
    ASSUME IInv, Next
    PROVE  TypeOK'
<1>0. TypeOK /\ TypeInv
  BY DEF IInv, CoreInv, TypeInv
<1>1. CASE \E u \in Urbs, r \in Requests : Submit(u, r)
  BY <1>0, <1>1, TypeHandlers
<1>2. ASSUME NEW u \in Urbs, HandlerStep(u) PROVE TypeOK'
  <2>1. CASE \/ HandleOther(u) \/ HandleFeatureGet(u)
             \/ SetConfiguredStatus(u) \/ ClearAudioStatus(u)
             \/ SetAudioStatus(u)
    BY <1>0, <2>1, TypeHandlers
  <2>2. CASE \/ HandleHidOut(u) \/ HandleFeatureSet(u) \/ RequestFeature(u)
             \/ EnqueueInterfaceEvent(u) \/ HandleOtherInterface(u)
    BY <1>0, <2>2, TypeFrames
  <2>3. CASE HandleHidIn(u) \/ DeferFeatureGet(u)
    BY <1>0, <2>3, TypeHandleHidIn, TypeDeferFeatureGet
  <2>4. CASE HandleSetConfiguration(u) \/ HandleSetInterface(u)
    BY <1>0, <2>4, TypeConfiguration
  <2>5. CASE ScheduleIsoOut(u) \/ ScheduleIsoIn(u)
    BY <1>0, <2>5, TypeScheduleIso
  <2>6. CASE QueueResult(u)
    BY <1>0, <2>6, TypeQueueResult
  <2> QED
    BY <1>2, <2>1, <2>2, <2>3, <2>4, <2>5, <2>6 DEF HandlerStep
<1>3. ASSUME NEW u \in Urbs, Unlink(u) PROVE TypeOK'
  BY <1>0, <1>3, TypeUnlink DEF Unlink
<1>4. CASE GivebackStep
  <2>1. CASE TakeCompleted
    BY <1>0, <2>1, TypeTakeCompleted
  <2>2. CASE DeliverIsoOut
    <3>1. giving \in Urbs
      BY <2>2 DEF DeliverIsoOut, IInv, CoreInv, GivingInv, TypeOK, ThreadTypes
    <3> QED
      BY <1>0, <2>2, <3>1, TypeFrames
  <2>3. CASE GivebackUrb
    BY <1>0, <2>3, TypeThreads
  <2> QED
    BY <1>4, <2>1, <2>2, <2>3 DEF GivebackStep
<1>5. CASE GivebackThreadExits \/ Tick
  BY <1>0, <1>5, TypeThreads
<1>6. ASSUME NEW s \in Sessions, UserStep(s) PROVE TypeOK'
  <2>1. CASE \/ Open(s) \/ SetProfile(s) \/ ResetUsbDevice(s) \/ Release(s)
             \/ ReleaseAfterStop(s)
             \/ \E f \in FeatureIds : CacheReply(s, f)
    BY <1>0, <2>1, TypeSessions
  <2>2. CASE \/ Read(s) \/ WriteInput(s) \/ CompleteReply(s) \/ Connect(s)
             \/ Disconnect(s) \/ ReleaseDisconnects(s)
    BY <1>0, <2>2, TypeRead, TypeWriteInput, TypeCompleteReply, TypeConnect,
       TypeDisconnect
  <2> QED
    BY <1>6, <2>1, <2>2 DEF UserStep
<1>7. CASE HostStep
  BY <1>0, <1>7, TypeThreads, TypeHub DEF HostStep
<1> QED
  BY <1>1, <1>2, <1>3, <1>4, <1>5, <1>6, <1>7 DEF Next

LEMMA NextCore ==
    ASSUME IInv, Next
    PROVE  CoreInv'
<1>1. CASE \E u \in Urbs, r \in Requests : Submit(u, r)
  BY <1>1, CoreSubmit
<1>2. ASSUME NEW u \in Urbs, HandlerStep(u) PROVE CoreInv'
  BY <1>2, CoreHandlers, CoreWaiting, CoreQueueResult DEF HandlerStep
<1>3. ASSUME NEW u \in Urbs, Unlink(u) PROVE CoreInv'
  BY <1>3, CoreUnlink
<1>4. CASE GivebackStep \/ GivebackThreadExits
  BY <1>4, CoreGiveback, CoreDeliverIsoOut DEF GivebackStep
<1>5. CASE Tick
  BY <1>5, CoreQuiet
<1>6. ASSUME NEW s \in Sessions, UserStep(s) PROVE CoreInv'
  <2>1. CASE WriteInput(s) \/ CompleteReply(s)
    BY <2>1, CoreReports
  <2>2. CASE Disconnect(s) \/ ReleaseDisconnects(s)
    BY <2>2, CoreDisconnect
  <2>3. CASE \/ Open(s) \/ Read(s) \/ SetProfile(s) \/ Connect(s)
             \/ ResetUsbDevice(s) \/ Release(s) \/ ReleaseAfterStop(s)
             \/ \E f \in FeatureIds : CacheReply(s, f)
    BY <2>3, CoreQuiet
  <2> QED
    BY <1>6, <2>1, <2>2, <2>3 DEF UserStep
<1>7. CASE HostStep
  BY <1>7, CoreQuiet, CoreDisconnect DEF HostStep
<1> QED
  BY <1>1, <1>2, <1>3, <1>4, <1>5, <1>6, <1>7 DEF Next

LEMMA InitInductive == Init => IInv
<1> SUFFICES ASSUME Init PROVE IInv
  OBVIOUS
<1>1. TypeOK /\ RequestInv
  BY TypeInit DEF TypeInv
<1>2. /\ ActiveInv /\ GivingInv
  BY DEF Init, ActiveInv, ActiveSteps, GivingInv
<1>3. Range(<<>>) = {} /\ IsInjective(<<>>)
  BY DEF Range, IsInjective
<1>4. \A state : state # "UNUSED" => InState(state) = {}
  BY DEF Init, InState
<1>5. OnePlace
  BY <1>3, <1>4 DEF Init, OnePlace
<1> QED
  BY <1>1, <1>2, <1>5 DEF IInv, CoreInv

LEMMA NextInductive == IInv /\ [Next]_vars => IInv'
<1> SUFFICES ASSUME IInv, [Next]_vars PROVE IInv'
  OBVIOUS
<1>1. CASE Next
  BY <1>1, NextTypes, NextCore DEF IInv
<1>2. CASE UNCHANGED vars
  <2>1. /\ UNCHANGED <<contextVars, listVars, threadVars, events>>
        /\ UNCHANGED <<eventVars, input_packets, now, pacingVars, portVars,
                       usbVars, userVars, epoch, hubVars>>
    BY <1>2 DEF vars, eventVars
  <2>2. CoreInv'
    BY <2>1, QuietStep
  <2>3. TypeOK'
    BY <2>1
    DEF IInv, TypeOK, ContextTypes, ListTypes, QueueTypes, ClockTypes,
        PortTypes, DeviceTypes, ThreadTypes, UserTypes, HubTypes, contextVars,
        listVars, eventVars, pacingVars, portVars, usbVars, threadVars,
        userVars, hubVars
  <2> QED
    BY <2>2, <2>3 DEF IInv
<1> QED
  BY <1>1, <1>2

(***************************************************************************)
(* The theorems.                                                           *)
(***************************************************************************)

(* The controller and its device reach only states in which IInv holds:    *)
(* the facts the other theorems rest on.                                   *)
THEOREM Invariance == Spec => []IInv
<1> QED
  BY InitInductive, NextInductive, PTL DEF Spec

(* Every variable of the driver keeps its type: in particular no list ever *)
(* holds anything but contexts, and `giving` is a context whenever it is   *)
(* dereferenced.                                                           *)
THEOREM TypeCorrect == Spec => []TypeOK
<1>1. IInv => TypeOK
  BY DEF IInv
<1> QED
  BY <1>1, Invariance, PTL

(* Every context is where its state says, once: list_add, list_del and     *)
(* kfree of vds_hcd_core.c never corrupt a list, and no URB is given back  *)
(* twice, whatever is submitted, unlinked, answered and disconnected when. *)
THEOREM PlaceCorrect == Spec => []OnePlace
<1>1. IInv => OnePlace
  BY DEF IInv, CoreInv
<1> QED
  BY <1>1, Invariance, PTL



(***************************************************************************)
(* StaleDeviceIsFlagged is inductive as it stands.                         *)
(***************************************************************************)

(* The actions that leave the port and the hub thread alone.               *)
LEMMA PortQuiet ==
    ASSUME Next
    PROVE  \/ UNCHANGED <<port_status, hub, enumerated, epoch>>
           \/ \E s \in Sessions :
                  Connect(s) \/ Disconnect(s) \/ ReleaseDisconnects(s)
           \/ HostStep
<1>1. ASSUME NEW u \in Urbs, NEW r \in Requests, Submit(u, r)
      PROVE  UNCHANGED <<port_status, hub, enumerated, epoch>>
  BY <1>1 DEF Submit, portVars, hubVars
<1>2. ASSUME NEW u \in Urbs, HandlerStep(u)
      PROVE  UNCHANGED <<port_status, hub, enumerated, epoch>>
  BY <1>2
  DEF HandlerStep, HandleOther, HandleHidIn, HandleHidOut, HandleFeatureSet,
      HandleFeatureGet, DeferFeatureGet, RequestFeature,
      HandleSetConfiguration, SetConfiguredStatus, ClearAudioStatus,
      HandleSetInterface, SetAudioStatus, EnqueueInterfaceEvent,
      HandleOtherInterface, ScheduleIsoOut, ScheduleIsoIn, QueueResult,
      portVars, hubVars
<1>3. ASSUME NEW u \in Urbs, Unlink(u)
      PROVE  UNCHANGED <<port_status, hub, enumerated, epoch>>
  BY <1>3 DEF Unlink, DequeueUrb, portVars, hubVars
<1>4. ASSUME GivebackStep \/ GivebackThreadExits \/ Tick
      PROVE  UNCHANGED <<port_status, hub, enumerated, epoch>>
  BY <1>4 DEF GivebackStep, TakeCompleted, DeliverIsoOut, GivebackUrb,
              GivebackThreadExits, Tick, portVars, hubVars
<1>5. ASSUME NEW s \in Sessions, UserStep(s)
      PROVE  \/ UNCHANGED <<port_status, hub, enumerated, epoch>>
             \/ Connect(s) \/ Disconnect(s) \/ ReleaseDisconnects(s)
  BY <1>5
  DEF UserStep, Open, Read, WriteInput, CompleteReply, CacheReply, SetProfile,
      ResetUsbDevice, Release, ReleaseAfterStop, portVars, hubVars
<1> QED
  BY <1>1, <1>2, <1>3, <1>4, <1>5 DEF Next

LEMMA StaleInductive ==
    ASSUME StaleDeviceIsFlagged, [Next]_vars
    PROVE  StaleDeviceIsFlagged'
<1>1. CASE UNCHANGED <<port_status, hub, enumerated, epoch>>
  BY <1>1 DEF StaleDeviceIsFlagged
<1>2. ASSUME NEW s \in Sessions, Connect(s)
      PROVE  StaleDeviceIsFlagged'
  BY <1>2 DEF Connect, PortConnected, StaleDeviceIsFlagged, hubVars
<1>3. ASSUME NEW s \in Sessions, Disconnect(s) \/ ReleaseDisconnects(s)
      PROVE  StaleDeviceIsFlagged'
  BY <1>3 DEF Disconnect, ReleaseDisconnects, DisconnectLocked,
              PortDisconnected, StaleDeviceIsFlagged, hubVars
<1>4. CASE HubEnumerates
  BY <1>4 DEF HubEnumerates, StaleDeviceIsFlagged
<1>5. CASE \/ HubNoticesChange \/ BeginRemove \/ StopHcd
           \/ \E f \in PortClears : ClearPortFeature(f)
  BY <1>5 DEF HubNoticesChange, BeginRemove, StopHcd, ClearPortFeature,
              StaleDeviceIsFlagged, hubVars
<1>6. CASE UNCHANGED vars
  BY <1>1, <1>6 DEF vars, portVars, hubVars
<1> QED
  BY <1>1, <1>2, <1>3, <1>4, <1>5, <1>6, PortQuiet DEF HostStep

(* A device whose connection is over has a connection change waiting for   *)
(* the hub thread, however connects, disconnects and the hub thread        *)
(* interleave: the host never goes on with it for good.                    *)
THEOREM StaleCorrect == Spec => []StaleDeviceIsFlagged
<1>1. Init => StaleDeviceIsFlagged
  BY DEF Init, StaleDeviceIsFlagged
<1> QED
  BY <1>1, StaleInductive, PTL DEF Spec

(***************************************************************************)
(* Handlers: which submissions may be handled at the same time, and which  *)
(* request is behind a step.                                               *)
(***************************************************************************)

(* A driver fills one periodic endpoint from one place, and one change of  *)
(* configuration or alternate setting is handled at a time.                *)
SerialInv ==
    \A u, v \in Urbs :
        u # v /\ pc[u] # "none" /\ pc[v] # "none"
        => /\ request[u].kind \in PeriodicKinds
              => request[v].kind # request[u].kind
           /\ request[u].kind \in ConfigKinds
              => request[v].kind \notin ConfigKinds

(* The later steps of a change of configuration or alternate setting.      *)
StepsInv ==
    \A u \in Urbs :
        /\ pc[u] \in {"configured", "audio_off"}
           => request[u].kind = "set_configuration"
        /\ pc[u] = "audio" => request[u].kind = "set_interface"

HandlerInv == SerialInv /\ StepsInv

(* A step that starts no handler.                                          *)
LEMMA HandlerKept ==
    ASSUME HandlerInv, request' = request,
           \A u \in Urbs : pc'[u] # "none" => pc[u] # "none",
           \A u \in Urbs :
               /\ pc'[u] \in {"configured", "audio_off"}
                  => request[u].kind = "set_configuration"
               /\ pc'[u] = "audio" => request[u].kind = "set_interface"
    PROVE  HandlerInv'
BY DEF HandlerInv, SerialInv, StepsInv

LEMMA HandlerSubmit ==
    ASSUME TypeOK, HandlerInv, NEW u \in Urbs, NEW r \in Requests, Submit(u, r)
    PROVE  HandlerInv'
<1>1. /\ pc' = [pc EXCEPT ![u] = "handle"]
      /\ request' = [request EXCEPT ![u] = r] /\ Serialized(r)
  BY DEF Submit
<1>2. pc \in [Urbs -> Steps] /\ request \in [Urbs -> Request]
  BY DEF TypeOK, ContextTypes
<1>3. ASSUME NEW v \in Urbs \ {u}, pc[v] # "none"
      PROVE  /\ r.kind \in PeriodicKinds => request[v].kind # r.kind
             /\ r.kind \in ConfigKinds => request[v].kind \notin ConfigKinds
  BY <1>1, <1>3 DEF Serialized
<1>4. StepsInv'
  BY <1>1, <1>2 DEF HandlerInv, StepsInv
<1>5. SerialInv'
  BY <1>1, <1>2, <1>3 DEF HandlerInv, SerialInv
<1> QED
  BY <1>4, <1>5 DEF HandlerInv

LEMMA HandlerHandlers ==
    ASSUME TypeOK, HandlerInv, NEW u \in Urbs, HandlerStep(u)
    PROVE  HandlerInv'
<1>1. \E step \in Steps :
          /\ pc' = [pc EXCEPT ![u] = step]
          /\ step \in {"configured", "audio_off"}
             => request[u].kind = "set_configuration"
          /\ step = "audio" => request[u].kind = "set_interface"
  <2>1. CASE \/ HandleOther(u) \/ HandleHidIn(u) \/ HandleHidOut(u)
             \/ HandleFeatureSet(u) \/ HandleFeatureGet(u)
             \/ DeferFeatureGet(u) \/ RequestFeature(u)
    BY <2>1
    DEF HandleOther, HandleHidIn, HandleHidOut, HandleFeatureSet,
        HandleFeatureGet, DeferFeatureGet, RequestFeature, HandlerReturns,
        Goto, Steps
  <2>2. CASE HandleSetConfiguration(u) \/ SetConfiguredStatus(u)
    BY <2>2 DEF HandleSetConfiguration, SetConfiguredStatus, Handling, Goto,
                Steps, HandlerInv, StepsInv
  <2>3. CASE HandleSetInterface(u)
    BY <2>3 DEF HandleSetInterface, Handling, Goto, Steps
  <2>4. CASE \/ ClearAudioStatus(u) \/ SetAudioStatus(u)
             \/ EnqueueInterfaceEvent(u) \/ HandleOtherInterface(u)
             \/ ScheduleIsoOut(u) \/ ScheduleIsoIn(u) \/ QueueResult(u)
    BY <2>4
    DEF ClearAudioStatus, SetAudioStatus, EnqueueInterfaceEvent,
        HandleOtherInterface, ScheduleIsoOut, ScheduleIsoIn, QueueResult,
        HandlerReturns, Goto, Steps
  <2> QED
    BY <2>1, <2>2, <2>3, <2>4 DEF HandlerStep
<1>2. pc[u] # "none" /\ request' = request
  BY DEF HandlerStep, HandleOther, HandleHidIn, HandleHidOut,
         HandleFeatureSet, HandleFeatureGet, DeferFeatureGet, RequestFeature,
         HandleSetConfiguration, SetConfiguredStatus, ClearAudioStatus,
         HandleSetInterface, SetAudioStatus, EnqueueInterfaceEvent,
         HandleOtherInterface, ScheduleIsoOut, ScheduleIsoIn, QueueResult,
         Handling
<1>3. pc \in [Urbs -> Steps]
  BY DEF TypeOK, ContextTypes
<1>4. \A v \in Urbs :
          /\ pc'[v] # "none" => pc[v] # "none"
          /\ pc'[v] \in {"configured", "audio_off"}
             => request[v].kind = "set_configuration"
          /\ pc'[v] = "audio" => request[v].kind = "set_interface"
  BY <1>1, <1>2, <1>3 DEF HandlerInv, StepsInv
<1> QED
  BY <1>2, <1>4, HandlerKept

(* Every other action leaves the handlers alone.                           *)
LEMMA HandlersQuiet ==
    ASSUME Next
    PROVE  \/ \E u \in Urbs, r \in Requests : Submit(u, r)
           \/ \E u \in Urbs : HandlerStep(u)
           \/ UNCHANGED <<pc, request>>
<1>1. ASSUME NEW u \in Urbs, Unlink(u) PROVE UNCHANGED <<pc, request>>
  BY <1>1 DEF Unlink, DequeueUrb
<1>2. ASSUME GivebackStep \/ GivebackThreadExits \/ Tick
      PROVE  UNCHANGED <<pc, request>>
  BY <1>2 DEF GivebackStep, TakeCompleted, DeliverIsoOut, GivebackUrb,
              GivebackThreadExits, Tick, contextVars
<1>3. ASSUME NEW s \in Sessions, UserStep(s) PROVE UNCHANGED <<pc, request>>
  BY <1>3
  DEF UserStep, Open, Read, WriteInput, CompleteReply, CacheReply, SetProfile,
      Connect, Disconnect, ResetUsbDevice, Release, ReleaseDisconnects,
      ReleaseAfterStop, DisconnectLocked, contextVars
<1>4. ASSUME HostStep PROVE UNCHANGED <<pc, request>>
  BY <1>4 DEF HostStep, HubNoticesChange, HubEnumerates, BeginRemove, StopHcd,
              ClearPortFeature, contextVars
<1> QED
  BY <1>1, <1>2, <1>3, <1>4 DEF Next

LEMMA HandlerInductive ==
    ASSUME TypeOK, HandlerInv, [Next]_vars
    PROVE  HandlerInv'
<1>1. CASE UNCHANGED <<pc, request>>
  BY <1>1, HandlerKept DEF HandlerInv, StepsInv
<1>2. CASE UNCHANGED vars
  BY <1>1, <1>2 DEF vars, contextVars
<1> QED
  BY <1>1, <1>2, HandlerSubmit, HandlerHandlers, HandlersQuiet

LEMMA HandlerInit == Init => HandlerInv
BY DEF Init, HandlerInv, SerialInv, StepsInv

(***************************************************************************)
(* AudioFlagSettles.                                                       *)
(*                                                                         *)
(* The flag is written one step after the alternate setting, so between    *)
(* the two the invariant says what the setting is: a reset of the device   *)
(* may take it back in the meantime, but unconfigures the device, and only *)
(* a change of configuration, which waits its turn, configures it again.   *)
(***************************************************************************)
AudioSteps == {"configured", "audio_off", "audio"}
AltInv ==
    \A u \in Urbs :
        /\ pc[u] \in {"configured", "audio_off"} => audio_out_altsetting = 0
        /\ pc[u] = "audio" /\ configuration = 1
           => audio_out_altsetting = request[u].arg
AudioInv == AltInv /\ AudioFlagSettles

(* A step of which neither the device nor the flag takes notice.           *)
LEMMA AudioKept ==
    ASSUME AudioInv,
           UNCHANGED <<configuration, audio_out_altsetting, stopping>>,
           "AUDIO_ENABLED" \in status_flags' <=> "AUDIO_ENABLED" \in status_flags,
           \A u \in Urbs : pc[u] \in AudioSteps \/ pc'[u] \in AudioSteps
                               => pc'[u] = pc[u] /\ request'[u] = request[u],
           \A s \in Sessions : user[s] \in {"resetting", "closing_reset"}
                                   => user'[s] = user[s]
    PROVE  AudioInv'
<1>1. AltInv'
  BY DEF AudioInv, AltInv, AudioSteps
<1>2. AudioFlagSettles'
  BY DEF AudioInv, AudioFlagSettles, AudioSteps
<1> QED
  BY <1>1, <1>2 DEF AudioInv

LEMMA AudioSubmit ==
    ASSUME IInv, AudioInv, NEW u \in Urbs, NEW r \in Requests, Submit(u, r)
    PROVE  AudioInv'
<1>1. /\ ctx[u] = "UNUSED" /\ pc' = [pc EXCEPT ![u] = "handle"]
      /\ request' = [request EXCEPT ![u] = r]
      /\ UNCHANGED <<configuration, audio_out_altsetting, stopping,
                     status_flags, user>>
  BY DEF Submit, usbVars, portVars, userVars
<1>2. /\ pc[u] = "none"
      /\ pc \in [Urbs -> Steps] /\ request \in [Urbs -> Request]
  BY <1>1 DEF IInv, CoreInv, RequestInv, TypeOK, ContextTypes
<1>3. \A v \in Urbs : pc[v] \in AudioSteps \/ pc'[v] \in AudioSteps
                          => pc'[v] = pc[v] /\ request'[v] = request[v]
  BY <1>1, <1>2 DEF AudioSteps
<1> QED
  BY <1>1, <1>3, AudioKept

(* The handlers of other requests.                                         *)
LEMMA AudioOthers ==
    ASSUME IInv, AudioInv, NEW u \in Urbs,
           \/ HandleOther(u) \/ HandleHidIn(u) \/ HandleHidOut(u)
           \/ HandleFeatureSet(u) \/ HandleFeatureGet(u)
           \/ DeferFeatureGet(u) \/ RequestFeature(u)
           \/ EnqueueInterfaceEvent(u) \/ HandleOtherInterface(u)
           \/ ScheduleIsoOut(u) \/ ScheduleIsoIn(u) \/ QueueResult(u)
    PROVE  AudioInv'
<1>1. /\ pc[u] \notin AudioSteps
      /\ \E step \in Steps \ AudioSteps : pc' = [pc EXCEPT ![u] = step]
  BY DEF HandleOther, HandleHidIn, HandleHidOut, HandleFeatureSet,
         HandleFeatureGet, DeferFeatureGet, RequestFeature,
         EnqueueInterfaceEvent, HandleOtherInterface, ScheduleIsoOut,
         ScheduleIsoIn, QueueResult, Handling, HandlerReturns, Goto, Steps,
         AudioSteps
<1>2. UNCHANGED <<configuration, audio_out_altsetting, stopping, status_flags,
                  user, request>>
  BY DEF HandleOther, HandleHidIn, HandleHidOut, HandleFeatureSet,
         HandleFeatureGet, DeferFeatureGet, RequestFeature,
         EnqueueInterfaceEvent, HandleOtherInterface, ScheduleIsoOut,
         ScheduleIsoIn, QueueResult, usbVars, portVars, userVars
<1>3. pc \in [Urbs -> Steps]
  BY DEF IInv, TypeOK, ContextTypes
<1>4. \A v \in Urbs : pc[v] \in AudioSteps \/ pc'[v] \in AudioSteps
                          => pc'[v] = pc[v]
  BY <1>1, <1>3
<1> QED
  BY <1>2, <1>4, AudioKept

(* A handler that is at one of the steps of a change of configuration or   *)
(* alternate setting is the only one.                                      *)
LEMMA AudioAlone ==
    ASSUME HandlerInv, NEW u \in Urbs, NEW v \in Urbs \ {u},
           \/ Handling(u, "set_configuration") \/ Handling(u, "set_interface")
           \/ pc[u] \in AudioSteps
    PROVE  pc[v] \notin AudioSteps
<1>1. request[u].kind \in ConfigKinds /\ pc[u] # "none"
  BY DEF HandlerInv, StepsInv, AudioSteps, Handling, ConfigKinds
<1>2. pc[v] \in AudioSteps
      => request[v].kind \in ConfigKinds /\ pc[v] # "none"
  BY DEF HandlerInv, StepsInv, AudioSteps, ConfigKinds
<1> QED
  BY <1>1, <1>2 DEF HandlerInv, SerialInv

LEMMA AudioHandlers ==
    ASSUME IInv, HandlerInv, AudioInv, NEW u \in Urbs,
           \/ HandleSetConfiguration(u) \/ SetConfiguredStatus(u)
           \/ ClearAudioStatus(u) \/ HandleSetInterface(u)
           \/ SetAudioStatus(u)
    PROVE  AudioInv'
<1>1. pc \in [Urbs -> Steps] /\ audio_out_altsetting \in {0, 1}
  BY DEF IInv, TypeOK, ContextTypes, DeviceTypes
<1>2. \A v \in Urbs \ {u} : pc[v] \notin AudioSteps
  BY AudioAlone DEF HandleSetConfiguration, SetConfiguredStatus,
                    ClearAudioStatus, HandleSetInterface, SetAudioStatus,
                    AudioSteps
<1>3. UNCHANGED <<request, stopping, user>>
  BY DEF HandleSetConfiguration, SetConfiguredStatus, ClearAudioStatus,
         HandleSetInterface, SetAudioStatus, portVars, userVars
<1>4. CASE HandleSetConfiguration(u) \/ SetConfiguredStatus(u)
  <2>1. /\ pc' = [pc EXCEPT ![u] = "configured"]
           \/ pc' = [pc EXCEPT ![u] = "audio_off"]
        /\ audio_out_altsetting' = 0
    BY <1>4 DEF HandleSetConfiguration, SetConfiguredStatus, Goto, usbVars,
                AudioInv, AltInv
  <2> QED
    BY <1>1, <1>2, <2>1 DEF AudioInv, AltInv, AudioFlagSettles, AudioSteps
<1>5. CASE ClearAudioStatus(u)
  <2>1. /\ pc' = [pc EXCEPT ![u] = "queue"]
        /\ audio_out_altsetting' = 0 /\ "AUDIO_ENABLED" \notin status_flags'
    BY <1>5 DEF ClearAudioStatus, AudioCleared, HandlerReturns, usbVars,
                AudioInv, AltInv
  <2> QED
    BY <1>1, <1>2, <2>1 DEF AudioInv, AltInv, AudioFlagSettles, AudioSteps
<1>6. CASE HandleSetInterface(u)
  <2>1. /\ pc' = [pc EXCEPT ![u] = "audio"]
        /\ audio_out_altsetting' = request[u].arg
    BY <1>6 DEF HandleSetInterface, Goto
  <2> QED
    BY <1>1, <1>2, <1>3, <2>1
    DEF AudioInv, AltInv, AudioFlagSettles, AudioSteps
<1>7. CASE SetAudioStatus(u)
  <2>1. /\ pc' = [pc EXCEPT ![u] = "interface_event"] /\ pc[u] = "audio"
        /\ UNCHANGED <<configuration, audio_out_altsetting>>
        /\ "AUDIO_ENABLED" \in status_flags' <=> request[u].arg = 1
    BY <1>7 DEF SetAudioStatus, Goto, usbVars
  <2>2. configuration = 1 => audio_out_altsetting = request[u].arg
    BY <2>1 DEF AudioInv, AltInv
  <2> QED
    BY <1>1, <1>2, <2>1, <2>2 DEF AudioInv, AltInv, AudioFlagSettles, AudioSteps
<1> QED
  BY <1>4, <1>5, <1>6, <1>7

LEMMA AudioSessions ==
    ASSUME IInv, AudioInv, NEW s \in Sessions, UserStep(s)
    PROVE  AudioInv'
<1>1. user \in [Sessions -> UserStates]
  BY DEF IInv, TypeOK, UserTypes
<1>2. UNCHANGED <<pc, request, stopping>>
  BY DEF UserStep, Open, Read, WriteInput, CacheReply, CompleteReply,
         SetProfile, Connect, Disconnect, ResetUsbDevice, Release,
         ReleaseDisconnects, ReleaseAfterStop, DisconnectLocked, contextVars,
         portVars
<1>3. CASE \/ Open(s) \/ Read(s) \/ WriteInput(s) \/ CompleteReply(s)
           \/ \E f \in FeatureIds : CacheReply(s, f)
           \/ Connect(s) \/ Release(s) \/ ReleaseAfterStop(s)
  <2>1. /\ UNCHANGED <<configuration, audio_out_altsetting>>
        /\ "AUDIO_ENABLED" \in status_flags'
           <=> "AUDIO_ENABLED" \in status_flags
    BY <1>3 DEF Open, Read, WriteInput, CacheReply, CompleteReply, Connect,
                Release, ReleaseAfterStop, usbVars, portVars
  <2>2. /\ user[s] \notin {"resetting", "closing_reset"}
        /\ \/ user' = user
           \/ \E state \in UserStates : user' = [user EXCEPT ![s] = state]
    BY <1>3 DEF Open, Read, WriteInput, CacheReply, CompleteReply, Connect,
                Release, ReleaseAfterStop, UserStates, userVars
  <2>3. \A t \in Sessions : user[t] \in {"resetting", "closing_reset"}
                                => user'[t] = user[t]
    BY <1>1, <2>2
  <2> QED
    BY <1>2, <2>1, <2>3, AudioKept
<1>4. CASE SetProfile(s) \/ ResetUsbDevice(s)
  <2>1. configuration' = 0 /\ audio_out_altsetting' = 0
    BY <1>4 DEF SetProfile, ResetUsbDevice
  <2> QED
    BY <2>1 DEF AudioInv, AltInv, AudioFlagSettles
<1>5. CASE Disconnect(s) \/ ReleaseDisconnects(s)
  <2>1. /\ UNCHANGED <<configuration, audio_out_altsetting>>
        /\ user'[s] \in {"resetting", "closing_reset"}
    BY <1>1, <1>5 DEF Disconnect, ReleaseDisconnects, DisconnectLocked, usbVars
  <2> QED
    BY <1>2, <2>1 DEF AudioInv, AltInv, AudioFlagSettles
<1> QED
  BY <1>3, <1>4, <1>5 DEF UserStep

LEMMA AudioInductive ==
    ASSUME IInv, HandlerInv, AudioInv, [Next]_vars
    PROVE  AudioInv'
<1>1. CASE \E u \in Urbs, r \in Requests : Submit(u, r)
  BY <1>1, AudioSubmit
<1>2. CASE \E u \in Urbs : HandlerStep(u)
  BY <1>2, AudioOthers, AudioHandlers DEF HandlerStep
<1>3. ASSUME \/ UNCHANGED vars \/ \E u \in Urbs : Unlink(u)
             \/ GivebackStep \/ GivebackThreadExits \/ Tick
             \/ HubNoticesChange \/ HubEnumerates \/ BeginRemove
             \/ \E f \in PortClears : ClearPortFeature(f)
      PROVE  AudioInv'
  <2>1. UNCHANGED <<configuration, audio_out_altsetting, stopping,
                    status_flags, pc, request, user>>
    BY <1>3
    DEF vars, Unlink, DequeueUrb, GivebackStep, TakeCompleted, DeliverIsoOut,
        GivebackUrb, GivebackThreadExits, Tick, HubNoticesChange,
        HubEnumerates, BeginRemove, ClearPortFeature, contextVars, portVars,
        usbVars, userVars
  <2> QED
    BY <2>1, AudioKept
<1>4. CASE StopHcd
  <2>1. stopping' /\ UNCHANGED <<configuration, audio_out_altsetting, pc, request>>
    BY <1>4 DEF StopHcd, usbVars
  <2> QED
    BY <2>1 DEF AudioInv, AltInv, AudioFlagSettles
<1>5. CASE \E s \in Sessions : UserStep(s)
  BY <1>5, AudioSessions
<1> QED
  BY <1>1, <1>2, <1>3, <1>4, <1>5 DEF Next, HostStep

(* AUDIO_ENABLED agrees with the alternate setting of a configured device  *)
(* once control requests and resets have settled, however a                *)
(* SET_CONFIGURATION or SET_INTERFACE, whose handlers write the device and *)
(* the status flags in separate critical sections, and the resets of       *)
(* several openers of /dev/vdsN overlap.                                   *)
THEOREM AudioCorrect == Spec => []AudioFlagSettles
<1>1. Init => HandlerInv /\ AudioInv
  BY HandlerInit
  DEF Init, AudioInv, AltInv, AudioFlagSettles
<1>2. /\ IInv /\ HandlerInv /\ AudioInv /\ [Next]_vars
      => HandlerInv' /\ AudioInv'
  BY HandlerInductive, AudioInductive DEF IInv
<1>3. AudioInv => AudioFlagSettles
  BY DEF AudioInv
<1> QED
  BY <1>1, <1>2, <1>3, Invariance, PTL DEF Spec

(***************************************************************************)
(* DeferredIsRequested.                                                    *)
(***************************************************************************)

(* No submission is of a connection to come, a connected port is known to  *)
(* vds_release by its status flag, and nothing waits in a stopped driver.  *)
BornInv == \A u \in Urbs : born[u] <= epoch
ConnectedInv ==
    "CONNECTION" \in port_status /\ ~stopping => "CONNECTED" \in status_flags
StoppedInv == stopping => pending_feature_get = <<>>
LinkInv == BornInv /\ ConnectedInv /\ StoppedInv

LEMMA EmptyListDel ==
    ASSUME NEW u
    PROVE  ListDel(<<>>, u) = <<>>
BY DEF ListDel, Range

LEMMA LinkKept ==
    ASSUME LinkInv,
           UNCHANGED <<born, epoch, port_status, stopping>>,
           "CONNECTED" \in status_flags => "CONNECTED" \in status_flags',
           stopping /\ pending_feature_get = <<>> => pending_feature_get' = <<>>
    PROVE  LinkInv'
BY DEF LinkInv, BornInv, ConnectedInv, StoppedInv

LEMMA LinkHandlers ==
    ASSUME IInv, LinkInv, NEW u \in Urbs, HandlerStep(u)
    PROVE  LinkInv'
<1>1. /\ UNCHANGED <<born, epoch, port_status, stopping>>
      /\ "CONNECTED" \in status_flags => "CONNECTED" \in status_flags'
  BY DEF HandlerStep, HandleOther, HandleHidIn, HandleHidOut,
         HandleFeatureSet, HandleFeatureGet, DeferFeatureGet, RequestFeature,
         HandleSetConfiguration, SetConfiguredStatus, ClearAudioStatus,
         HandleSetInterface, SetAudioStatus, EnqueueInterfaceEvent,
         HandleOtherInterface, ScheduleIsoOut, ScheduleIsoIn, QueueResult,
         AudioCleared, portVars
<1>2. ASSUME QueueResult(u), pending_feature_get = <<>>
      PROVE  pending_feature_get' = <<>>
  BY <1>2, EmptyListDel DEF QueueResult, QueueGivebackLocked, listVars
<1>3. ASSUME ~QueueResult(u), stopping
      PROVE  pending_feature_get' = pending_feature_get
  BY <1>3
  DEF HandlerStep, HandleOther, HandleHidIn, HandleHidOut, HandleFeatureSet,
      HandleFeatureGet, DeferFeatureGet, RequestFeature,
      HandleSetConfiguration, SetConfiguredStatus, ClearAudioStatus,
      HandleSetInterface, SetAudioStatus, EnqueueInterfaceEvent,
      HandleOtherInterface, ScheduleIsoOut, ScheduleIsoIn, listVars
<1> QED
  BY <1>1, <1>2, <1>3, LinkKept

LEMMA LinkSessions ==
    ASSUME IInv, LinkInv, NEW s \in Sessions, UserStep(s)
    PROVE  LinkInv'
<1>1. CASE \/ Open(s) \/ Read(s) \/ WriteInput(s) \/ CompleteReply(s)
           \/ \E f \in FeatureIds : CacheReply(s, f)
           \/ SetProfile(s) \/ ResetUsbDevice(s) \/ Release(s)
           \/ ReleaseAfterStop(s)
  <2>1. UNCHANGED <<born, epoch, port_status, stopping>>
    BY <1>1 DEF Open, Read, WriteInput, CacheReply, CompleteReply, SetProfile,
                ResetUsbDevice, Release, ReleaseAfterStop, contextVars,
                portVars
  <2>2. "CONNECTED" \in status_flags => "CONNECTED" \in status_flags'
    BY <1>1 DEF Open, Read, WriteInput, CacheReply, CompleteReply, SetProfile,
                ResetUsbDevice, Release, ReleaseAfterStop, portVars,
                UsbDeviceStatus
  <2>3. stopping => pending_feature_get' = pending_feature_get
    BY <1>1 DEF Open, Read, WriteInput, CacheReply, CompleteReply, SetProfile,
                ResetUsbDevice, Release, ReleaseAfterStop, listVars
  <2> QED
    BY <2>1, <2>2, <2>3, LinkKept
<1>2. CASE Connect(s)
  <2>1. /\ ~stopping /\ UNCHANGED <<born, stopping>>
        /\ "CONNECTED" \in status_flags'
        /\ epoch' = epoch \/ epoch' = epoch + 1
    BY <1>2 DEF Connect, contextVars
  <2>2. born \in [Urbs -> Nat] /\ epoch \in Nat
    BY DEF IInv, TypeOK, ContextTypes, HubTypes
  <2> QED
    BY <2>1, <2>2 DEF LinkInv, BornInv, ConnectedInv, StoppedInv
<1>3. CASE Disconnect(s) \/ ReleaseDisconnects(s)
  <2>1. /\ UNCHANGED <<born, stopping>> /\ "CONNECTION" \notin port_status'
        /\ pending_feature_get' = <<>>
        /\ epoch' = epoch \/ epoch' = epoch + 1
    BY <1>3 DEF Disconnect, ReleaseDisconnects, DisconnectLocked,
                PortDisconnected, CancelPending
  <2>2. born \in [Urbs -> Nat] /\ epoch \in Nat
    BY DEF IInv, TypeOK, ContextTypes, HubTypes
  <2> QED
    BY <2>1, <2>2 DEF LinkInv, BornInv, ConnectedInv, StoppedInv
<1> QED
  BY <1>1, <1>2, <1>3 DEF UserStep

LEMMA LinkHost ==
    ASSUME LinkInv, HostStep
    PROVE  LinkInv'
<1>1. CASE StopHcd
  BY <1>1 DEF StopHcd, CancelPending, LinkInv, BornInv, ConnectedInv,
              StoppedInv
<1>2. CASE \/ HubNoticesChange \/ HubEnumerates \/ BeginRemove
           \/ \E f \in PortClears : ClearPortFeature(f)
  <2>1. /\ UNCHANGED <<born, epoch, stopping, status_flags,
                       pending_feature_get>>
        /\ "CONNECTION" \in port_status' => "CONNECTION" \in port_status
    BY <1>2 DEF HubNoticesChange, HubEnumerates, BeginRemove,
                ClearPortFeature, contextVars, listVars, portVars
  <2> QED
    BY <2>1 DEF LinkInv, BornInv, ConnectedInv, StoppedInv
<1> QED
  BY <1>1, <1>2 DEF HostStep

LEMMA LinkInductive ==
    ASSUME IInv, LinkInv, [Next]_vars
    PROVE  LinkInv'
<1>1. ASSUME NEW u \in Urbs, NEW r \in Requests, Submit(u, r)
      PROVE  LinkInv'
  <2>1. /\ born' = [born EXCEPT ![u] = epoch]
        /\ UNCHANGED <<epoch, port_status, stopping, status_flags,
                       pending_feature_get>>
    BY <1>1 DEF Submit, portVars, listVars
  <2>2. born \in [Urbs -> Nat] /\ epoch \in Nat
    BY DEF IInv, TypeOK, ContextTypes, HubTypes
  <2> QED
    BY <2>1, <2>2 DEF LinkInv, BornInv, ConnectedInv, StoppedInv
<1>2. ASSUME NEW u \in Urbs, Unlink(u) PROVE LinkInv'
  BY <1>2, EmptyListDel, LinkKept
  DEF Unlink, DequeueUrb, QueueGivebackLocked, listVars, portVars
<1>3. CASE \/ UNCHANGED vars \/ GivebackStep \/ GivebackThreadExits \/ Tick
  BY <1>3, LinkKept
  DEF vars, GivebackStep, TakeCompleted, DeliverIsoOut, GivebackUrb,
      GivebackThreadExits, Tick, contextVars, listVars, portVars
<1> QED
  BY <1>1, <1>2, <1>3, LinkHandlers, LinkSessions, LinkHost DEF Next

(* A request for a report stays where it is, is read, or is joined by      *)
(* others.                                                                 *)
LEMMA RequestedKept ==
    ASSUME TypeOK, RequestInv,
           \A u \in Urbs : ctx[u] # "UNUSED" => request'[u] = request[u],
           \A i \in 1..Len(events) :
               \E j \in 1..Len(events') : events'[j] = events[i],
           \A s \in Sessions : asked[s] \subseteq asked'[s],
           \A s \in Sessions : user[s] = "closing" => user'[s] = "closing",
           NEW f, Requested(f)
    PROVE  Requested(f)'
<1>1. CASE \E i \in 1..Len(events) : /\ events[i].type = "FEATURE_GET"
                                     /\ request[events[i].urb].arg = f
  <2>1. PICK i \in 1..Len(events) : /\ events[i].type = "FEATURE_GET"
                                    /\ request[events[i].urb].arg = f
    BY <1>1
  <2>2. PICK j \in 1..Len(events') : events'[j] = events[i]
    OBVIOUS
  <2>3. events[i].urb \in Urbs /\ ctx[events[i].urb] # "UNUSED"
    BY <2>1, FrameUrbs DEF RequestInv, TypeOK, QueueTypes
  <2> QED
    BY <2>1, <2>2, <2>3 DEF Requested
<1>2. CASE \E s \in Sessions : f \in asked[s] \/ user[s] = "closing"
  BY <1>2 DEF Requested
<1> QED
  BY <1>1, <1>2 DEF Requested

(* A step that lets no GET_REPORT start to wait.                           *)
LEMMA DeferredKept ==
    ASSUME DeferredIsRequested,
           \A u \in Urbs :
               ctx'[u] = "PENDING_FEATURE_GET" /\ pc'[u] = "none" /\ Current(u)'
               => /\ ctx[u] = "PENDING_FEATURE_GET" /\ pc[u] = "none"
                  /\ Current(u) /\ request'[u] = request[u]
                  /\ Requested(request[u].arg) => Requested(request[u].arg)'
    PROVE  DeferredIsRequested'
BY DEF DeferredIsRequested

(* ... nor takes a request away.                                           *)
LEMMA DeferredQuiet ==
    ASSUME IInv, DeferredIsRequested,
           UNCHANGED <<born, epoch, port_status>>,
           \A u \in Urbs :
               ctx'[u] = "PENDING_FEATURE_GET" /\ pc'[u] = "none"
               => ctx[u] = "PENDING_FEATURE_GET" /\ pc[u] = "none",
           \A u \in Urbs : ctx[u] # "UNUSED" => request'[u] = request[u],
           \A i \in 1..Len(events) :
               \E j \in 1..Len(events') : events'[j] = events[i],
           \A s \in Sessions : asked[s] \subseteq asked'[s],
           \A s \in Sessions : user[s] = "closing" => user'[s] = "closing"
    PROVE  DeferredIsRequested'
<1>1. \A f : Requested(f) => Requested(f)'
  BY RequestedKept DEF IInv, CoreInv
<1>2. \A u \in Urbs : Current(u)' => Current(u)
  BY DEF Current
<1> QED
  BY <1>1, <1>2, DeferredKept

(* After a step that cancels everything nothing waits.                     *)
LEMMA DeferredEmpty ==
    ASSUME TypeOK', OnePlace', pending_feature_get' = <<>>
    PROVE  DeferredIsRequested'
<1>1. Range(pending_feature_get') = {}
  BY DEF Range
<1>2. \A u \in Urbs : ctx'[u] # "PENDING_FEATURE_GET"
  BY <1>1 DEF OnePlace, InState
<1> QED
  BY <1>2 DEF DeferredIsRequested

(* Frames are only ever added behind the ones in the queue.                *)
LEMMA FramesGrow ==
    ASSUME TypeOK,
           \/ UNCHANGED eventVars
           \/ \E type \in FrameTypes, u \in Urbs :
                  EnqueueFrame(type, u) \/ EnqueueBestEffort(type, u)
    PROVE  \A i \in 1..Len(events) :
               \E j \in 1..Len(events') : events'[j] = events[i]
<1>1. events \in Seq(Event) /\ next_sequence \in Nat
  BY DEF TypeOK, QueueTypes
<1>2. CASE UNCHANGED eventVars
  BY <1>1, <1>2 DEF eventVars
<1>3. ASSUME NEW type \in FrameTypes, NEW u \in Urbs, EnqueueFrame(type, u)
      PROVE  \A i \in 1..Len(events) :
                 i \in 1..Len(events') /\ events'[i] = events[i]
  <2> DEFINE e == [type |-> type, urb |-> u, sequence |-> next_sequence]
  <2>1. e \in Event /\ events' = Append(events, e)
    BY <1>1, <1>3 DEF Event, EnqueueFrame
  <2> HIDE DEF e
  <2> QED
    BY <1>1, <2>1
<1> QED
  BY <1>2, <1>3 DEF EnqueueBestEffort

LEMMA DeferredHandlers ==
    ASSUME IInv, DeferredIsRequested, NEW u \in Urbs, HandlerStep(u)
    PROVE  DeferredIsRequested'
<1>0. /\ ctx \in [Urbs -> ContextStates] /\ pc \in [Urbs -> Steps]
      /\ events \in Seq(Event) /\ next_sequence \in Nat
  BY DEF IInv, TypeOK, ContextTypes, QueueTypes
<1>1. UNCHANGED <<born, epoch, port_status, request, asked, user>>
  BY DEF HandlerStep, HandleOther, HandleHidIn, HandleHidOut,
         HandleFeatureSet, HandleFeatureGet, DeferFeatureGet, RequestFeature,
         HandleSetConfiguration, SetConfiguredStatus, ClearAudioStatus,
         HandleSetInterface, SetAudioStatus, EnqueueInterfaceEvent,
         HandleOtherInterface, ScheduleIsoOut, ScheduleIsoIn, QueueResult,
         portVars, userVars
<1>2. /\ \/ ctx' = ctx
         \/ \E state \in ContextStates : ctx' = [ctx EXCEPT ![u] = state]
      /\ \E step \in Steps : pc' = [pc EXCEPT ![u] = step]
  BY DEF HandlerStep, HandleOther, HandleHidIn, HandleHidOut,
         HandleFeatureSet, HandleFeatureGet, DeferFeatureGet, RequestFeature,
         HandleSetConfiguration, SetConfiguredStatus, ClearAudioStatus,
         HandleSetInterface, SetAudioStatus, EnqueueInterfaceEvent,
         HandleOtherInterface, ScheduleIsoOut, ScheduleIsoIn, QueueResult,
         QueueGivebackLocked, HandlerReturns, Goto, ContextStates, Steps
<1>3. \A v \in Urbs \ {u} : ctx'[v] = ctx[v] /\ pc'[v] = pc[v]
  BY <1>0, <1>2
<1>4. \A i \in 1..Len(events) : \E j \in 1..Len(events') : events'[j] = events[i]
  <2>1. \/ UNCHANGED eventVars
        \/ \E type \in FrameTypes :
               EnqueueFrame(type, u) \/ EnqueueBestEffort(type, u)
    BY DEF HandlerStep, HandleOther, HandleHidIn, HandleHidOut,
           HandleFeatureSet, HandleFeatureGet, DeferFeatureGet,
           RequestFeature, HandleSetConfiguration, SetConfiguredStatus,
           ClearAudioStatus, HandleSetInterface, SetAudioStatus,
           EnqueueInterfaceEvent, HandleOtherInterface, ScheduleIsoOut,
           ScheduleIsoIn, QueueResult, FrameTypes
  <2> QED
    BY <2>1, FramesGrow DEF IInv
<1>5. CASE ~(ctx'[u] = "PENDING_FEATURE_GET" /\ pc'[u] = "none")
  BY <1>1, <1>3, <1>4, <1>5, DeferredQuiet
<1>6. CASE ctx'[u] = "PENDING_FEATURE_GET" /\ pc'[u] = "none"
  <2>1. RequestFeature(u) /\ EnqueueFrame("FEATURE_GET", u)
    <3>1. ~QueueResult(u)
      BY <1>0, <1>6 DEF QueueResult, QueueGivebackLocked, GivebackRefused
    <3>2. ~HandleHidIn(u)
      BY <1>0, <1>6 DEF HandleHidIn, HandlerReturns
    <3>3. ~DeferFeatureGet(u) /\ ~HandleFeatureGet(u)
      BY <1>0, <1>6 DEF DeferFeatureGet, HandleFeatureGet, HandlerReturns, Goto
    <3>4. ~(HandleOther(u) \/ HandleHidOut(u) \/ HandleFeatureSet(u)
            \/ HandleSetConfiguration(u) \/ SetConfiguredStatus(u)
            \/ ClearAudioStatus(u) \/ HandleSetInterface(u)
            \/ SetAudioStatus(u) \/ EnqueueInterfaceEvent(u)
            \/ HandleOtherInterface(u) \/ ScheduleIsoOut(u)
            \/ ScheduleIsoIn(u))
      BY <1>0, <1>6
      DEF HandleOther, HandleHidOut, HandleFeatureSet, HandleSetConfiguration,
          SetConfiguredStatus, ClearAudioStatus, HandleSetInterface,
          SetAudioStatus, EnqueueInterfaceEvent, HandleOtherInterface,
          ScheduleIsoOut, ScheduleIsoIn, HandlerReturns, Goto
    <3>5. RequestFeature(u)
      BY <3>1, <3>2, <3>3, <3>4 DEF HandlerStep
    <3> QED
      BY <1>0, <1>6, <3>5 DEF RequestFeature, HandlerReturns
  <2>2. Requested(request[u].arg)'
    <3> DEFINE e == [type |-> "FEATURE_GET", urb |-> u,
                     sequence |-> next_sequence]
    <3>1. /\ e \in Event /\ events' = Append(events, e)
          /\ e.type = "FEATURE_GET" /\ e.urb = u
      BY <1>0, <2>1 DEF Event, EnqueueFrame, FrameTypes
    <3> HIDE DEF e
    <3>2. /\ Len(events) + 1 \in 1..Len(events')
          /\ events'[Len(events) + 1] = e
      BY <1>0, <3>1
    <3> QED
      BY <1>1, <3>1, <3>2 DEF Requested
  <2>3. \A f : Requested(f) => Requested(f)'
    BY <1>1, <1>4, RequestedKept DEF IInv, CoreInv
  <2>4. \A v \in Urbs : Current(v)' => Current(v)
    BY <1>1 DEF Current
  <2> QED
    BY <1>1, <1>3, <2>2, <2>3, <2>4 DEF DeferredIsRequested
<1> QED
  BY <1>5, <1>6

(* The daemon takes a frame: the request is with it from then on.          *)
LEMMA DeferredRead ==
    ASSUME IInv, DeferredIsRequested, NEW s \in Sessions, Read(s)
    PROVE  DeferredIsRequested'
<1>1. /\ events # <<>> /\ events' = Tail(events)
      /\ asked' = IF Head(events).type = "FEATURE_GET"
                  THEN [asked EXCEPT ![s] =
                            @ \cup {request[Head(events).urb].arg}]
                  ELSE asked
      /\ UNCHANGED <<ctx, pc, born, request, epoch, port_status, user>>
  BY DEF Read, contextVars, portVars
<1>2. events \in Seq(Event) /\ asked \in [Sessions -> SUBSET FeatureIds]
  BY DEF IInv, TypeOK, QueueTypes, UserTypes
<1>3. \A t \in Sessions : asked[t] \subseteq asked'[t]
  BY <1>1, <1>2
<1>4. ASSUME NEW f, Requested(f) PROVE Requested(f)'
  <2>1. ASSUME NEW i \in 1..Len(events), events[i].type = "FEATURE_GET",
               request[events[i].urb].arg = f
        PROVE  Requested(f)'
    <3>1. CASE i = 1
      <4>1. Head(events) = events[i]
        BY <1>1, <1>2, <3>1
      <4>2. f \in asked'[s]
        BY <1>1, <1>2, <2>1, <4>1
      <4> QED
        BY <4>2 DEF Requested
    <3>2. CASE i # 1
      <4>1. i - 1 \in 1..Len(events') /\ events'[i - 1] = events[i]
        BY <1>1, <1>2, <3>2
      <4> QED
        BY <1>1, <2>1, <4>1 DEF Requested
    <3> QED
      BY <3>1, <3>2
  <2>2. CASE \E t \in Sessions : f \in asked[t] \/ user[t] = "closing"
    BY <1>1, <1>3, <2>2 DEF Requested
  <2> QED
    BY <1>4, <2>1, <2>2 DEF Requested
<1> QED
  BY <1>1, <1>4, DeferredKept DEF Current

(* An answer is taken off the daemon's list with every URB that waits for  *)
(* it.                                                                     *)
LEMMA DeferredCompleteReply ==
    ASSUME IInv, IInv', LinkInv, DeferredIsRequested, NEW s \in Sessions,
           CompleteReply(s)
    PROVE  DeferredIsRequested'
<1>1. CASE stopping
  <2>1. pending_feature_get' = <<>>
    BY <1>1 DEF CompleteReply, LinkInv, StoppedInv
  <2> QED
    BY <2>1, DeferredEmpty DEF IInv, CoreInv
<1>2. CASE ~stopping
  <2>1. /\ user' = [user EXCEPT ![s] = "open"] /\ user[s] = "replying"
        /\ asked' = [asked EXCEPT ![s] = @ \ {replying[s]}]
        /\ UNCHANGED <<pc, born, request, epoch, port_status, events>>
        /\ ctx' = [u \in Urbs |-> IF u \in Answered(replying[s])
                                  THEN "PENDING_GIVEBACK" ELSE ctx[u]]
    BY <1>2 DEF CompleteReply, portVars, eventVars
  <2>2. /\ asked \in [Sessions -> SUBSET FeatureIds]
        /\ user \in [Sessions -> UserStates]
    BY DEF IInv, TypeOK, UserTypes
  <2>3. ASSUME NEW u \in Urbs, ctx'[u] = "PENDING_FEATURE_GET"
        PROVE  ctx[u] = "PENDING_FEATURE_GET" /\ request[u].arg # replying[s]
    <3>1. ctx[u] = "PENDING_FEATURE_GET" /\ u \notin Answered(replying[s])
      BY <2>1, <2>3
    <3>2. u \in Range(pending_feature_get)
      BY <3>1 DEF IInv, CoreInv, OnePlace, InState
    <3> QED
      BY <3>1, <3>2 DEF Answered
  <2>4. ASSUME NEW f, f # replying[s], Requested(f) PROVE Requested(f)'
    <3>1. \A t \in Sessions : /\ f \in asked[t] => f \in asked'[t]
                              /\ user[t] = "closing" => user'[t] = "closing"
      BY <2>1, <2>2, <2>4
    <3> QED
      BY <2>1, <2>4, <3>1 DEF Requested
  <2>5. \A u \in Urbs : Current(u)' => Current(u)
    BY <2>1 DEF Current
  <2> QED
    BY <2>1, <2>3, <2>4, <2>5, DeferredKept
<1> QED
  BY <1>1, <1>2

(* vds_release drops what the daemon was asked for, but only after which   *)
(* the port is disconnected.                                               *)
LEMMA DeferredRelease ==
    ASSUME IInv, IInv', LinkInv, DeferredIsRequested, NEW s \in Sessions,
           Release(s)
    PROVE  DeferredIsRequested'
<1>1. /\ user' = [user EXCEPT ![s] = IF "CONNECTED" \in status_flags
                                     THEN "closing" ELSE "closed"]
      /\ UNCHANGED <<pending_feature_get, port_status, stopping>>
  BY DEF Release, listVars
<1>2. user \in [Sessions -> UserStates]
  BY DEF IInv, TypeOK, UserTypes
<1>3. CASE "CONNECTED" \in status_flags
  <2>1. user'[s] = "closing"
    BY <1>1, <1>2, <1>3
  <2> QED
    BY <2>1 DEF DeferredIsRequested, Requested
<1>4. CASE "CONNECTION" \notin port_status
  BY <1>1, <1>4 DEF DeferredIsRequested, Current
<1>5. CASE stopping
  BY <1>1, <1>5, DeferredEmpty DEF LinkInv, StoppedInv, IInv, CoreInv
<1> QED
  BY <1>3, <1>4, <1>5 DEF LinkInv, ConnectedInv

LEMMA DeferredSessions ==
    ASSUME IInv, IInv', LinkInv, DeferredIsRequested, NEW s \in Sessions,
           UserStep(s)
    PROVE  DeferredIsRequested'
<1>0. /\ ctx \in [Urbs -> ContextStates] /\ born \in [Urbs -> Nat]
      /\ epoch \in Nat /\ user \in [Sessions -> UserStates]
  BY DEF IInv, TypeOK, ContextTypes, HubTypes, UserTypes
<1>1. CASE \/ Open(s) \/ WriteInput(s) \/ SetProfile(s) \/ ResetUsbDevice(s)
           \/ \E f \in FeatureIds : CacheReply(s, f)
  <2>1. UNCHANGED <<born, epoch, port_status, pc, request, events, asked>>
    BY <1>1 DEF Open, WriteInput, SetProfile, ResetUsbDevice, CacheReply,
                contextVars, eventVars, portVars, userVars
  <2>2. \/ user' = user
        \/ /\ user[s] # "closing"
           /\ \E state \in UserStates : user' = [user EXCEPT ![s] = state]
    BY <1>1 DEF Open, WriteInput, SetProfile, ResetUsbDevice, CacheReply,
                userVars, UserStates
  <2>3. ctx' = ctx \/ \E u : ctx' = [ctx EXCEPT ![u] = "PENDING_GIVEBACK"]
    BY <1>1 DEF Open, WriteInput, SetProfile, ResetUsbDevice, CacheReply,
                contextVars
  <2>4. \A u \in Urbs : ctx'[u] = "PENDING_FEATURE_GET"
                            => ctx[u] = "PENDING_FEATURE_GET"
    BY <1>0, <2>3
  <2>5. \A t \in Sessions : user[t] = "closing" => user'[t] = "closing"
    BY <1>0, <2>2
  <2>6. \A i \in 1..Len(events) : events'[i] = events[i] /\ i \in 1..Len(events')
    BY <2>1
  <2> QED
    BY <2>1, <2>4, <2>5, <2>6, DeferredQuiet
<1>2. CASE Connect(s)
  <2>1. /\ UNCHANGED <<born, pc, request, ctx, events, asked, user>>
        /\ \/ "CONNECTION" \in port_status /\ epoch' = epoch
           \/ epoch' = epoch + 1
    BY <1>2 DEF Connect, contextVars, eventVars, userVars
  <2>2. \A u \in Urbs : Current(u)' => Current(u)
    BY <1>0, <2>1 DEF Current, LinkInv, BornInv
  <2> QED
    BY <2>1, <2>2, DeferredKept DEF Requested
<1>3. CASE Disconnect(s) \/ ReleaseDisconnects(s)
  BY <1>3, DeferredEmpty
  DEF Disconnect, ReleaseDisconnects, DisconnectLocked, CancelPending, IInv,
      CoreInv
<1>4. CASE ReleaseAfterStop(s)
  BY <1>4, DeferredEmpty
  DEF ReleaseAfterStop, listVars, LinkInv, StoppedInv, IInv, CoreInv
<1> QED
  BY <1>1, <1>2, <1>3, <1>4, DeferredRead, DeferredCompleteReply,
     DeferredRelease DEF UserStep

LEMMA DeferredOthers ==
    ASSUME IInv, DeferredIsRequested,
           \/ \E u \in Urbs, r \in Requests : Submit(u, r)
           \/ \E u \in Urbs : Unlink(u)
           \/ GivebackStep \/ GivebackThreadExits \/ Tick
    PROVE  DeferredIsRequested'
<1>0. /\ ctx \in [Urbs -> ContextStates] /\ pc \in [Urbs -> Steps]
      /\ request \in [Urbs -> Request] /\ born \in [Urbs -> Nat]
  BY DEF IInv, TypeOK, ContextTypes
<1>1. ASSUME NEW u \in Urbs, NEW r \in Requests, Submit(u, r)
      PROVE  DeferredIsRequested'
  <2>1. /\ ctx[u] = "UNUSED" /\ ctx' = [ctx EXCEPT ![u] = "ACTIVE"]
        /\ pc' = [pc EXCEPT ![u] = "handle"]
        /\ request' = [request EXCEPT ![u] = r]
        /\ born' = [born EXCEPT ![u] = epoch]
        /\ UNCHANGED <<events, asked, user, epoch, port_status>>
    BY <1>1 DEF Submit, eventVars, userVars, portVars
  <2>2. \A v \in Urbs : ctx[v] # "UNUSED" => request'[v] = request[v]
    BY <1>0, <2>1
  <2>3. \A f : Requested(f) => Requested(f)'
    BY <2>1, <2>2, RequestedKept DEF IInv, CoreInv
  <2>4. \A v \in Urbs : ctx'[v] = "PENDING_FEATURE_GET"
            => /\ ctx[v] = "PENDING_FEATURE_GET" /\ pc'[v] = pc[v]
               /\ request'[v] = request[v] /\ born'[v] = born[v]
    BY <1>0, <2>1
  <2> QED
    BY <2>1, <2>3, <2>4, DeferredKept DEF Current
<1>2. CASE \/ \E u \in Urbs : Unlink(u)
           \/ GivebackStep \/ GivebackThreadExits \/ Tick
  <2>1. UNCHANGED <<born, epoch, port_status, pc, request, asked, user>>
    BY <1>2 DEF Unlink, DequeueUrb, GivebackStep, TakeCompleted,
                DeliverIsoOut, GivebackUrb, GivebackThreadExits, Tick,
                contextVars, portVars, userVars
  <2>2. \/ ctx' = ctx
        \/ \E state \in ContextStates \ {"PENDING_FEATURE_GET"} :
               \E u : ctx' = [ctx EXCEPT ![u] = state]
    <3>1. ASSUME NEW u \in Urbs, Unlink(u)
          PROVE  ctx' = ctx \/ ctx' = [ctx EXCEPT ![u] = "PENDING_GIVEBACK"]
      BY <3>1 DEF Unlink, DequeueUrb, QueueGivebackLocked
    <3>2. CASE TakeCompleted
      BY <3>2 DEF TakeCompleted, ContextStates
    <3>3. CASE GivebackUrb
      BY <3>3 DEF GivebackUrb, ContextStates
    <3>4. CASE DeliverIsoOut \/ GivebackThreadExits \/ Tick
      BY <3>4 DEF DeliverIsoOut, GivebackThreadExits, Tick, contextVars
    <3> QED
      BY <1>2, <3>1, <3>2, <3>3, <3>4 DEF GivebackStep, ContextStates
  <2>3. \A u \in Urbs : ctx'[u] = "PENDING_FEATURE_GET"
                            => ctx[u] = "PENDING_FEATURE_GET"
    BY <1>0, <2>2
  <2>4. \A i \in 1..Len(events) :
            \E j \in 1..Len(events') : events'[j] = events[i]
    <3>1. CASE DeliverIsoOut
      <4>1. EnqueueBestEffort("AUDIO_OUT", giving) /\ giving \in Urbs
        BY <3>1 DEF DeliverIsoOut, IInv, CoreInv, GivingInv, TypeOK,
                    ThreadTypes
      <4> QED
        BY <4>1, FramesGrow DEF FrameTypes, IInv
    <3>2. CASE ~DeliverIsoOut
      <4>1. UNCHANGED eventVars
        BY <1>2, <3>2 DEF Unlink, DequeueUrb, GivebackStep, TakeCompleted,
                          GivebackUrb, GivebackThreadExits, Tick
      <4> QED
        BY <4>1, FramesGrow DEF IInv
    <3> QED
      BY <3>1, <3>2
  <2> QED
    BY <2>1, <2>3, <2>4, DeferredQuiet
<1> QED
  BY <1>1, <1>2

LEMMA DeferredInductive ==
    ASSUME IInv, IInv', LinkInv, DeferredIsRequested, [Next]_vars
    PROVE  DeferredIsRequested'
<1>1. CASE StopHcd
  BY <1>1, DeferredEmpty DEF StopHcd, CancelPending, IInv, CoreInv
<1>2. CASE \/ UNCHANGED vars
           \/ HubNoticesChange \/ HubEnumerates \/ BeginRemove
           \/ \E f \in PortClears : ClearPortFeature(f)
  <2>1. /\ UNCHANGED <<born, epoch, pc, ctx, request, events, asked, user>>
        /\ "CONNECTION" \in port_status' => "CONNECTION" \in port_status
    BY <1>2 DEF vars, HubNoticesChange, HubEnumerates, BeginRemove,
                ClearPortFeature, contextVars, eventVars, userVars, portVars
  <2> QED
    BY <2>1, DeferredKept DEF Current, Requested
<1> QED
  BY <1>1, <1>2, DeferredHandlers, DeferredSessions, DeferredOthers
  DEF Next, HostStep

(* A deferred GET_REPORT is never forgotten: no interleaving of its        *)
(* submission, the daemon's reads and replies, a full frame queue, a       *)
(* release of /dev/vdsN and driver removal leaves a URB of the current     *)
(* connection waiting for a report nobody was asked for.                   *)
THEOREM DeferredCorrect == Spec => []DeferredIsRequested
<1>1. Init => LinkInv /\ DeferredIsRequested
  BY DEF Init, LinkInv, BornInv, ConnectedInv, StoppedInv,
         DeferredIsRequested, Current
<1>2. IInv /\ IInv' /\ LinkInv /\ DeferredIsRequested /\ [Next]_vars
      => LinkInv' /\ DeferredIsRequested'
  BY LinkInductive, DeferredInductive
<1> QED
  BY <1>1, <1>2, Invariance, PTL DEF Spec

=============================================================================
