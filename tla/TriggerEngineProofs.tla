------------------------- MODULE TriggerEngineProofs -------------------------
(***************************************************************************)
(* The safety of TriggerEngine: however input, games, files, tests and     *)
(* crashes overlap with the calls of the sink, the effects on the          *)
(* controller, the last status and the state file are those of what the    *)
(* engine does now.                                                        *)
(***************************************************************************)
EXTENDS TriggerEngine, TriggerParts, FiniteSets, SequenceTheorems, FiniteSetTheorems,
        WellFoundedInduction, TLAPS

(***************************************************************************)
(* Sequences of jobs.                                                      *)
(***************************************************************************)
Jobs ==
    [kind : {"bases", "reset", "input"}, tell : BOOLEAN,
     after : {"none", "save", "test"}]

(* A job of this kind is in q.                                             *)
Holds(q, kind) == \E i \in 1..Len(q) : q[i].kind = kind

(* The jobs of this kind in q are followed by one that applies the bases.  *)
Covered(q, kind) ==
    \A i \in 1..Len(q) :
        q[i].kind = kind => \E j \in (i + 1)..Len(q) : q[j].kind = "bases"

Tells(q) == \E i \in 1..Len(q) : q[i].tell = TRUE
Saves(q) == \E i \in 1..Len(q) : q[i].after = "save"

LEMMA JobTypes ==
    ASSUME NEW kind \in {"bases", "reset", "input"}, NEW tell \in BOOLEAN,
           NEW after \in {"none", "save", "test"}
    PROVE  /\ Job(kind, tell, after) \in Jobs
           /\ Job(kind, tell, after).kind = kind
           /\ Job(kind, tell, after).tell = tell
           /\ Job(kind, tell, after).after = after
BY DEF Job, Jobs

LEMMA EmptyHolds ==
    ASSUME NEW kind
    PROVE  <<>> \in Seq(Jobs) /\ ~Holds(<<>>, kind)
BY DEF Holds

LEMMA OneHolds ==
    ASSUME NEW a \in Jobs
    PROVE  /\ <<a>> \in Seq(Jobs)
           /\ \A kind : Holds(<<a>>, kind) <=> a.kind = kind
           /\ a.tell = TRUE => Tells(<<a>>)
           /\ a.after = "save" => Saves(<<a>>)
<1>1. /\ <<a>> \in Seq(Jobs) /\ Len(<<a>>) = 1 /\ <<a>>[1] = a
  OBVIOUS
<1>2. \A i : i \in 1..1 <=> i = 1
  OBVIOUS
<1> QED
  BY <1>1, <1>2 DEF Holds, Tells, Saves

LEMMA TwoHold ==
    ASSUME NEW a \in Jobs, NEW b \in Jobs
    PROVE  /\ <<a, b>> \in Seq(Jobs)
           /\ \A kind : Holds(<<a, b>>, kind) <=> a.kind = kind \/ b.kind = kind
           /\ a.tell = TRUE \/ b.tell = TRUE => Tells(<<a, b>>)
           /\ a.after = "save" \/ b.after = "save" => Saves(<<a, b>>)
<1>1. /\ <<a, b>> \in Seq(Jobs) /\ Len(<<a, b>>) = 2
      /\ <<a, b>>[1] = a /\ <<a, b>>[2] = b
  OBVIOUS
<1>2. \A i : i \in 1..2 <=> i = 1 \/ i = 2
  OBVIOUS
<1> QED
  BY <1>1, <1>2 DEF Holds, Tells, Saves

(* Jobs queued at the end.                                                 *)
LEMMA QueueHolds ==
    ASSUME NEW q \in Seq(Jobs), NEW jobs \in Seq(Jobs)
    PROVE  /\ q \o jobs \in Seq(Jobs)
           /\ \A kind : Holds(q \o jobs, kind) <=> Holds(q, kind) \/ Holds(jobs, kind)
           /\ Tells(q \o jobs) <=> Tells(q) \/ Tells(jobs)
           /\ Saves(q \o jobs) <=> Saves(q) \/ Saves(jobs)
           /\ \A kind :
                  /\ Covered(q, kind) \/ Holds(jobs, "bases")
                  /\ ~Holds(jobs, kind)
                  => Covered(q \o jobs, kind)
<1> DEFINE n == Len(q)
           m == Len(jobs)
           r == q \o jobs
<1>1. /\ n \in Nat /\ m \in Nat /\ r \in Seq(Jobs) /\ Len(r) = n + m
      /\ \A i \in 1..(n + m) : r[i] = IF i <= n THEN q[i] ELSE jobs[i - n]
  OBVIOUS
<1> HIDE DEF n, m, r
<1>2. /\ \A i \in 1..n : i \in 1..(n + m) /\ r[i] = q[i]
      /\ \A i \in 1..m : n + i \in 1..(n + m) /\ r[n + i] = jobs[i]
  BY <1>1
<1>3. \A i \in 1..(n + m) : i \in 1..n \/ \E k \in 1..m : i = n + k
  <2> SUFFICES ASSUME NEW i \in 1..(n + m), i \notin 1..n
               PROVE  \E k \in 1..m : i = n + k
    OBVIOUS
  <2>1. i - n \in 1..m /\ i = n + (i - n)
    BY <1>1
  <2> QED
    BY <2>1
<1>4. ASSUME NEW kind PROVE Holds(r, kind) <=> Holds(q, kind) \/ Holds(jobs, kind)
  <2>1. ASSUME NEW i \in 1..(n + m), r[i].kind = kind
        PROVE  Holds(q, kind) \/ Holds(jobs, kind)
    BY <1>2, <1>3, <2>1 DEF Holds, n, m
  <2>2. (\E i \in 1..n : q[i].kind = kind) => \E i \in 1..(n + m) : r[i].kind = kind
    BY <1>2
  <2>3. (\E i \in 1..m : jobs[i].kind = kind) => \E i \in 1..(n + m) : r[i].kind = kind
    BY <1>2
  <2> QED
    BY <1>1, <2>1, <2>2, <2>3 DEF Holds, n, m
<1>5. (Tells(r) <=> Tells(q) \/ Tells(jobs)) /\ (Saves(r) <=> Saves(q) \/ Saves(jobs))
  <2>1. ASSUME NEW i \in 1..(n + m)
        PROVE  /\ r[i].tell = TRUE => Tells(q) \/ Tells(jobs)
               /\ r[i].after = "save" => Saves(q) \/ Saves(jobs)
    <3>1. CASE i \in 1..n
      BY <1>2, <3>1 DEF Tells, Saves, n
    <3>2. CASE i \notin 1..n
      <4>1. PICK k \in 1..m : i = n + k
        BY <1>3, <3>2
      <4> QED
        BY <1>2, <4>1 DEF Tells, Saves, m
    <3> QED
      BY <3>1, <3>2
  <2>2. ASSUME NEW i \in 1..n
        PROVE  /\ q[i].tell = TRUE => \E j \in 1..(n + m) : r[j].tell = TRUE
               /\ q[i].after = "save" => \E j \in 1..(n + m) : r[j].after = "save"
    BY <1>2
  <2>3. ASSUME NEW i \in 1..m
        PROVE  /\ jobs[i].tell = TRUE => \E j \in 1..(n + m) : r[j].tell = TRUE
               /\ jobs[i].after = "save" => \E j \in 1..(n + m) : r[j].after = "save"
    BY <1>2
  <2> QED
    BY <1>1, <2>1, <2>2, <2>3 DEF Tells, Saves, n, m
<1>6. ASSUME NEW kind, Covered(q, kind) \/ Holds(jobs, "bases"), ~Holds(jobs, kind)
      PROVE  Covered(r, kind)
  <2> SUFFICES ASSUME NEW i \in 1..(n + m), r[i].kind = kind
               PROVE  \E j \in (i + 1)..(n + m) : r[j].kind = "bases"
    BY <1>1 DEF Covered
  <2>1. i \in 1..n /\ q[i].kind = kind
    BY <1>2, <1>3, <1>6 DEF Holds, m
  <2>2. CASE Covered(q, kind)
    <3>1. PICK j \in (i + 1)..n : q[j].kind = "bases"
      BY <2>1, <2>2 DEF Covered, n
    <3>2. j \in 1..n /\ j \in (i + 1)..(n + m)
      BY <1>1, <2>1, <3>1
    <3> QED
      BY <1>2, <3>1, <3>2
  <2>3. CASE Holds(jobs, "bases")
    <3>1. PICK j \in 1..m : jobs[j].kind = "bases"
      BY <2>3 DEF Holds, m
    <3>2. n + j \in (i + 1)..(n + m)
      BY <1>1, <2>1, <3>1
    <3> QED
      BY <1>2, <3>1, <3>2
  <2> QED
    BY <1>6, <2>2, <2>3
<1> QED
  BY <1>1, <1>4, <1>5, <1>6 DEF r

(* The first job is taken.                                                 *)
LEMMA TakeHolds ==
    ASSUME NEW q \in Seq(Jobs), q # <<>>
    PROVE  /\ Tail(q) \in Seq(Jobs) /\ Head(q) \in Jobs
           /\ \A kind : Holds(q, kind) => Head(q).kind = kind \/ Holds(Tail(q), kind)
           /\ Tells(q) => Head(q).tell = TRUE \/ Tells(Tail(q))
           /\ Saves(q) => Head(q).after = "save" \/ Saves(Tail(q))
           /\ \A kind : Covered(q, kind) =>
                  /\ Covered(Tail(q), kind)
                  /\ Head(q).kind = kind => Holds(Tail(q), "bases")
<1> DEFINE n == Len(q)
           r == Tail(q)
<1>1. /\ n \in Nat /\ n >= 1 /\ r \in Seq(Jobs) /\ Len(r) = n - 1
      /\ Head(q) = q[1] /\ Head(q) \in Jobs
      /\ \A i \in 1..(n - 1) : r[i] = q[i + 1]
  OBVIOUS
<1> HIDE DEF n, r
<1>2. \A i \in 1..n : i = 1 \/ (i - 1 \in 1..(n - 1) /\ r[i - 1] = q[i])
  <2> SUFFICES ASSUME NEW i \in 1..n, i # 1
               PROVE  i - 1 \in 1..(n - 1) /\ r[i - 1] = q[i]
    OBVIOUS
  <2>1. i - 1 \in 1..(n - 1) /\ (i - 1) + 1 = i
    BY <1>1
  <2> QED
    BY <1>1, <2>1
<1>3. /\ \A kind : Holds(q, kind) => Head(q).kind = kind \/ Holds(r, kind)
      /\ Tells(q) => Head(q).tell = TRUE \/ Tells(r)
      /\ Saves(q) => Head(q).after = "save" \/ Saves(r)
  BY <1>1, <1>2 DEF Holds, Tells, Saves, n
<1>4. ASSUME NEW i \in 1..n, NEW j \in (i + 1)..n, q[j].kind = "bases"
      PROVE  \E k \in i..(n - 1) : k \in 1..(n - 1) /\ r[k].kind = "bases"
  <2>1. j - 1 \in i..(n - 1) /\ j - 1 \in 1..(n - 1) /\ j \in 1..n /\ j # 1
    BY <1>1
  <2> QED
    BY <1>2, <1>4, <2>1
<1>5. ASSUME NEW kind, Covered(q, kind)
      PROVE  Covered(r, kind) /\ (Head(q).kind = kind => Holds(r, "bases"))
  <2>1. ASSUME NEW i \in 1..(n - 1), r[i].kind = kind
        PROVE  \E k \in (i + 1)..(n - 1) : r[k].kind = "bases"
    <3>1. i + 1 \in 1..n /\ q[i + 1].kind = kind
      BY <1>1, <2>1
    <3>2. PICK j \in ((i + 1) + 1)..n : q[j].kind = "bases"
      BY <1>5, <3>1 DEF Covered, n
    <3> QED
      BY <1>4, <3>1, <3>2
  <2>2. ASSUME Head(q).kind = kind PROVE Holds(r, "bases")
    <3>1. 1 \in 1..n
      BY <1>1
    <3>2. PICK j \in (1 + 1)..n : q[j].kind = "bases"
      BY <1>1, <1>5, <2>2, <3>1 DEF Covered, n
    <3> QED
      BY <1>1, <1>4, <3>1, <3>2 DEF Holds
  <2> QED
    BY <1>1, <2>1, <2>2 DEF Covered
<1> QED
  BY <1>1, <1>3, <1>5 DEF r

(***************************************************************************)
(* The types.                                                              *)
(***************************************************************************)
TypeInv ==
    /\ stored \in [Games -> {None, 0, 1}] /\ newest \in Games /\ running \subseteq Games
    /\ file \in [enabled : BOOLEAN, pin : Ids \cup {None}]
    /\ pinned \in Ids \cup {None} /\ watched \in Ids /\ candidate \in Ids \cup {None}
    /\ ripe \in BOOLEAN /\ enabled \in BOOLEAN /\ suspended \in BOOLEAN
    /\ draft \in BOOLEAN /\ scheduled \in BOOLEAN /\ testing \in BOOLEAN
    /\ disturbed \in BOOLEAN
    /\ active \in Copies \cup {None} /\ state \in {0, 1}
    /\ lastApplied \in Wants /\ pad \in Wants /\ latest \in Wants \cup {None}
    /\ chain \in Seq(Jobs) /\ run \in SinkCalls \cup {None}
    /\ run # None => chain # <<>>
    /\ told \in Games \cup {None} /\ removed \subseteq Games
    /\ events \in Nat /\ rejects \in Nat /\ crashes \in Nat

LEMMA ContentsTypes ==
    ASSUME NEW files0 \in [Games -> {None, 0, 1}], NEW id \in Ids
    PROVE  /\ Contents(id, files0) \in Copies \cup {None}
           /\ Contents(id, files0) = None => id \in Games /\ files0[id] = None
BY TriggerEngineAssumption, NullAssumption DEF Contents, Copies, Ids

LEMMA EffectTypes ==
    /\ NoEffect \in Wants /\ DraftEffects \in Wants /\ TestEffect \in Wants
    /\ \A p \in Copies \cup {None}, st \in {0, 1}, held \in BOOLEAN :
           Effects(p, st, held) \in Wants
<1>1. /\ \A held \in BOOLEAN, st \in {0, 1}, id \in Ids, edition \in {0, 1} :
             Effect("profile", id, edition, st, held) \in SinkEffects
      /\ Effect("draft", None, 0, 0, FALSE) \in SinkEffects
      /\ Effect("test", None, 0, 0, FALSE) \in SinkEffects
  BY DEF Effect, SinkEffects
<1>2. NoEffect \in Wants /\ TestEffect \in Wants
  BY <1>1 DEF NoEffect, TestEffect, Wants
<1>3. DraftEffects \in Wants
  BY <1>1, <1>2 DEF DraftEffects, Wants
<1>4. ASSUME NEW p \in Copies \cup {None}, NEW st \in {0, 1}, NEW held \in BOOLEAN
      PROVE  Effects(p, st, held) \in Wants
  <2>1. CASE p = None \/ p.id = Default
    BY <1>2, <2>1 DEF Effects
  <2>2. CASE ~(p = None \/ p.id = Default)
    <3>1. p.id \in Ids /\ p.edition \in {0, 1}
      BY <2>2 DEF Copies
    <3>2. /\ Effect("profile", p.id, p.edition, st, held) \in SinkEffects
          /\ Effect("profile", p.id, p.edition, st, FALSE) \in SinkEffects
      BY <1>1, <3>1
    <3> QED
      BY <2>2, <3>2 DEF Effects, Wants, Triggers
  <2> QED
    BY <2>1, <2>2
<1> QED
  BY <1>2, <1>3, <1>4

LEMMA MatchedTypes ==
    ASSUME TypeInv
    PROVE  Matched \in Ids
<1> DEFINE found == {g \in running : stored[g] # None}
<1>1. found \subseteq Games
  BY DEF TypeInv
<1>2. CASE found = {}
  BY <1>2 DEF Matched, Ids
<1>3. CASE newest \in found
  BY <1>1, <1>3 DEF Matched, Ids
<1>4. CASE found # {} /\ newest \notin found
  <2>1. (CHOOSE g \in found : TRUE) \in found
    BY <1>4
  <2> QED
    BY <1>1, <1>4, <2>1 DEF Matched, Ids
<1> QED
  BY <1>2, <1>3, <1>4

LEMMA StatusTypes ==
    ASSUME NEW on \in BOOLEAN, NEW id \in Ids
    PROVE  StatusOf(on, id) \in Games \cup {None}
BY DEF StatusOf, Ids

(* What a job leaves of the variables its steps change.                    *)
OutcomeTypes ==
    /\ chain' \in Seq(Jobs) /\ run' \in SinkCalls \cup {None}
    /\ run' # None => chain' # <<>>
    /\ told' \in Games \cup {None} /\ testing' \in BOOLEAN
    /\ file' \in [enabled : BOOLEAN, pin : Ids \cup {None}]

LEMMA EndsTypes ==
    ASSUME TypeInv, chain # <<>>, Ends
    PROVE  OutcomeTypes
<1>1. chain' \in Seq(Jobs) /\ run' = None
  BY TakeHolds DEF Ends, TypeInv
<1>2. told' \in Games \cup {None}
  BY StatusTypes DEF Ends, TypeInv
<1>3. testing' \in BOOLEAN
  BY DEF Ends, TypeInv
<1>4. file' \in [enabled : BOOLEAN, pin : Ids \cup {None}]
  BY DEF Ends, TypeInv, Pin
<1> QED
  BY <1>1, <1>2, <1>3, <1>4 DEF OutcomeTypes

LEMMA CallsTypes ==
    ASSUME TypeInv, chain # <<>>, NEW call \in Triggers \cup {"reset"},
           NEW want \in Wants, Calls(call, want)
    PROVE  /\ OutcomeTypes /\ run' # None /\ run'.call = call /\ run'.want = want
           /\ chain' = chain
<1>1. run' = [call |-> call, want |-> want] /\ UNCHANGED <<chain, told, file, testing>>
  BY DEF Calls
<1>2. run' \in SinkCalls
  BY <1>1 DEF SinkCalls
<1>3. run' # None
  BY <1>2, NullAssumption
<1> QED
  BY <1>1, <1>2, <1>3 DEF OutcomeTypes, TypeInv

LEMMA SameWants ==
    ASSUME NEW e \in Wants, NEW f \in Wants, e["l2"] = f["l2"], e["r2"] = f["r2"]
    PROVE  e = f
<1>1. \A t \in Triggers : t = "l2" \/ t = "r2"
  BY DEF Triggers
<1> QED
  BY <1>1 DEF Wants

(* writeDesired calls the sink with what is wanted, unless it is applied.  *)
LEMMA WriteCalls ==
    ASSUME TypeInv, NEW want \in Wants, WriteDesired(want)
    PROVE  \/ Ends /\ lastApplied = want
           \/ \E call \in Triggers \cup {"reset"} :
                  /\ Calls(call, want)
                  /\ call = "reset" => want = NoEffect
                  /\ call = "r2" => lastApplied["l2"] = want["l2"]
<1>1. /\ lastApplied \in Wants
      /\ "l2" \in Triggers /\ "r2" \in Triggers
      /\ \A t \in Triggers : t = "l2" \/ t = "r2"
  BY DEF TypeInv, Triggers
<1>2. want["l2"] = lastApplied["l2"] /\ want["r2"] = lastApplied["r2"]
      => want = lastApplied
  BY <1>1, SameWants
<1>3. CASE want = NoEffect
  <2>1. CASE lastApplied # NoEffect
    BY <1>3, <2>1 DEF WriteDesired
  <2>2. CASE lastApplied = NoEffect
    BY <1>3, <2>2 DEF WriteDesired
  <2> QED
    BY <2>1, <2>2
<1>4. CASE want # NoEffect
  <2>1. CASE want["l2"] # lastApplied["l2"]
    BY <1>1, <1>4, <2>1 DEF WriteDesired
  <2>2. CASE want["l2"] = lastApplied["l2"] /\ want["r2"] # lastApplied["r2"]
    BY <1>1, <1>4, <2>2 DEF WriteDesired
  <2>3. CASE want["l2"] = lastApplied["l2"] /\ want["r2"] = lastApplied["r2"]
    BY <1>2, <1>4, <2>3 DEF WriteDesired
  <2> QED
    BY <2>1, <2>2, <2>3
<1> QED
  BY <1>3, <1>4

LEMMA WriteTypes ==
    ASSUME TypeInv, chain # <<>>, NEW want \in Wants, WriteDesired(want)
    PROVE  OutcomeTypes
BY WriteCalls, EndsTypes, CallsTypes

LEMMA BasesTypes ==
    ASSUME TypeInv
    PROVE  Bases \in Wants
BY EffectTypes DEF Bases, TypeInv

LEMMA JobStepTypes ==
    ASSUME TypeInv, JobStep
    PROVE  TypeInv'
<1>1. ASSUME OutcomeTypes,
             UNCHANGED <<files, watcher, enabled, suspended, draft, profile, removed>>,
             UNCHANGED bounds \/ (rejects' = rejects + 1 /\ UNCHANGED <<events, crashes>>),
             scheduled' \in BOOLEAN, latest' \in Wants \cup {None},
             lastApplied' \in Wants, pad' \in Wants, disturbed' \in BOOLEAN
      PROVE  TypeInv'
  <2>1. rejects' \in Nat /\ events' \in Nat /\ crashes' \in Nat
    BY <1>1 DEF TypeInv, bounds
  <2> QED
    BY <1>1, <2>1 DEF TypeInv, OutcomeTypes, files, watcher, profile
<1>2. /\ scheduled \in BOOLEAN /\ latest \in Wants \cup {None}
      /\ lastApplied \in Wants /\ pad \in Wants /\ disturbed \in BOOLEAN
      /\ run \in SinkCalls \cup {None} /\ (run # None => chain # <<>>)
  BY DEF TypeInv
<1>3. CASE BasesJob
  <2>1. OutcomeTypes
    BY <1>3, BasesTypes, WriteTypes, EndsTypes DEF BasesJob, Starting
  <2> QED
    BY <1>1, <1>2, <1>3, <2>1 DEF BasesJob, input
<1>4. CASE ResetJob
  <2>1. OutcomeTypes
    BY <1>4, EffectTypes, CallsTypes DEF ResetJob, Starting
  <2> QED
    BY <1>1, <1>2, <1>4, <2>1 DEF ResetJob, input
<1>5. CASE InputJob
  <2>1. OutcomeTypes
    BY <1>2, <1>5, WriteTypes, EndsTypes DEF InputJob, Starting
  <2> QED
    BY <1>1, <1>2, <1>5, <2>1 DEF InputJob
<1>6. CASE TriggerWritten
  <2>1. /\ run # None /\ run.call \in Triggers /\ run.want \in Wants /\ chain # <<>>
        /\ "r2" \in Triggers
    BY <1>2, <1>6 DEF TriggerWritten, SinkCalls, Triggers
  <2>2. OutcomeTypes
    BY <1>6, <2>1, EndsTypes, CallsTypes DEF TriggerWritten
  <2>3. lastApplied' \in Wants /\ pad' \in Wants
    BY <1>2, <1>6, <2>1 DEF TriggerWritten, Wants
  <2> QED
    BY <1>1, <1>2, <1>6, <2>2, <2>3 DEF TriggerWritten, input
<1>7. CASE ResetWritten
  <2>1. OutcomeTypes
    BY <1>2, <1>7, EndsTypes DEF ResetWritten
  <2> QED
    BY <1>1, <1>2, <1>7, <2>1, EffectTypes DEF ResetWritten, input
<1>8. CASE Rejected
  <2>1. OutcomeTypes
    BY <1>2, <1>8, TakeHolds DEF Rejected, TypeInv, OutcomeTypes
  <2> QED
    BY <1>1, <1>2, <1>8, <2>1 DEF Rejected, input
<1> QED
  BY <1>3, <1>4, <1>5, <1>6, <1>7, <1>8 DEF JobStep

(* What a reaction of the engine leaves of the variables it changes.       *)
ReactionTypes ==
    /\ chain' \in Seq(Jobs) /\ (chain # <<>> => chain' # <<>>)
    /\ active' \in Copies \cup {None} /\ state' \in {0, 1}
    /\ told' \in Games \cup {None}

LEMMA QueueTypes ==
    ASSUME TypeInv, NEW jobs \in Seq(Jobs), Queue(jobs)
    PROVE  chain' \in Seq(Jobs) /\ (chain # <<>> => chain' # <<>>)
<1>1. /\ chain \in Seq(Jobs) /\ chain' = chain \o jobs
  BY DEF TypeInv, Queue
<1>2. Len(chain') = Len(chain) + Len(jobs) /\ Len(chain) \in Nat /\ Len(jobs) \in Nat
  BY <1>1
<1> QED
  BY <1>1, <1>2

LEMMA ReappliedTypes ==
    /\ Reapplied \in Seq(Jobs)
    /\ \A after \in {"none", "save"} :
           /\ Job("bases", TRUE, after) \in Jobs /\ Job("bases", FALSE, after) \in Jobs
           /\ Job("reset", TRUE, after) \in Jobs
    /\ Job("reset", TRUE, "test") \in Jobs /\ Job("input", FALSE, "none") \in Jobs
<1>1. \A after \in {"none", "save"} :
          /\ Job("bases", TRUE, after) \in Jobs /\ Job("bases", FALSE, after) \in Jobs
          /\ Job("reset", TRUE, after) \in Jobs
  BY DEF Job, Jobs
<1>2. Job("reset", TRUE, "test") \in Jobs /\ Job("input", FALSE, "none") \in Jobs
  BY DEF Job, Jobs
<1>3. Reapplied \in Seq(Jobs)
  BY <1>1, EmptyHolds, OneHolds DEF Reapplied
<1> QED
  BY <1>1, <1>2, <1>3

LEMMA ChangesTypes ==
    ASSUME TypeInv, NEW id \in Ids, NEW files0 \in [Games -> {None, 0, 1}],
           ChangesTo(id, files0)
    PROVE  ReactionTypes
<1>1. active' \in Copies \cup {None} /\ state' \in {0, 1}
  BY ContentsTypes DEF ChangesTo
<1>2. chain' \in Seq(Jobs) /\ (chain # <<>> => chain' # <<>>)
  BY QueueTypes, ReappliedTypes DEF ChangesTo
<1>3. told' \in Games \cup {None}
  BY StatusTypes DEF ChangesTo, TypeInv
<1> QED
  BY <1>1, <1>2, <1>3 DEF ReactionTypes

LEMMA UnaffectedTypes ==
    ASSUME TypeInv, Unaffected
    PROVE  ReactionTypes
BY DEF TypeInv, Unaffected, profile, ReactionTypes

LEMMA ActivateTypes ==
    ASSUME TypeInv, NEW id \in Ids, Activate(id)
    PROVE  /\ ReactionTypes
           /\ candidate' = None /\ ripe' = FALSE /\ watched' = id
<1>1. stored \in [Games -> {None, 0, 1}]
  BY DEF TypeInv
<1> QED
  BY <1>1, ChangesTypes, UnaffectedTypes DEF Activate

LEMMA EventTypes ==
    ASSUME TypeInv, Event
    PROVE  events' \in Nat /\ rejects' \in Nat /\ crashes' \in Nat
BY DEF Event, TypeInv

LEMMA WatcherTypes ==
    ASSUME TypeInv, Poll \/ Ripen \/ Unpin \/ \E id \in Ids : PinProfile(id)
    PROVE  TypeInv'
<1>1. CASE Poll
  <2>1. /\ ReactionTypes /\ watched' \in Ids /\ candidate' \in Ids \cup {None}
        /\ ripe' \in BOOLEAN
    <3>1. CASE Matched = watched \/ (Matched # watched /\ candidate # Matched)
      <4>1. /\ candidate' \in {None, Matched} /\ ripe' = FALSE /\ watched' = watched
            /\ Unaffected
        BY <1>1, <3>1 DEF Poll
      <4> QED
        BY <4>1, MatchedTypes, UnaffectedTypes DEF TypeInv
    <3>2. CASE Matched # watched /\ candidate = Matched
      <4>1. Activate(Matched)
        BY <1>1, <3>2 DEF Poll
      <4> QED
        BY <4>1, MatchedTypes, ActivateTypes
    <3> QED
      BY <3>1, <3>2
  <2> QED
    BY <1>1, <2>1 DEF Poll, TypeInv, ReactionTypes, files, input, bounds
<1>2. CASE Ripen
  BY <1>2 DEF Ripen, TypeInv, files, profile, input, bounds
<1>3. CASE Unpin
  <2>1. /\ ReactionTypes /\ watched' \in Ids /\ candidate' = None /\ ripe' = FALSE
    BY <1>3, MatchedTypes, ActivateTypes DEF Unpin
  <2>2. /\ file' \in [enabled : BOOLEAN, pin : Ids \cup {None}] /\ events' \in Nat
        /\ pinned' = None
    BY <1>3 DEF Unpin, Event, TypeInv
  <2> QED
    BY <1>3, <2>1, <2>2 DEF Unpin, Event, TypeInv, ReactionTypes, files, input
<1>4. ASSUME NEW id \in Ids, PinProfile(id)
      PROVE  TypeInv'
  <2>1. /\ ReactionTypes /\ watched' = id /\ candidate' = None /\ ripe' = FALSE
    BY <1>4, ActivateTypes DEF PinProfile
  <2>2. /\ file' \in [enabled : BOOLEAN, pin : Ids \cup {None}] /\ events' \in Nat
        /\ pinned' = id
    BY <1>4 DEF PinProfile, Event, TypeInv
  <2> QED
    BY <1>4, <2>1, <2>2 DEF PinProfile, Event, TypeInv, ReactionTypes, files, input
<1> QED
  BY <1>1, <1>2, <1>3, <1>4

LEMMA ModeTypes ==
    ASSUME TypeInv,
           Enable \/ Disable \/ Test \/ Tested \/ ResetAdaptiveTriggers
    PROVE  TypeInv'
<1>1. CASE Enable
  <2> DEFINE id == IF pinned = None THEN Matched ELSE watched
             found == IF id # watched THEN Reapplied ELSE <<>>
             apply == IF suspended THEN <<>> ELSE <<Job("bases", TRUE, "save")>>
  <2>1. id \in Ids
    BY MatchedTypes DEF TypeInv
  <2>2. found \in Seq(Jobs) /\ apply \in Seq(Jobs)
    BY ReappliedTypes, EmptyHolds, OneHolds
  <2>3. found \o apply \in Seq(Jobs)
    BY <2>2, QueueHolds
  <2> HIDE DEF found, apply
  <2>4. chain' \in Seq(Jobs) /\ (chain # <<>> => chain' # <<>>)
    BY <1>1, <2>3, QueueTypes DEF Enable, found, apply
  <2>5. active' \in Copies \cup {None} /\ state' \in {0, 1} /\ told' \in Games \cup {None}
    BY <1>1, <2>1, ContentsTypes, StatusTypes DEF Enable, TypeInv
  <2>6. file' \in [enabled : BOOLEAN, pin : Ids \cup {None}]
    BY <1>1, <2>1 DEF Enable, TypeInv
  <2>7. watched' = id /\ enabled' = TRUE /\ candidate' \in Ids \cup {None}
    BY <1>1 DEF Enable, TypeInv
  <2>8. ripe' \in BOOLEAN
    BY <1>1 DEF Enable, TypeInv
  <2>9. events' \in Nat /\ rejects' \in Nat /\ crashes' \in Nat
    BY <1>1, EventTypes DEF Enable
  <2> HIDE DEF id
  <2>10. UNCHANGED <<pinned, files, suspended, draft, lastApplied, input, run, pad, testing,
                     disturbed, removed>>
    BY <1>1 DEF Enable
  <2> QED
    BY <2>1, <2>4, <2>5, <2>6, <2>7, <2>8, <2>9, <2>10 DEF TypeInv, files, input
<1>2. CASE Disable
  <2>1. chain' \in Seq(Jobs) /\ (chain # <<>> => chain' # <<>>)
    BY <1>2, ReappliedTypes, OneHolds, QueueTypes DEF Disable
  <2>2. events' \in Nat /\ rejects' \in Nat /\ crashes' \in Nat
    BY <1>2, EventTypes DEF Disable
  <2>3. /\ enabled' \in BOOLEAN /\ draft' \in BOOLEAN
        /\ active' = None /\ state' \in {0, 1}
        /\ UNCHANGED <<watcher, files, file, suspended, lastApplied, input, run, pad,
                       testing, told, disturbed, removed>>
    BY <1>2 DEF Disable
  <2> QED
    BY <2>1, <2>2, <2>3 DEF TypeInv, watcher, files, input
<1>3. CASE Test
  <2>1. chain' \in Seq(Jobs) /\ (chain # <<>> => chain' # <<>>)
    BY <1>3, ReappliedTypes, OneHolds, QueueTypes DEF Test, TypeInv
  <2>2. testing' \in BOOLEAN /\ suspended' \in BOOLEAN /\ draft' \in BOOLEAN
    BY <1>3 DEF Test, TypeInv
  <2>3. events' \in Nat /\ rejects' \in Nat /\ crashes' \in Nat
    BY <1>3, EventTypes DEF Test
  <2>4. UNCHANGED <<files, file, watcher, enabled, profile, lastApplied, input, run, pad,
                    told, disturbed, removed>>
    BY <1>3 DEF Test
  <2> QED
    BY <2>1, <2>2, <2>3, <2>4 DEF TypeInv, watcher, files, profile, input
<1>4. CASE Tested
  <2>1. disturbed' \in BOOLEAN /\ testing' \in BOOLEAN
    BY <1>4 DEF Tested, TypeInv
  <2>2. /\ pad' \in Wants
        /\ UNCHANGED <<files, file, watcher, enabled, suspended, draft, profile, lastApplied,
                       input, chain, run, told, removed, bounds>>
    BY <1>4, EffectTypes DEF Tested
  <2> QED
    BY <2>1, <2>2 DEF TypeInv, watcher, files, profile, input, bounds
<1>5. CASE ResetAdaptiveTriggers
  <2>1. chain' \in Seq(Jobs) /\ (chain # <<>> => chain' # <<>>)
    BY <1>5, ReappliedTypes, OneHolds, QueueTypes DEF ResetAdaptiveTriggers, TypeInv
  <2>2. told' \in Games \cup {None} /\ pad' \in Wants
    BY <1>5, StatusTypes, EffectTypes DEF ResetAdaptiveTriggers, TypeInv
  <2>3. disturbed' \in BOOLEAN /\ suspended' \in BOOLEAN
    BY <1>5 DEF ResetAdaptiveTriggers, TypeInv
  <2>4. events' \in Nat /\ rejects' \in Nat /\ crashes' \in Nat
    BY <1>5, EventTypes DEF ResetAdaptiveTriggers
  <2>5. UNCHANGED <<files, file, watcher, enabled, draft, profile, lastApplied, input, run,
                    testing, removed>>
    BY <1>5 DEF ResetAdaptiveTriggers
  <2> QED
    BY <2>1, <2>2, <2>3, <2>4, <2>5 DEF TypeInv, watcher, files, profile, input
<1> QED
  BY <1>1, <1>2, <1>3, <1>4, <1>5

LEMMA EditTypes ==
    ASSUME TypeInv,
           \/ \E games \in SUBSET Games : GamesRun(games)
           \/ PreviewDraft \/ ClearDraft \/ SelectState
           \/ \E g \in Games : SaveProfile(g) \/ DeleteProfile(g)
    PROVE  TypeInv'
<1>1. ASSUME NEW games \in SUBSET Games, GamesRun(games)
      PROVE  TypeInv'
  BY <1>1 DEF GamesRun, Event, TypeInv, watcher, profile, input
<1>2. CASE PreviewDraft
  <2>1. chain' \in Seq(Jobs) /\ (chain # <<>> => chain' # <<>>)
    BY <1>2, ReappliedTypes, OneHolds, QueueTypes DEF PreviewDraft
  <2> QED
    BY <1>2, <2>1 DEF PreviewDraft, Event, TypeInv, watcher, files, profile, input
<1>3. CASE ClearDraft
  <2>1. chain' \in Seq(Jobs) /\ (chain # <<>> => chain' # <<>>)
    BY <1>3, ReappliedTypes, EmptyHolds, OneHolds, QueueTypes DEF ClearDraft
  <2>2. events' \in Nat /\ rejects' \in Nat /\ crashes' \in Nat
    BY <1>3, EventTypes DEF ClearDraft
  <2>3. /\ draft' \in BOOLEAN
        /\ UNCHANGED <<files, file, watcher, enabled, suspended, profile, lastApplied, input,
                       run, pad, testing, told, disturbed, removed>>
    BY <1>3 DEF ClearDraft
  <2> QED
    BY <2>1, <2>2, <2>3 DEF TypeInv, watcher, files, profile, input
<1>4. CASE SelectState
  <2>1. chain' \in Seq(Jobs) /\ (chain # <<>> => chain' # <<>>)
    BY <1>4, ReappliedTypes, QueueTypes DEF SelectState
  <2>2. state' \in {0, 1} /\ told' \in Games \cup {None} /\ events' \in Nat
    BY <1>4, StatusTypes DEF SelectState, Event, TypeInv
  <2> QED
    BY <1>4, <2>1, <2>2 DEF SelectState, Event, TypeInv, watcher, files, input
<1>5. ASSUME NEW g \in Games, SaveProfile(g) \/ DeleteProfile(g)
      PROVE  TypeInv'
  <2>1. stored' \in [Games -> {None, 0, 1}]
    BY <1>5 DEF SaveProfile, DeleteProfile, TypeInv
  <2>2. ReactionTypes
    BY <1>5, <2>1, ChangesTypes, UnaffectedTypes
    DEF SaveProfile, DeleteProfile, Refresh, TypeInv
  <2>3. /\ newest' \in Games /\ removed' \subseteq Games /\ events' \in Nat
        /\ running' = running
    BY <1>5 DEF SaveProfile, DeleteProfile, Event, TypeInv
  <2>4. UNCHANGED <<file, watcher, enabled, suspended, draft, lastApplied, input, run, pad,
                    testing, disturbed, rejects, crashes>>
    BY <1>5 DEF SaveProfile, DeleteProfile, Event
  <2> QED
    BY <2>1, <2>2, <2>3, <2>4 DEF TypeInv, ReactionTypes, watcher, input
<1> QED
  BY <1>1, <1>2, <1>3, <1>4, <1>5

(* The jobs that input queues.                                             *)
InputJobs(switched) ==
    (IF switched THEN <<Job("bases", FALSE, "none")>> ELSE <<>>)
    \o (IF scheduled THEN <<>> ELSE <<Job("input", FALSE, "none")>>)

LEMMA InputJobsHold ==
    ASSUME TypeInv, NEW switched \in BOOLEAN
    PROVE  /\ InputJobs(switched) \in Seq(Jobs)
           /\ Holds(InputJobs(switched), "bases") <=> switched = TRUE
           /\ ~Holds(InputJobs(switched), "reset")
<1> DEFINE a == IF switched THEN <<Job("bases", FALSE, "none")>> ELSE <<>>
           b == IF scheduled THEN <<>> ELSE <<Job("input", FALSE, "none")>>
<1>1. /\ a \in Seq(Jobs) /\ (Holds(a, "bases") <=> switched = TRUE) /\ ~Holds(a, "reset")
  <2>1. CASE switched = TRUE
    <3>1. Job("bases", FALSE, "none") \in Jobs /\ Job("bases", FALSE, "none").kind = "bases"
      BY JobTypes
    <3>2. a = <<Job("bases", FALSE, "none")>>
      BY <2>1
    <3> QED
      BY <2>1, <3>1, <3>2, OneHolds
  <2>2. CASE switched = FALSE
    BY <2>2, EmptyHolds
  <2> QED
    BY <2>1, <2>2
<1>2. b \in Seq(Jobs) /\ ~Holds(b, "bases") /\ ~Holds(b, "reset")
  BY JobTypes, EmptyHolds, OneHolds
<1> HIDE DEF a, b
<1>3. /\ a \o b \in Seq(Jobs)
      /\ \A kind : Holds(a \o b, kind) <=> Holds(a, kind) \/ Holds(b, kind)
  BY <1>1, <1>2, QueueHolds
<1>4. InputJobs(switched) = a \o b
  BY DEF InputJobs, a, b
<1> QED
  BY <1>1, <1>2, <1>3, <1>4

LEMMA InputTypes ==
    ASSUME TypeInv, NEW switched \in BOOLEAN, NEW held \in BOOLEAN,
           Input(switched, held)
    PROVE  TypeInv'
<1>1. chain' \in Seq(Jobs) /\ (chain # <<>> => chain' # <<>>)
  BY InputJobsHold, QueueTypes DEF Input, InputJobs
<1>2. state' \in {0, 1} /\ latest' \in Wants
  BY EffectTypes DEF Input, TypeInv
<1>3. told' \in Games \cup {None} /\ events' \in Nat
  BY StatusTypes DEF Input, Event, TypeInv
<1> QED
  BY <1>1, <1>2, <1>3 DEF Input, Event, TypeInv, watcher, files

LEMMA CrashTypes ==
    ASSUME TypeInv, Crash
    PROVE  TypeInv'
<1> DEFINE id == CASE file.pin # None -> file.pin
                   [] file.pin = None /\ file.enabled -> Matched
                   [] OTHER -> Default
<1>1. file.enabled \in BOOLEAN /\ file.pin \in Ids \cup {None}
  BY DEF TypeInv
<1>2. id \in Ids
  <2>1. CASE file.pin # None
    BY <1>1, <2>1
  <2>2. CASE file.pin = None /\ file.enabled
    BY <2>2, MatchedTypes
  <2>3. CASE file.pin = None /\ ~file.enabled
    BY <2>3 DEF Ids
  <2> QED
    BY <2>1, <2>2, <2>3
<1>3. pinned' = file.pin /\ watched' = id /\ enabled' = file.enabled
  BY DEF Crash
<1>4. active' \in Copies \cup {None}
  BY <1>2, ContentsTypes DEF Crash, TypeInv
<1> HIDE DEF id
<1>5. chain' \in Seq(Jobs) /\ run' = None
  BY ReappliedTypes, EmptyHolds, OneHolds DEF Crash
<1>6. disturbed' \in BOOLEAN /\ crashes' \in Nat
  BY DEF Crash, TypeInv
<1> QED
  BY <1>1, <1>2, <1>3, <1>4, <1>5, <1>6, EffectTypes DEF Crash, TypeInv, files

LEMMA NextTypes ==
    ASSUME TypeInv, [Next]_vars
    PROVE  TypeInv'
<1>1. CASE UNCHANGED vars
  BY <1>1 DEF vars, TypeInv, files, watcher, profile, input, bounds
<1>2. CASE Next
  BY <1>2, JobStepTypes, WatcherTypes, ModeTypes, EditTypes, InputTypes, CrashTypes
  DEF Next, Handlers
<1> QED
  BY <1>1, <1>2

LEMMA InitTypes == Init => TypeInv
<1> SUFFICES ASSUME Init PROVE TypeInv
  OBVIOUS
<1>1. /\ stored \in [Games -> {None, 0, 1}] /\ newest \in Games /\ running \subseteq Games
      /\ file \in [enabled : BOOLEAN, pin : Ids \cup {None}]
      /\ watched \in Ids /\ chain \in Seq(Jobs) /\ run = None
  BY DEF Init, Ids
<1> QED
  BY <1>1, EffectTypes DEF Init, TypeInv

(***************************************************************************)
(* The watcher and the files.                                              *)
(***************************************************************************)
LEMMA NextPins ==
    ASSUME TypeInv, PinHolds, [Next]_vars
    PROVE  PinHolds'
<1>1. CASE UNCHANGED vars
  BY <1>1 DEF vars, watcher, PinHolds
<1>2. CASE JobStep
  BY <1>2 DEF JobStep, BasesJob, ResetJob, InputJob, TriggerWritten, ResetWritten,
              Rejected, watcher, PinHolds
<1>3. CASE Poll
  BY <1>3 DEF Poll, PinHolds
<1>4. CASE Ripen \/ Tested
  BY <1>4 DEF Ripen, Tested, watcher, PinHolds
<1>5. CASE Enable
  BY <1>5 DEF Enable, PinHolds
<1>6. CASE Unpin
  BY <1>6 DEF Unpin, PinHolds
<1>7. ASSUME NEW id \in Ids, PinProfile(id) PROVE PinHolds'
  BY <1>7 DEF PinProfile, Activate, PinHolds
<1>8. CASE Crash
  BY <1>8 DEF Crash, PinHolds
<1>9. ASSUME \/ \E games \in SUBSET Games : GamesRun(games)
             \/ Disable \/ Test \/ ResetAdaptiveTriggers
             \/ PreviewDraft \/ ClearDraft \/ SelectState
             \/ \E g \in Games : SaveProfile(g) \/ DeleteProfile(g)
             \/ \E switched, held \in BOOLEAN : Input(switched, held)
      PROVE  PinHolds'
  <2>1. UNCHANGED watcher
    BY <1>9 DEF GamesRun, Disable, Test, ResetAdaptiveTriggers, PreviewDraft, ClearDraft,
                SelectState, SaveProfile, DeleteProfile, Input
  <2> QED
    BY <2>1 DEF watcher, PinHolds
<1> QED
  BY <1>1, <1>2, <1>3, <1>4, <1>5, <1>6, <1>7, <1>8, <1>9 DEF Next, Handlers

(* A game without a file is one whose profile was deleted.                 *)
RemovedInv == \A g \in Games : stored[g] = None => g \in removed
StoreInv == RemovedInv /\ EngineFollowsStore

LEMMA ActivateStore ==
    ASSUME EngineFollowsStore, NEW id, Activate(id),
           UNCHANGED <<stored, removed, enabled>>
    PROVE  EngineFollowsStore'
<1>1. CASE id # watched /\ enabled
  BY <1>1 DEF Activate, ChangesTo, EngineFollowsStore, Contents
<1>2. CASE ~(id # watched /\ enabled)
  BY <1>2 DEF Activate, Unaffected, profile, EngineFollowsStore, Contents
<1> QED
  BY <1>1, <1>2

LEMMA RefreshStore ==
    ASSUME TypeInv, StoreInv, Refresh(stored'), removed \subseteq removed',
           UNCHANGED <<watched, enabled>>
    PROVE  EngineFollowsStore'
<1>1. CASE enabled /\ active # None
  BY <1>1 DEF Refresh, ChangesTo, EngineFollowsStore, Contents
<1>2. CASE enabled /\ active = None
  <2>1. active' = None
    BY <1>2 DEF Refresh, Unaffected, profile
  <2>2. watched \in removed
    <3>1. CASE active = Contents(watched, stored)
      <4>1. watched \in Games /\ stored[watched] = None
        BY <1>2, <3>1, ContentsTypes DEF TypeInv
      <4> QED
        BY <4>1 DEF StoreInv, RemovedInv
    <3>2. CASE watched \in removed
      BY <3>2
    <3> QED
      BY <1>2, <3>1, <3>2 DEF StoreInv, EngineFollowsStore
  <2> QED
    BY <2>1, <2>2 DEF EngineFollowsStore
<1>3. CASE ~enabled
  BY <1>3 DEF EngineFollowsStore
<1> QED
  BY <1>1, <1>2, <1>3

LEMMA NextStores ==
    ASSUME TypeInv, StoreInv, [Next]_vars
    PROVE  StoreInv'
<1>1. RemovedInv /\ EngineFollowsStore
  BY DEF StoreInv
<1>2. ASSUME UNCHANGED <<stored, removed>>, EngineFollowsStore'
      PROVE  StoreInv'
  BY <1>1, <1>2 DEF StoreInv, RemovedInv
<1>3. ASSUME UNCHANGED <<stored, removed, enabled, watched, active>>
      PROVE  StoreInv'
  BY <1>1, <1>2, <1>3 DEF EngineFollowsStore, Contents
<1>4. CASE UNCHANGED vars
  BY <1>3, <1>4 DEF vars, files, watcher, profile
<1>5. CASE JobStep
  BY <1>3, <1>5 DEF JobStep, BasesJob, ResetJob, InputJob, TriggerWritten, ResetWritten,
                    Rejected, files, watcher, profile
<1>6. CASE Poll
  <2>1. CASE Matched = watched \/ (Matched # watched /\ candidate # Matched)
    BY <1>3, <1>6, <2>1 DEF Poll, Unaffected, files, profile
  <2>2. CASE Matched # watched /\ candidate = Matched
    BY <1>1, <1>2, <1>6, <2>2, ActivateStore DEF Poll, files
  <2> QED
    BY <2>1, <2>2
<1>7. CASE Ripen \/ Tested
  BY <1>3, <1>7 DEF Ripen, Tested, files, watcher, profile
<1>8. CASE Enable
  <2>1. EngineFollowsStore'
    BY <1>8 DEF Enable, files, EngineFollowsStore, Contents
  <2> QED
    BY <1>2, <1>8, <2>1 DEF Enable, files
<1>9. CASE Unpin \/ \E id \in Ids : PinProfile(id)
  BY <1>1, <1>2, <1>9, ActivateStore DEF Unpin, PinProfile, files
<1>10. CASE Disable \/ Crash
  <2>1. EngineFollowsStore'
    BY <1>10 DEF Disable, Crash, files, EngineFollowsStore, Contents
  <2> QED
    BY <1>2, <1>10, <2>1 DEF Disable, Crash, files
<1>11. ASSUME NEW g \in Games, SaveProfile(g) \/ DeleteProfile(g)
       PROVE  StoreInv'
  <2>1. RemovedInv'
    BY <1>1, <1>11, NullAssumption
    DEF SaveProfile, DeleteProfile, RemovedInv, TypeInv
  <2>2. /\ Refresh(stored') /\ removed \subseteq removed'
        /\ UNCHANGED <<watched, enabled>>
    BY <1>11 DEF SaveProfile, DeleteProfile, watcher
  <2> QED
    BY <2>1, <2>2, RefreshStore DEF StoreInv
<1>12. ASSUME \/ \E games \in SUBSET Games : GamesRun(games)
              \/ Test \/ ResetAdaptiveTriggers
              \/ PreviewDraft \/ ClearDraft \/ SelectState
              \/ \E switched, held \in BOOLEAN : Input(switched, held)
       PROVE  StoreInv'
  BY <1>3, <1>12
  DEF GamesRun, Test, ResetAdaptiveTriggers, PreviewDraft, ClearDraft, SelectState, Input,
      files, watcher, profile
<1> QED
  BY <1>4, <1>5, <1>6, <1>7, <1>8, <1>9, <1>10, <1>11, <1>12 DEF Next, Handlers

(***************************************************************************)
(* The jobs that have not begun, and what the engine wants applied.        *)
(***************************************************************************)
Rest == IF run = None THEN chain ELSE Tail(chain)

Wanted(e) ==
    IF ~Live THEN e = NoEffect
    ELSE IF draft THEN e = DraftEffects
    ELSE \E held \in BOOLEAN : e = Effects(active, state, held)

CallInv ==
    /\ run # None /\ run.call = "reset" => run.want = NoEffect
    /\ run # None /\ run.call = "r2" => lastApplied["l2"] = run.want["l2"]

(* A trigger is being written to an engine that is off or suspended only   *)
(* with a reset to come.                                                   *)
SafeInv == run # None /\ run.call \in Triggers /\ ~Live => Holds(Rest, "reset")

(* Input and resets that are out of date are followed by a job that        *)
(* applies the bases.                                                      *)
InputInv == Live => Covered(Rest, "input") \/ latest = None \/ Wanted(latest)
ResetInv == Live => Covered(Rest, "reset")

(* What is wanted is applied, or being applied, or a job to come does it.  *)
AppliedInv ==
    rejects = 0 =>
        \/ Holds(Rest, IF Live THEN "bases" ELSE "reset")
        \/ run # None /\ Wanted(run.want)
        \/ run = None /\ Wanted(lastApplied)

ApplyInv == CallInv /\ SafeInv /\ InputInv /\ ResetInv /\ AppliedInv

(* The controller has what the engine applied last, or a test's effect, or *)
(* a reset is to come.                                                     *)
PadInv ==
    rejects = 0 /\ ~disturbed =>
        \/ pad = lastApplied
        \/ suspended /\ pad = TestEffect /\ lastApplied = NoEffect
        \/ Holds(Rest, "reset")
        \/ run # None /\ run.call = "reset"

(* The status and the state file are up to date, or a job to come tells    *)
(* and saves what is so by then.                                           *)
ToldInv == rejects = 0 => told = StatusOf(enabled, watched) \/ Tells(chain)
FileInv ==
    rejects = 0 => file = [enabled |-> enabled, pin |-> pinned] \/ Saves(chain)
OutsideInv == ToldInv /\ FileInv

(***************************************************************************)
(* What the handlers and timers queue.                                     *)
(***************************************************************************)
ApplyReaction(jobs) ==
    /\ jobs \in Seq(Jobs) /\ Queue(jobs) /\ UNCHANGED <<run, lastApplied, rejects>>
    /\ \/ /\ Live' /\ Holds(jobs, "bases") /\ ~Holds(jobs, "reset")
          /\ ~Holds(jobs, "input") \/ Wanted(latest)'
       \/ ~Live' /\ (Live => Holds(jobs, "reset"))
       \/ /\ UNCHANGED <<enabled, suspended, draft, active, state>>
          /\ ~Holds(jobs, "reset")
          /\ (~Holds(jobs, "input") /\ latest' = latest) \/ Wanted(latest)'

TellReaction(jobs) ==
    \/ told' = StatusOf(enabled', watched')
    \/ Tells(jobs)
    \/ told' = told /\ StatusOf(enabled', watched') = StatusOf(enabled, watched)

SaveReaction(jobs) ==
    \/ file' = [enabled |-> enabled', pin |-> pinned']
    \/ Saves(jobs)
    \/ UNCHANGED <<file, enabled, pinned>>

Reaction(jobs) == ApplyReaction(jobs) /\ TellReaction(jobs) /\ SaveReaction(jobs)

LEMMA ReappliedHolds ==
    /\ Reapplied \in Seq(Jobs)
    /\ ~Holds(Reapplied, "reset") /\ ~Holds(Reapplied, "input")
    /\ ~suspended => Holds(Reapplied, "bases") /\ Tells(Reapplied)
<1>1. /\ Job("bases", TRUE, "none") \in Jobs
      /\ Job("bases", TRUE, "none").kind = "bases"
      /\ Job("bases", TRUE, "none").tell = TRUE
  BY JobTypes
<1>2. CASE suspended
  BY <1>2, EmptyHolds DEF Reapplied
<1>3. CASE ~suspended
  BY <1>1, <1>3, OneHolds DEF Reapplied
<1> QED
  BY <1>2, <1>3

LEMMA QueueNothing ==
    ASSUME TypeInv, UNCHANGED chain
    PROVE  Queue(<<>>)
<1>1. chain \in Seq(Jobs)
  BY DEF TypeInv
<1>2. chain \o <<>> = chain
  BY <1>1
<1> QED
  BY <1>2 DEF Queue

(* A step that queues nothing and leaves the engine as it is.              *)
LEMMA NothingReacts ==
    ASSUME TypeInv, UNCHANGED <<chain, run, lastApplied, rejects, enabled, suspended,
                                draft, active, state, latest>>
    PROVE  ApplyReaction(<<>>)
BY QueueNothing, EmptyHolds DEF ApplyReaction

LEMMA ChangesReact ==
    ASSUME NEW id, NEW files0, ChangesTo(id, files0), enabled, enabled' = TRUE,
           watched' = id, UNCHANGED <<suspended, run, lastApplied, rejects>>
    PROVE  ApplyReaction(Reapplied) /\ TellReaction(Reapplied)
<1>1. Queue(Reapplied) /\ (suspended => told' = StatusOf(TRUE, id))
  BY DEF ChangesTo
<1>2. ApplyReaction(Reapplied)
  BY <1>1, ReappliedHolds DEF ApplyReaction, Live
<1>3. CASE suspended
  BY <1>1, <1>2, <1>3 DEF TellReaction
<1>4. CASE ~suspended
  <2>1. Tells(Reapplied)
    BY <1>4, ReappliedHolds
  <2> QED
    BY <1>2, <2>1 DEF TellReaction
<1> QED
  BY <1>3, <1>4

LEMMA ActivateReacts ==
    ASSUME TypeInv, NEW id, Activate(id),
           UNCHANGED <<enabled, suspended, draft, run, lastApplied, rejects, latest>>
    PROVE  \E jobs : ApplyReaction(jobs) /\ TellReaction(jobs)
<1>1. CASE id # watched /\ enabled
  <2>1. ChangesTo(id, stored) /\ watched' = id
    BY <1>1 DEF Activate
  <2>2. enabled' = TRUE
    BY <1>1 DEF TypeInv
  <2> QED
    BY <1>1, <2>1, <2>2, ChangesReact
<1>2. CASE ~(id # watched /\ enabled)
  <2>1. Unaffected /\ watched' = id
    BY <1>2 DEF Activate
  <2>2. ApplyReaction(<<>>)
    BY <2>1, NothingReacts DEF Unaffected, profile
  <2>3. TellReaction(<<>>)
    BY <1>2, <2>1 DEF Unaffected, TellReaction, StatusOf
  <2> QED
    BY <2>2, <2>3
<1> QED
  BY <1>1, <1>2

LEMMA WatcherReacts ==
    ASSUME TypeInv, PinHolds, Poll \/ Ripen \/ Unpin \/ \E id \in Ids : PinProfile(id)
    PROVE  \E jobs : Reaction(jobs)
<1>1. CASE Poll
  <2>1. /\ UNCHANGED <<enabled, suspended, draft, run, lastApplied, rejects, latest>>
        /\ UNCHANGED <<file, pinned>>
    BY <1>1 DEF Poll, input, bounds
  <2>2. \A jobs : SaveReaction(jobs)
    BY <2>1 DEF SaveReaction
  <2>3. CASE Matched = watched \/ (Matched # watched /\ candidate # Matched)
    <3>1. Unaffected /\ watched' = watched
      BY <1>1, <2>3 DEF Poll
    <3>2. ApplyReaction(<<>>) /\ TellReaction(<<>>)
      BY <2>1, <3>1, NothingReacts DEF Unaffected, profile, TellReaction
    <3> QED
      BY <2>2, <3>2 DEF Reaction
  <2>4. CASE Matched # watched /\ candidate = Matched
    <3>1. Activate(Matched)
      BY <1>1, <2>4 DEF Poll
    <3> QED
      BY <2>1, <2>2, <3>1, ActivateReacts DEF Reaction
  <2> QED
    BY <2>3, <2>4
<1>2. CASE Ripen
  <2>1. UNCHANGED <<chain, run, lastApplied, rejects, enabled, suspended, draft, active,
                    state, latest, watched, told, file, pinned>>
    BY <1>2 DEF Ripen, profile, input, bounds
  <2> QED
    BY <2>1, NothingReacts DEF Reaction, TellReaction, SaveReaction
<1>3. ASSUME Unpin \/ \E id \in Ids : PinProfile(id)
      PROVE  \E jobs : Reaction(jobs)
  <2>1. /\ UNCHANGED <<enabled, suspended, draft, run, lastApplied, rejects, latest>>
        /\ file' = [enabled |-> enabled', pin |-> pinned']
        /\ \E id : Activate(id)
    BY <1>3 DEF Unpin, PinProfile, Event, input
  <2>2. \A jobs : SaveReaction(jobs)
    BY <2>1 DEF SaveReaction
  <2> QED
    BY <2>1, <2>2, ActivateReacts DEF Reaction
<1> QED
  BY <1>1, <1>2, <1>3

LEMMA ModeReacts ==
    ASSUME TypeInv, PinHolds,
           Enable \/ Disable \/ Test \/ Tested \/ ResetAdaptiveTriggers
    PROVE  \E jobs : Reaction(jobs)
<1>1. CASE Enable
  <2> DEFINE id == IF pinned = None THEN Matched ELSE watched
             found == IF id # watched THEN Reapplied ELSE <<>>
             apply == IF suspended THEN <<>> ELSE <<Job("bases", TRUE, "save")>>
  <2>1. /\ Queue(found \o apply) /\ enabled' = TRUE /\ watched' = id
        /\ ~enabled
        /\ UNCHANGED <<pinned, suspended, run, lastApplied, rejects>>
        /\ suspended => /\ told' = StatusOf(TRUE, id)
                        /\ file' = [enabled |-> TRUE, pin |-> IF pinned # None THEN id ELSE None]
    BY <1>1 DEF Enable, Event
  <2>2. pinned # None => id = pinned
    BY DEF PinHolds
  <2>3. found \in Seq(Jobs) /\ ~Holds(found, "reset") /\ ~Holds(found, "input")
    BY ReappliedHolds, EmptyHolds
  <2>4. /\ apply \in Seq(Jobs) /\ ~Holds(apply, "reset") /\ ~Holds(apply, "input")
        /\ ~suspended => Holds(apply, "bases") /\ Tells(apply) /\ Saves(apply)
    <3>1. /\ Job("bases", TRUE, "save") \in Jobs
          /\ Job("bases", TRUE, "save").kind = "bases"
          /\ Job("bases", TRUE, "save").tell = TRUE
          /\ Job("bases", TRUE, "save").after = "save"
      BY JobTypes
    <3>2. CASE suspended
      BY <3>2, EmptyHolds
    <3>3. CASE ~suspended
      BY <3>1, <3>3, OneHolds
    <3> QED
      BY <3>2, <3>3
  <2> HIDE DEF found, apply
  <2>5. /\ found \o apply \in Seq(Jobs)
        /\ ~Holds(found \o apply, "reset") /\ ~Holds(found \o apply, "input")
        /\ ~suspended => /\ Holds(found \o apply, "bases") /\ Tells(found \o apply)
                         /\ Saves(found \o apply)
    BY <2>3, <2>4, QueueHolds
  <2> HIDE DEF id
  <2>6. ApplyReaction(found \o apply)
    BY <2>1, <2>5 DEF ApplyReaction, Live
  <2>7. TellReaction(found \o apply)
    BY <2>1, <2>5 DEF TellReaction
  <2>8. SaveReaction(found \o apply)
    BY <2>1, <2>2, <2>5 DEF SaveReaction
  <2> QED
    BY <2>6, <2>7, <2>8 DEF Reaction
<1>2. CASE Disable
  <2> DEFINE job == Job("reset", TRUE, "save")
  <2>1. job \in Jobs /\ job.kind = "reset" /\ job.tell = TRUE /\ job.after = "save"
    BY JobTypes
  <2>2. /\ <<job>> \in Seq(Jobs) /\ Holds(<<job>>, "reset")
        /\ Tells(<<job>>) /\ Saves(<<job>>)
    BY <2>1, OneHolds
  <2>3. Queue(<<job>>) /\ ~enabled' /\ UNCHANGED <<run, lastApplied, rejects>>
    BY <1>2 DEF Disable, Event
  <2> HIDE DEF job
  <2> QED
    BY <2>2, <2>3 DEF Reaction, ApplyReaction, TellReaction, SaveReaction, Live
<1>3. CASE Test
  <2>1. UNCHANGED <<enabled, run, lastApplied, rejects, active, state, latest, watched, told,
                    file, pinned>>
    BY <1>3 DEF Test, Event, profile, input, watcher
  <2>2. CASE suspended
    <3>1. UNCHANGED <<chain, suspended, draft>>
      BY <1>3, <2>2 DEF Test
    <3> QED
      BY <2>1, <3>1, NothingReacts DEF Reaction, TellReaction, SaveReaction
  <2>3. CASE ~suspended
    <3> DEFINE job == Job("reset", TRUE, "test")
    <3>1. job \in Jobs /\ job.kind = "reset"
      BY JobTypes
    <3>2. <<job>> \in Seq(Jobs) /\ Holds(<<job>>, "reset")
      BY <3>1, OneHolds
    <3>3. Queue(<<job>>) /\ suspended'
      BY <1>3, <2>3 DEF Test
    <3> HIDE DEF job
    <3> QED
      BY <2>1, <3>2, <3>3
      DEF Reaction, ApplyReaction, TellReaction, SaveReaction, Live
  <2> QED
    BY <2>2, <2>3
<1>4. CASE Tested
  <2>1. UNCHANGED <<chain, run, lastApplied, rejects, enabled, suspended, draft, active,
                    state, latest, watched, told, file, pinned>>
    BY <1>4 DEF Tested, profile, input, bounds, watcher
  <2> QED
    BY <2>1, NothingReacts DEF Reaction, TellReaction, SaveReaction
<1>5. CASE ResetAdaptiveTriggers
  <2>1. UNCHANGED <<enabled, draft, run, lastApplied, rejects, active, state, latest, watched,
                    file, pinned>>
    BY <1>5 DEF ResetAdaptiveTriggers, Event, profile, input, watcher
  <2>2. CASE suspended /\ enabled
    <3> DEFINE job == Job("bases", TRUE, "none")
    <3>1. job \in Jobs /\ job.kind = "bases" /\ job.tell = TRUE
      BY JobTypes
    <3>2. /\ <<job>> \in Seq(Jobs) /\ Holds(<<job>>, "bases") /\ Tells(<<job>>)
          /\ ~Holds(<<job>>, "reset") /\ ~Holds(<<job>>, "input")
      BY <3>1, OneHolds
    <3>3. Queue(<<job>>) /\ ~suspended'
      BY <1>5, <2>2 DEF ResetAdaptiveTriggers
    <3> HIDE DEF job
    <3> QED
      BY <2>1, <2>2, <3>2, <3>3
      DEF Reaction, ApplyReaction, TellReaction, SaveReaction, Live
  <2>3. CASE ~(suspended /\ enabled)
    <3>1. /\ UNCHANGED chain /\ suspended' = FALSE
          /\ told' = StatusOf(enabled, watched) \/ told' = told
      BY <1>5, <2>3 DEF ResetAdaptiveTriggers
    <3>2. ApplyReaction(<<>>)
      <4>1. Queue(<<>>) /\ <<>> \in Seq(Jobs)
            /\ \A kind : ~Holds(<<>>, kind)
        BY <3>1, QueueNothing, EmptyHolds
      <4>2. CASE enabled
        <5>1. suspended' = suspended
          BY <2>3, <3>1, <4>2 DEF TypeInv
        <5> QED
          BY <2>1, <4>1, <5>1 DEF ApplyReaction
      <4>3. CASE ~enabled
        BY <2>1, <4>1, <4>3 DEF ApplyReaction, Live
      <4> QED
        BY <4>2, <4>3
    <3>3. TellReaction(<<>>) /\ SaveReaction(<<>>)
      BY <2>1, <3>1 DEF TellReaction, SaveReaction
    <3> QED
      BY <3>2, <3>3 DEF Reaction
  <2> QED
    BY <2>2, <2>3
<1> QED
  BY <1>1, <1>2, <1>3, <1>4, <1>5

LEMMA EditReacts ==
    ASSUME TypeInv,
           \/ \E games \in SUBSET Games : GamesRun(games)
           \/ PreviewDraft \/ ClearDraft \/ SelectState
           \/ \E g \in Games : SaveProfile(g) \/ DeleteProfile(g)
    PROVE  \E jobs : Reaction(jobs)
<1> DEFINE job == Job("bases", FALSE, "none")
<1>1. job \in Jobs /\ job.kind = "bases"
  BY JobTypes
<1>2. /\ <<job>> \in Seq(Jobs) /\ Holds(<<job>>, "bases")
      /\ ~Holds(<<job>>, "reset") /\ ~Holds(<<job>>, "input")
  BY <1>1, OneHolds
<1>3. ASSUME NEW games \in SUBSET Games, GamesRun(games)
      PROVE  \E jobs : Reaction(jobs)
  <2>1. UNCHANGED <<chain, run, lastApplied, rejects, enabled, suspended, draft, active,
                    state, latest, watched, told, file, pinned>>
    BY <1>3 DEF GamesRun, Event, profile, input, watcher
  <2> QED
    BY <2>1, NothingReacts DEF Reaction, TellReaction, SaveReaction
<1>4. CASE PreviewDraft
  <2>1. /\ Queue(<<job>>) /\ Live
        /\ UNCHANGED <<enabled, suspended, run, lastApplied, rejects, watched, told, file, pinned>>
    BY <1>4 DEF PreviewDraft, Event, watcher
  <2> HIDE DEF job
  <2> QED
    BY <1>2, <2>1 DEF Reaction, ApplyReaction, TellReaction, SaveReaction, Live
<1>5. CASE ClearDraft
  <2>1. UNCHANGED <<enabled, suspended, run, lastApplied, rejects, watched, told, file, pinned>>
    BY <1>5 DEF ClearDraft, Event, watcher
  <2>2. CASE Live
    <3>1. Queue(<<job>>)
      BY <1>5, <2>2 DEF ClearDraft
    <3> HIDE DEF job
    <3> QED
      BY <1>2, <2>1, <2>2, <3>1 DEF Reaction, ApplyReaction, TellReaction, SaveReaction, Live
  <2>3. CASE ~Live
    <3>1. Queue(<<>>)
      BY <1>5, <2>3 DEF ClearDraft
    <3> QED
      BY <2>1, <2>3, <3>1, EmptyHolds
      DEF Reaction, ApplyReaction, TellReaction, SaveReaction, Live
  <2> QED
    BY <2>2, <2>3
<1>6. CASE SelectState
  <2>1. /\ Queue(Reapplied) /\ (suspended => told' = StatusOf(enabled, watched))
        /\ UNCHANGED <<enabled, suspended, run, lastApplied, rejects, watched, file, pinned>>
    BY <1>6 DEF SelectState, Event, watcher
  <2>2. ApplyReaction(Reapplied)
    BY <2>1, ReappliedHolds DEF ApplyReaction, Live
  <2>3. TellReaction(Reapplied)
    BY <2>1, ReappliedHolds DEF TellReaction
  <2> QED
    BY <2>1, <2>2, <2>3 DEF Reaction, SaveReaction
<1>7. ASSUME NEW g \in Games, SaveProfile(g) \/ DeleteProfile(g)
      PROVE  \E jobs : Reaction(jobs)
  <2>1. /\ Refresh(stored')
        /\ UNCHANGED <<enabled, suspended, draft, run, lastApplied, rejects, latest, watched,
                       file, pinned>>
    BY <1>7 DEF SaveProfile, DeleteProfile, Event, watcher, input
  <2>2. \A jobs : SaveReaction(jobs)
    BY <2>1 DEF SaveReaction
  <2>3. CASE enabled /\ active # None
    <3>1. ChangesTo(watched, stored')
      BY <2>1, <2>3 DEF Refresh
    <3>2. enabled' = TRUE
      BY <2>1, <2>3 DEF TypeInv
    <3>3. ApplyReaction(Reapplied) /\ TellReaction(Reapplied)
      BY <2>1, <2>3, <3>1, <3>2, ChangesReact
    <3> QED
      BY <2>2, <3>3 DEF Reaction
  <2>4. CASE ~(enabled /\ active # None)
    <3>1. Unaffected
      BY <2>1, <2>4 DEF Refresh
    <3>2. ApplyReaction(<<>>) /\ TellReaction(<<>>)
      BY <2>1, <3>1, NothingReacts DEF Unaffected, profile, TellReaction
    <3> QED
      BY <2>2, <3>2 DEF Reaction
  <2> QED
    BY <2>3, <2>4
<1> QED
  BY <1>3, <1>4, <1>5, <1>6, <1>7

LEMMA InputReacts ==
    ASSUME TypeInv, NEW switched \in BOOLEAN, NEW held \in BOOLEAN,
           Input(switched, held)
    PROVE  \E jobs : Reaction(jobs)
<1> DEFINE jobs == InputJobs(switched)
<1>1. /\ jobs \in Seq(Jobs) /\ (Holds(jobs, "bases") <=> switched = TRUE)
      /\ ~Holds(jobs, "reset")
  BY InputJobsHold
<1>2. Queue(jobs)
  BY DEF Input, InputJobs
<1> HIDE DEF jobs
<1>3. /\ Live /\ ~draft
      /\ UNCHANGED <<enabled, suspended, draft, active, run, lastApplied, rejects, watched,
                     file, pinned>>
      /\ latest' = Effects(active, state', held)
  BY DEF Input, Event, watcher
<1>4. Live' /\ ~draft' /\ latest' = Effects(active', state', held)
  BY <1>3 DEF Live
<1>5. Wanted(latest)'
  BY <1>4 DEF Wanted
<1>6. CASE switched = TRUE
  <2>1. ApplyReaction(jobs)
    BY <1>1, <1>2, <1>3, <1>4, <1>5, <1>6 DEF ApplyReaction
  <2>2. told' = StatusOf(enabled, watched)
    BY <1>6 DEF Input
  <2> QED
    BY <1>3, <2>1, <2>2 DEF Reaction, TellReaction, SaveReaction
<1>7. CASE switched = FALSE
  <2>1. state' = state /\ told' = told
    BY <1>7 DEF Input
  <2>2. ApplyReaction(jobs)
    BY <1>1, <1>2, <1>3, <1>5, <2>1 DEF ApplyReaction
  <2> QED
    BY <1>3, <2>1, <2>2 DEF Reaction, TellReaction, SaveReaction
<1> QED
  BY <1>6, <1>7

(***************************************************************************)
(* The invariants of what is applied, told and saved.                      *)
(***************************************************************************)
LEMMA RestTypes ==
    ASSUME TypeInv
    PROVE  Rest \in Seq(Jobs)
BY TakeHolds DEF TypeInv, Rest

LEMMA RestQueue ==
    ASSUME TypeInv, NEW jobs \in Seq(Jobs), Queue(jobs), run' = run
    PROVE  Rest' = Rest \o jobs
<1>1. chain \in Seq(Jobs) /\ chain' = chain \o jobs /\ (run # None => chain # <<>>)
  BY DEF TypeInv, Queue
<1>2. ASSUME chain # <<>>
      PROVE  Tail(chain \o jobs) = Tail(chain) \o jobs
  BY <1>1, <1>2
<1> QED
  BY <1>1, <1>2 DEF Rest

LEMMA Uncovered ==
    ASSUME NEW q, NEW kind, ~Holds(q, kind)
    PROVE  Covered(q, kind)
BY DEF Holds, Covered

LEMMA ReactionKeeps ==
    ASSUME TypeInv, ApplyInv, NEW jobs, ApplyReaction(jobs)
    PROVE  ApplyInv'
<1>1. /\ jobs \in Seq(Jobs) /\ Queue(jobs) /\ UNCHANGED <<run, lastApplied, rejects>>
      /\ CallInv /\ SafeInv /\ InputInv /\ ResetInv /\ AppliedInv
  BY DEF ApplyReaction, ApplyInv
<1>2. Rest \in Seq(Jobs) /\ Rest' = Rest \o jobs
  BY <1>1, RestTypes, RestQueue
<1>3. /\ \A kind : Holds(Rest', kind) <=> Holds(Rest, kind) \/ Holds(jobs, kind)
      /\ \A kind : /\ Covered(Rest, kind) \/ Holds(jobs, "bases")
                   /\ ~Holds(jobs, kind)
                   => Covered(Rest', kind)
  BY <1>1, <1>2, QueueHolds
<1>4. CallInv'
  BY <1>1 DEF CallInv
<1>5. CASE /\ Live' /\ Holds(jobs, "bases") /\ ~Holds(jobs, "reset")
           /\ ~Holds(jobs, "input") \/ Wanted(latest)'
  <2>1. SafeInv' /\ InputInv' /\ ResetInv'
    BY <1>3, <1>5 DEF SafeInv, InputInv, ResetInv
  <2>2. AppliedInv'
    BY <1>3, <1>5 DEF AppliedInv
  <2> QED
    BY <1>4, <2>1, <2>2 DEF ApplyInv
<1>6. CASE ~Live' /\ (Live => Holds(jobs, "reset"))
  <2>1. InputInv' /\ ResetInv'
    BY <1>6 DEF InputInv, ResetInv
  <2>2. SafeInv'
    BY <1>1, <1>3, <1>6 DEF SafeInv
  <2>3. AppliedInv'
    <3>1. CASE Live
      BY <1>3, <1>6, <3>1 DEF AppliedInv
    <3>2. CASE ~Live
      <4>1. \A e : Wanted(e) => e = NoEffect
        BY <3>2 DEF Wanted
      <4>2. (\A e : e = NoEffect => Wanted(e))'
        BY <1>6 DEF Wanted
      <4>3. rejects = 0 => \/ Holds(Rest, "reset")
                           \/ run # None /\ run.want = NoEffect
                           \/ run = None /\ lastApplied = NoEffect
        BY <1>1, <3>2, <4>1 DEF AppliedInv
      <4> QED
        BY <1>1, <1>3, <1>6, <4>2, <4>3 DEF AppliedInv, Wanted
    <3> QED
      BY <3>1, <3>2
  <2> QED
    BY <1>4, <2>1, <2>2, <2>3 DEF ApplyInv
<1>7. CASE /\ UNCHANGED <<enabled, suspended, draft, active, state>>
           /\ ~Holds(jobs, "reset")
           /\ (~Holds(jobs, "input") /\ latest' = latest) \/ Wanted(latest)'
  <2>1. Live' = Live
    BY <1>7 DEF Live
  <2>2. SafeInv' /\ ResetInv'
    BY <1>1, <1>3, <1>7, <2>1 DEF SafeInv, ResetInv
  <2>3. InputInv'
    BY <1>1, <1>3, <1>7, <2>1 DEF InputInv, Wanted
  <2>4. AppliedInv'
    BY <1>1, <1>3, <1>7, <2>1 DEF AppliedInv, Wanted
  <2> QED
    BY <1>4, <2>2, <2>3, <2>4 DEF ApplyInv
<1> QED
  BY <1>5, <1>6, <1>7 DEF ApplyReaction

(* A job begins: it makes a call, or it is done at once.                   *)
Begins ==
    \/ Ends
    \/ \E call \in Triggers \cup {"reset"}, want \in Wants : Calls(call, want)

LEMMA BeginsRest ==
    ASSUME TypeInv, chain # <<>>, run = None, Begins
    PROVE  /\ Rest = chain /\ Rest' = Tail(chain) /\ chain \in Seq(Jobs)
           /\ \A kind : Holds(Rest, kind) => Head(chain).kind = kind \/ Holds(Rest', kind)
           /\ \A kind : Covered(Rest, kind) =>
                  /\ Covered(Rest', kind)
                  /\ Head(chain).kind = kind => Holds(Rest', "bases")
<1>1. Rest = chain /\ chain \in Seq(Jobs)
  BY DEF Rest, TypeInv
<1>2. Rest' = Tail(chain)
  <2>1. CASE Ends
    BY <2>1 DEF Ends, Rest
  <2>2. ASSUME NEW call \in Triggers \cup {"reset"}, NEW want \in Wants, Calls(call, want)
        PROVE  Rest' = Tail(chain)
    <3>1. run' # None /\ chain' = chain
      BY <2>2, CallsTypes
    <3> QED
      BY <3>1 DEF Rest
  <2> QED
    BY <2>1, <2>2 DEF Begins
<1> QED
  BY <1>1, <1>2, TakeHolds

LEMMA WriteBegins ==
    ASSUME TypeInv, chain # <<>>, NEW want \in Wants, WriteDesired(want)
    PROVE  /\ Begins
           /\ \/ run' = None /\ lastApplied = want
              \/ run' # None /\ run'.want = want
           /\ run' # None /\ run'.call = "reset" => run'.want = NoEffect
           /\ run' # None /\ run'.call = "r2" => lastApplied["l2"] = run'.want["l2"]
<1>1. CASE Ends /\ lastApplied = want
  BY <1>1 DEF Ends, Begins
<1>2. ASSUME NEW call \in Triggers \cup {"reset"}, Calls(call, want),
             call = "reset" => want = NoEffect,
             call = "r2" => lastApplied["l2"] = want["l2"]
      PROVE  /\ Begins /\ run' # None /\ run'.want = want
             /\ run'.call = "reset" => run'.want = NoEffect
             /\ run'.call = "r2" => lastApplied["l2"] = run'.want["l2"]
  BY <1>2, CallsTypes DEF Begins
<1> QED
  BY <1>1, <1>2, WriteCalls

(* What the jobs that write leave of the engine.                           *)
LEMMA BeginKeeps ==
    ASSUME TypeInv, ApplyInv, chain # <<>>, run = None, Begins,
           UNCHANGED <<enabled, suspended, draft, active, state, lastApplied, rejects>>,
           latest' = latest \/ latest' = None,
           CallInv', SafeInv', AppliedInv'
    PROVE  ApplyInv'
<1>1. \A kind : Covered(Rest, kind) => Covered(Rest', kind)
  BY BeginsRest
<1>2. Live' = Live
  BY DEF Live
<1>3. InputInv' /\ ResetInv'
  BY <1>1, <1>2 DEF ApplyInv, InputInv, ResetInv, Wanted
<1> QED
  BY <1>3 DEF ApplyInv

(* A job writes what is wanted of an engine that is live.                  *)
LEMMA LiveWriteKeeps ==
    ASSUME TypeInv, ApplyInv, chain # <<>>, run = None, Live,
           NEW want \in Wants, WriteDesired(want),
           UNCHANGED <<enabled, suspended, draft, active, state, lastApplied, rejects>>,
           latest' = latest \/ latest' = None,
           Wanted(want) \/ Holds(Rest', "bases")
    PROVE  ApplyInv'
<1>1. /\ Begins
      /\ \/ run' = None /\ lastApplied = want
         \/ run' # None /\ run'.want = want
      /\ run' # None /\ run'.call = "reset" => run'.want = NoEffect
      /\ run' # None /\ run'.call = "r2" => lastApplied["l2"] = run'.want["l2"]
  BY WriteBegins
<1>2. Live' /\ (\A e : Wanted(e)' <=> Wanted(e))
  BY DEF Live, Wanted
<1>3. CallInv' /\ SafeInv'
  BY <1>1, <1>2 DEF CallInv, SafeInv
<1>4. AppliedInv'
  <2>1. CASE Wanted(want)
    <3>1. Wanted(want)'
      BY <1>2, <2>1
    <3>2. \/ run' = None /\ Wanted(lastApplied)'
          \/ run' # None /\ Wanted(run.want)'
      BY <1>1, <3>1 DEF Wanted
    <3> QED
      BY <3>2 DEF AppliedInv
  <2>2. CASE Holds(Rest', "bases")
    BY <1>2, <2>2 DEF AppliedInv
  <2> QED
    BY <2>1, <2>2
<1> QED
  BY <1>1, <1>3, <1>4, BeginKeeps

(* A job that is not a reset is done at once.                              *)
LEMMA EndKeeps ==
    ASSUME TypeInv, ApplyInv, chain # <<>>, run = None, Ends,
           UNCHANGED <<enabled, suspended, draft, active, state, lastApplied, rejects>>,
           latest' = latest \/ latest' = None,
           Head(chain).kind # (IF Live THEN "bases" ELSE "reset")
    PROVE  ApplyInv'
<1>1. run' = None /\ Begins
  BY DEF Ends, Begins
<1>2. CallInv' /\ SafeInv'
  BY <1>1 DEF CallInv, SafeInv
<1>3. AppliedInv'
  <2>1. \A kind : Holds(Rest, kind) => Head(chain).kind = kind \/ Holds(Rest', kind)
    BY <1>1, BeginsRest
  <2>2. Live' = Live /\ (Wanted(lastApplied)' <=> Wanted(lastApplied))
    BY DEF Live, Wanted
  <2>3. AppliedInv
    BY DEF ApplyInv
  <2> QED
    BY <1>1, <2>1, <2>2, <2>3 DEF AppliedInv
<1> QED
  BY <1>1, <1>2, <1>3, BeginKeeps

LEMMA BasesKeeps ==
    ASSUME TypeInv, ApplyInv, BasesJob
    PROVE  ApplyInv'
<1>1. /\ chain # <<>> /\ run = None /\ Head(chain).kind = "bases"
      /\ UNCHANGED <<enabled, suspended, draft, active, state, lastApplied, rejects, latest>>
  BY DEF BasesJob, Starting, profile, input, bounds
<1>2. CASE Live
  <2>1. WriteDesired(Bases)
    BY <1>2 DEF BasesJob
  <2>2. Wanted(Bases)
    BY <1>2 DEF Wanted, Bases
  <2> QED
    BY <1>1, <1>2, <2>1, <2>2, BasesTypes, LiveWriteKeeps
<1>3. CASE ~Live
  <2>1. Ends
    BY <1>3 DEF BasesJob
  <2> QED
    BY <1>1, <1>3, <2>1, EndKeeps
<1> QED
  BY <1>2, <1>3

LEMMA InputKeeps ==
    ASSUME TypeInv, ApplyInv, InputJob
    PROVE  ApplyInv'
<1>1. /\ chain # <<>> /\ run = None /\ Head(chain).kind = "input" /\ latest' = None
      /\ UNCHANGED <<enabled, suspended, draft, active, state, lastApplied, rejects>>
  BY DEF InputJob, Starting, profile, bounds
<1>2. CASE latest # None /\ Live
  <2>1. WriteDesired(latest) /\ latest \in Wants
    BY <1>2 DEF InputJob, TypeInv
  <2>2. Covered(Rest, "input") \/ Wanted(latest)
    BY <1>2 DEF ApplyInv, InputInv
  <2>3. Begins
    BY <1>1, <2>1, WriteBegins
  <2>4. Covered(Rest, "input") => Holds(Rest', "bases")
    BY <1>1, <2>3, BeginsRest
  <2> QED
    BY <1>1, <1>2, <2>1, <2>2, <2>4, LiveWriteKeeps
<1>3. CASE ~(latest # None /\ Live)
  <2>1. Ends
    BY <1>3 DEF InputJob
  <2> QED
    BY <1>1, <2>1, EndKeeps
<1> QED
  BY <1>2, <1>3

LEMMA ResetKeeps ==
    ASSUME TypeInv, ApplyInv, ResetJob
    PROVE  ApplyInv'
<1>1. /\ chain # <<>> /\ run = None /\ Head(chain).kind = "reset"
      /\ Calls("reset", NoEffect)
      /\ UNCHANGED <<enabled, suspended, draft, active, state, lastApplied, rejects, latest>>
  BY DEF ResetJob, Starting, profile, input, bounds
<1>2. /\ run' # None /\ run'.call = "reset" /\ run'.want = NoEffect /\ Begins
  BY <1>1, EffectTypes, CallsTypes DEF Begins
<1>3. CallInv' /\ SafeInv'
  BY <1>2 DEF CallInv, SafeInv, Triggers
<1>4. AppliedInv'
  <2>1. CASE Live
    <3>1. Covered(Rest, "reset")
      BY <2>1 DEF ApplyInv, ResetInv
    <3>2. Holds(Rest', "bases")
      BY <1>1, <1>2, <3>1, BeginsRest
    <3> QED
      BY <1>1, <2>1, <3>2 DEF AppliedInv, Live
  <2>2. CASE ~Live
    <3>1. ~Live'
      BY <1>1, <2>2 DEF Live
    <3> QED
      BY <1>2, <3>1 DEF AppliedInv, Wanted
  <2> QED
    BY <2>1, <2>2
<1> QED
  BY <1>1, <1>2, <1>3, <1>4, BeginKeeps

(* A call is answered or fails: the jobs that have not begun stay.         *)
LEMMA AnsweredRest ==
    ASSUME TypeInv, run # None,
           \/ chain' = Tail(chain) /\ run' = None
           \/ chain' = chain /\ run' # None
    PROVE  Rest' = Rest
BY DEF Rest

LEMMA AnsweredKeeps ==
    ASSUME TypeInv, ApplyInv, run # None, Rest' = Rest,
           UNCHANGED <<enabled, suspended, draft, active, state, latest>>,
           CallInv', SafeInv', AppliedInv'
    PROVE  ApplyInv'
<1>1. InputInv' /\ ResetInv'
  BY DEF ApplyInv, InputInv, ResetInv, Wanted, Live
<1> QED
  BY <1>1 DEF ApplyInv

LEMMA TriggerWrittenKeeps ==
    ASSUME TypeInv, ApplyInv, TriggerWritten
    PROVE  ApplyInv'
<1>1. /\ run # None /\ run.call \in Triggers /\ run.want \in Wants /\ chain # <<>>
      /\ lastApplied \in Wants /\ "l2" \in Triggers /\ "r2" \in Triggers
      /\ \A t \in Triggers : t = "l2" \/ t = "r2"
      /\ lastApplied' = [lastApplied EXCEPT ![run.call] = run.want[run.call]]
      /\ UNCHANGED <<enabled, suspended, draft, active, state, latest, rejects>>
  BY DEF TriggerWritten, TypeInv, SinkCalls, Triggers, profile, input, bounds
<1>2. CallInv /\ SafeInv /\ AppliedInv
  BY DEF ApplyInv
<1>3. Live' = Live /\ (\A e : Wanted(e)' <=> Wanted(e))
  BY <1>1 DEF Live, Wanted
<1>4. CASE run.call = "l2" /\ run.want["r2"] # lastApplied["r2"]
  <2>1. Calls("r2", run.want)
    BY <1>4 DEF TriggerWritten
  <2>2. /\ run' # None /\ run'.call = "r2" /\ run'.want = run.want /\ chain' = chain
    BY <1>1, <2>1, CallsTypes
  <2>3. Rest' = Rest
    BY <1>1, <2>2, AnsweredRest
  <2>4. CallInv'
    BY <1>1, <1>4, <2>2 DEF CallInv, Wants
  <2>5. SafeInv'
    BY <1>1, <1>2, <1>3, <2>3 DEF SafeInv
  <2>6. AppliedInv'
    <3>1. Wanted(run.want)' <=> Wanted(run.want)
      BY <1>1, <2>2 DEF Wanted, Live
    <3> QED
      BY <1>1, <1>2, <1>3, <2>2, <2>3, <3>1 DEF AppliedInv
  <2> QED
    BY <1>1, <2>3, <2>4, <2>5, <2>6, AnsweredKeeps
<1>5. CASE ~(run.call = "l2" /\ run.want["r2"] # lastApplied["r2"])
  <2>1. Ends
    BY <1>5 DEF TriggerWritten
  <2>2. run' = None /\ chain' = Tail(chain)
    BY <2>1 DEF Ends
  <2>3. Rest' = Rest
    BY <1>1, <2>2, AnsweredRest
  <2>4. lastApplied' = run.want
    <3>1. lastApplied'["l2"] = run.want["l2"] /\ lastApplied'["r2"] = run.want["r2"]
      BY <1>1, <1>2, <1>5 DEF CallInv, Wants
    <3>2. lastApplied' \in Wants
      BY <1>1 DEF Wants
    <3> QED
      BY <1>1, <3>1, <3>2, SameWants
  <2>5. CallInv' /\ SafeInv'
    BY <2>2 DEF CallInv, SafeInv
  <2>6. AppliedInv'
    <3>1. Wanted(lastApplied)' <=> Wanted(run.want)
      BY <1>1, <2>4 DEF Wanted, Live
    <3> QED
      BY <1>1, <1>2, <1>3, <2>2, <2>3, <3>1 DEF AppliedInv
  <2> QED
    BY <1>1, <2>3, <2>5, <2>6, AnsweredKeeps
<1> QED
  BY <1>4, <1>5

LEMMA ResetWrittenKeeps ==
    ASSUME TypeInv, ApplyInv, ResetWritten
    PROVE  ApplyInv'
<1>1. /\ run # None /\ run.call = "reset" /\ lastApplied' = NoEffect
      /\ run' = None /\ chain' = Tail(chain)
      /\ UNCHANGED <<enabled, suspended, draft, active, state, latest, rejects>>
  BY DEF ResetWritten, Ends, profile, input, bounds
<1>2. Rest' = Rest
  BY <1>1, AnsweredRest
<1>3. CallInv' /\ SafeInv'
  BY <1>1 DEF CallInv, SafeInv
<1>4. AppliedInv'
  <2>1. run.want = NoEffect /\ AppliedInv
    BY <1>1 DEF ApplyInv, CallInv
  <2>2. /\ Live' = Live
        /\ Wanted(lastApplied)' <=> Wanted(run.want)
    BY <1>1, <2>1 DEF Wanted, Live
  <2> QED
    BY <1>1, <1>2, <2>1, <2>2 DEF AppliedInv
<1> QED
  BY <1>1, <1>2, <1>3, <1>4, AnsweredKeeps

LEMMA RejectedKeeps ==
    ASSUME TypeInv, ApplyInv, Rejected
    PROVE  ApplyInv'
<1>1. /\ run # None /\ run' = None /\ chain' = Tail(chain) /\ rejects' = rejects + 1
      /\ UNCHANGED <<enabled, suspended, draft, active, state, latest>>
  BY DEF Rejected, profile, input
<1>2. Rest' = Rest
  BY <1>1, AnsweredRest
<1>3. rejects' # 0
  BY <1>1 DEF TypeInv
<1>4. CallInv' /\ SafeInv' /\ AppliedInv'
  BY <1>1, <1>3 DEF CallInv, SafeInv, AppliedInv
<1> QED
  BY <1>1, <1>2, <1>4, AnsweredKeeps

LEMMA CrashKeeps ==
    ASSUME TypeInv, ApplyInv, Crash
    PROVE  ApplyInv'
<1>1. /\ run' = None /\ lastApplied' = NoEffect /\ latest' = None
      /\ enabled' = file.enabled /\ suspended' = FALSE
      /\ chain' = IF file.enabled THEN <<Job("bases", TRUE, "none")>> ELSE <<>>
  BY DEF Crash
<1>2. CallInv' /\ SafeInv' /\ InputInv'
  BY <1>1 DEF CallInv, SafeInv, InputInv
<1>3. Rest' = chain'
  BY <1>1 DEF Rest
<1>4. CASE file.enabled
  <2>1. /\ Job("bases", TRUE, "none") \in Jobs
        /\ Job("bases", TRUE, "none").kind = "bases"
    BY JobTypes
  <2>2. Holds(Rest', "bases") /\ ~Holds(Rest', "reset")
    BY <1>1, <1>3, <1>4, <2>1, OneHolds
  <2>3. Live'
    BY <1>1, <1>4 DEF Live
  <2>4. ResetInv'
    BY <2>2, Uncovered DEF ResetInv
  <2>5. AppliedInv'
    BY <2>2, <2>3 DEF AppliedInv
  <2> QED
    BY <1>2, <2>4, <2>5 DEF ApplyInv
<1>5. CASE ~file.enabled
  <2>1. ~Live'
    BY <1>1, <1>5 DEF Live
  <2>2. ResetInv' /\ AppliedInv'
    BY <1>1, <2>1 DEF ResetInv, AppliedInv, Wanted
  <2> QED
    BY <1>2, <2>2 DEF ApplyInv
<1> QED
  BY <1>4, <1>5

LEMMA NextApplies ==
    ASSUME TypeInv, PinHolds, ApplyInv, [Next]_vars
    PROVE  ApplyInv'
<1>1. CASE UNCHANGED vars
  <2>1. UNCHANGED <<chain, run, lastApplied, rejects, enabled, suspended, draft, active,
                    state, latest>>
    BY <1>1 DEF vars, profile, input, bounds
  <2> QED
    BY <2>1, NothingReacts, ReactionKeeps
<1>2. CASE JobStep
  BY <1>2, BasesKeeps, ResetKeeps, InputKeeps, TriggerWrittenKeeps, ResetWrittenKeeps,
     RejectedKeeps
  DEF JobStep
<1>3. CASE Crash
  BY <1>3, CrashKeeps
<1>4. ASSUME NEW jobs, Reaction(jobs) PROVE ApplyInv'
  BY <1>4, ReactionKeeps DEF Reaction
<1> QED
  BY <1>1, <1>2, <1>3, <1>4, WatcherReacts, ModeReacts, EditReacts, InputReacts
  DEF Next, Handlers

(* A job's own steps: it makes a call, is done, or fails.                  *)
LEMMA JobOutcome ==
    ASSUME TypeInv, JobStep
    PROVE  /\ chain # <<>>
           /\ UNCHANGED <<pinned, watched, enabled, suspended>>
           /\ \/ Ends /\ rejects' = rejects
              \/ UNCHANGED <<chain, told, file, rejects>>
              \/ rejects' # 0
<1>1. ASSUME NEW want \in Wants, WriteDesired(want)
      PROVE  Ends \/ UNCHANGED <<chain, told, file>>
  BY <1>1, WriteCalls DEF Calls
<1>2. CASE BasesJob
  BY <1>1, <1>2, BasesTypes DEF BasesJob, Starting, watcher, bounds
<1>3. CASE ResetJob
  BY <1>3 DEF ResetJob, Starting, Calls, watcher, bounds
<1>4. CASE InputJob
  BY <1>1, <1>4 DEF InputJob, Starting, watcher, bounds, TypeInv
<1>5. CASE TriggerWritten
  BY <1>5 DEF TriggerWritten, Calls, watcher, bounds, TypeInv
<1>6. CASE ResetWritten
  BY <1>6 DEF ResetWritten, watcher, bounds, TypeInv
<1>7. CASE Rejected
  <2>1. rejects' # 0
    BY <1>7 DEF Rejected, TypeInv
  <2> QED
    BY <1>7, <2>1 DEF Rejected, watcher, TypeInv
<1> QED
  BY <1>2, <1>3, <1>4, <1>5, <1>6, <1>7 DEF JobStep

LEMMA NextOutside ==
    ASSUME TypeInv, PinHolds, OutsideInv, [Next]_vars
    PROVE  OutsideInv'
<1>1. ToldInv /\ FileInv
  BY DEF OutsideInv
<1>2. CASE UNCHANGED vars
  <2>1. UNCHANGED <<told, enabled, watched, chain, file, pinned, rejects>>
    BY <1>2 DEF vars, watcher, bounds
  <2> QED
    BY <1>1, <2>1 DEF OutsideInv, ToldInv, FileInv
<1>3. CASE JobStep
  <2>1. /\ chain # <<>> /\ chain \in Seq(Jobs)
        /\ UNCHANGED <<pinned, watched, enabled>>
    BY <1>3, JobOutcome DEF TypeInv
  <2>2. CASE Ends /\ rejects' = rejects
    <3>1. /\ chain' = Tail(chain)
          /\ told' = IF Head(chain).tell THEN StatusOf(enabled, watched) ELSE told
          /\ file' = IF Head(chain).after = "save" THEN [enabled |-> enabled, pin |-> Pin]
                     ELSE file
      BY <2>2 DEF Ends
    <3>2. Tells(chain) => Head(chain).tell = TRUE \/ Tells(chain')
      BY <2>1, <3>1, TakeHolds
    <3>3. Saves(chain) => Head(chain).after = "save" \/ Saves(chain')
      BY <2>1, <3>1, TakeHolds
    <3>4. Pin = pinned
      BY DEF Pin, PinHolds
    <3>5. ToldInv'
      <4>1. CASE Head(chain).tell = TRUE
        BY <2>1, <3>1, <4>1 DEF ToldInv
      <4>2. CASE Head(chain).tell = FALSE
        <5>1. told' = told
          BY <3>1, <4>2
        <5> QED
          BY <1>1, <2>1, <2>2, <3>2, <4>2, <5>1 DEF ToldInv
      <4>3. Head(chain).tell \in BOOLEAN
        BY <2>1, TakeHolds DEF Jobs
      <4> QED
        BY <4>1, <4>2, <4>3
    <3>6. FileInv'
      BY <1>1, <2>1, <2>2, <3>1, <3>3, <3>4 DEF FileInv
    <3> QED
      BY <3>5, <3>6 DEF OutsideInv
  <2>3. CASE UNCHANGED <<chain, told, file, rejects>>
    BY <1>1, <2>1, <2>3 DEF OutsideInv, ToldInv, FileInv
  <2>4. CASE rejects' # 0
    BY <2>4 DEF OutsideInv, ToldInv, FileInv
  <2> QED
    BY <1>3, <2>2, <2>3, <2>4, JobOutcome
<1>4. CASE Crash
  <2>1. /\ told' = None /\ enabled' = file.enabled /\ pinned' = file.pin /\ file' = file
        /\ chain' = IF file.enabled THEN <<Job("bases", TRUE, "none")>> ELSE <<>>
        /\ file \in [enabled : BOOLEAN, pin : Ids \cup {None}]
    BY <1>4 DEF Crash, TypeInv
  <2>2. FileInv'
    BY <2>1 DEF FileInv
  <2>3. ToldInv'
    <3>1. CASE file.enabled
      <4>1. /\ Job("bases", TRUE, "none") \in Jobs
            /\ Job("bases", TRUE, "none").tell = TRUE
        BY JobTypes
      <4>2. Tells(chain')
        BY <2>1, <3>1, <4>1, OneHolds
      <4> QED
        BY <4>2 DEF ToldInv
    <3>2. CASE ~file.enabled
      BY <2>1, <3>2 DEF ToldInv, StatusOf
    <3> QED
      BY <3>1, <3>2
  <2> QED
    BY <2>2, <2>3 DEF OutsideInv
<1>5. ASSUME NEW jobs, Reaction(jobs) PROVE OutsideInv'
  <2>1. jobs \in Seq(Jobs) /\ chain' = chain \o jobs /\ rejects' = rejects
    BY <1>5 DEF Reaction, ApplyReaction, Queue
  <2>2. /\ Tells(chain') <=> Tells(chain) \/ Tells(jobs)
        /\ Saves(chain') <=> Saves(chain) \/ Saves(jobs)
    BY <2>1, QueueHolds DEF TypeInv
  <2>3. ToldInv'
    BY <1>1, <1>5, <2>1, <2>2 DEF Reaction, TellReaction, ToldInv
  <2>4. FileInv'
    BY <1>1, <1>5, <2>1, <2>2 DEF Reaction, SaveReaction, FileInv
  <2> QED
    BY <2>3, <2>4 DEF OutsideInv
<1> QED
  BY <1>2, <1>3, <1>4, <1>5, WatcherReacts, ModeReacts, EditReacts, InputReacts
  DEF Next, Handlers

(***************************************************************************)
(* The effects on the controller.                                          *)
(***************************************************************************)
(* What is queued leaves the controller as it is.                          *)
LEMMA PadReaction ==
    ASSUME TypeInv, PadInv, NEW jobs, ApplyReaction(jobs),
           UNCHANGED <<pad, disturbed>>, suspended => suspended'
    PROVE  PadInv'
<1>1. /\ jobs \in Seq(Jobs) /\ Queue(jobs) /\ UNCHANGED <<run, lastApplied, rejects>>
  BY DEF ApplyReaction
<1>2. Holds(Rest, "reset") => Holds(Rest', "reset")
  BY <1>1, RestTypes, RestQueue, QueueHolds
<1> QED
  BY <1>1, <1>2 DEF PadInv

LEMMA JobPads ==
    ASSUME TypeInv, ApplyInv, PadInv, JobStep
    PROVE  PadInv'
<1>1. CASE BasesJob \/ InputJob
  <2>1. /\ chain # <<>> /\ run = None /\ Head(chain).kind # "reset"
        /\ UNCHANGED <<suspended, lastApplied, pad, disturbed, rejects>>
    BY <1>1 DEF BasesJob, InputJob, Starting, bounds
  <2>2. Begins
    <3>1. ASSUME NEW want \in Wants, WriteDesired(want) PROVE Begins
      BY <2>1, <3>1, WriteBegins
    <3> QED
      BY <1>1, <3>1, BasesTypes DEF BasesJob, InputJob, Begins, TypeInv
  <2>3. Holds(Rest, "reset") => Holds(Rest', "reset")
    BY <2>1, <2>2, BeginsRest
  <2> QED
    BY <2>1, <2>3 DEF PadInv
<1>2. CASE ResetJob
  <2>1. run' # None /\ run'.call = "reset"
    BY <1>2, EffectTypes, CallsTypes DEF ResetJob, Starting
  <2> QED
    BY <2>1 DEF PadInv
<1>3. CASE TriggerWritten
  <2>1. /\ run # None /\ run.call \in Triggers /\ run.want \in Wants /\ chain # <<>>
        /\ "r2" \in Triggers
        /\ lastApplied' = [lastApplied EXCEPT ![run.call] = run.want[run.call]]
        /\ pad' = [pad EXCEPT ![run.call] = run.want[run.call]]
        /\ UNCHANGED <<enabled, suspended, disturbed, rejects>>
    BY <1>3 DEF TriggerWritten, TypeInv, SinkCalls, Triggers, bounds
  <2>2. Rest' = Rest
    <3>1. CASE Ends
      BY <2>1, <3>1, AnsweredRest DEF Ends
    <3>2. CASE Calls("r2", run.want)
      BY <2>1, <3>2, CallsTypes, AnsweredRest
    <3> QED
      BY <1>3, <3>1, <3>2 DEF TriggerWritten
  <2>3. run.call # "reset"
    BY <2>1 DEF Triggers
  <2>4. suspended => Holds(Rest, "reset")
    BY <2>1 DEF ApplyInv, SafeInv, Live
  <2> QED
    BY <2>1, <2>2, <2>3, <2>4 DEF PadInv
<1>4. CASE ResetWritten
  BY <1>4 DEF ResetWritten, PadInv
<1>5. CASE Rejected
  BY <1>5 DEF Rejected, PadInv, TypeInv
<1> QED
  BY <1>1, <1>2, <1>3, <1>4, <1>5 DEF JobStep

LEMMA NextPads ==
    ASSUME TypeInv, PinHolds, ApplyInv, PadInv, [Next]_vars
    PROVE  PadInv'
<1>1. CASE UNCHANGED vars
  BY <1>1 DEF vars, bounds, PadInv, Rest
<1>2. CASE JobStep
  BY <1>2, JobPads
<1>3. CASE Crash
  <2>1. /\ run' = None /\ lastApplied' = NoEffect /\ pad' = pad
        /\ disturbed' = (disturbed \/ pad # NoEffect \/ run # None)
    BY <1>3 DEF Crash
  <2> QED
    BY <2>1 DEF PadInv
<1>4. CASE ResetAdaptiveTriggers
  <2>1. /\ pad' = NoEffect /\ lastApplied' = lastApplied
        /\ disturbed' = (disturbed \/ lastApplied # NoEffect \/ run # None)
    BY <1>4 DEF ResetAdaptiveTriggers
  <2> QED
    BY <2>1 DEF PadInv
<1>5. CASE Tested
  <2>1. /\ pad' = TestEffect /\ disturbed' = (disturbed \/ ~suspended)
        /\ UNCHANGED <<enabled, suspended, lastApplied, chain, run, rejects>>
    BY <1>5 DEF Tested, bounds
  <2>2. ASSUME suspended, rejects = 0
        PROVE  \/ lastApplied = NoEffect
               \/ Holds(Rest, "reset")
               \/ run # None /\ run.call = "reset"
    <3>1. ~Live
      BY <2>2 DEF Live
    <3>2. \/ Holds(Rest, "reset")
          \/ run # None
          \/ lastApplied = NoEffect
      BY <2>2, <3>1 DEF ApplyInv, AppliedInv, Wanted
    <3>3. run # None => run.call \in Triggers \/ run.call = "reset"
      BY DEF TypeInv, SinkCalls
    <3>4. run # None /\ run.call \in Triggers => Holds(Rest, "reset")
      BY <3>1 DEF ApplyInv, SafeInv
    <3> QED
      BY <3>2, <3>3, <3>4
  <2>3. Rest' = Rest
    BY <2>1 DEF Rest
  <2> QED
    BY <2>1, <2>2, <2>3 DEF PadInv
<1>6. ASSUME NEW jobs, Reaction(jobs), UNCHANGED <<pad, disturbed>>, suspended => suspended'
      PROVE  PadInv'
  BY <1>6, PadReaction DEF Reaction
<1>7. CASE Poll \/ Ripen \/ Unpin \/ \E id \in Ids : PinProfile(id)
  <2>1. UNCHANGED <<pad, disturbed, suspended>>
    BY <1>7 DEF Poll, Ripen, Unpin, PinProfile
  <2> QED
    BY <1>6, <1>7, <2>1, WatcherReacts
<1>8. CASE Enable \/ Disable \/ Test
  <2>1. UNCHANGED <<pad, disturbed>> /\ (suspended => suspended')
    BY <1>8 DEF Enable, Disable, Test
  <2> QED
    BY <1>6, <1>8, <2>1, ModeReacts
<1>9. ASSUME \/ \E games \in SUBSET Games : GamesRun(games)
             \/ PreviewDraft \/ ClearDraft \/ SelectState
             \/ \E g \in Games : SaveProfile(g) \/ DeleteProfile(g)
      PROVE  PadInv'
  <2>1. UNCHANGED <<pad, disturbed, suspended>>
    BY <1>9 DEF GamesRun, PreviewDraft, ClearDraft, SelectState, SaveProfile, DeleteProfile
  <2> QED
    BY <1>6, <1>9, <2>1, EditReacts
<1>10. ASSUME NEW switched \in BOOLEAN, NEW held \in BOOLEAN, Input(switched, held)
       PROVE  PadInv'
  <2>1. UNCHANGED <<pad, disturbed, suspended>>
    BY <1>10 DEF Input
  <2> QED
    BY <1>6, <1>10, <2>1, InputReacts
<1> QED
  BY <1>1, <1>2, <1>3, <1>4, <1>5, <1>7, <1>8, <1>9, <1>10 DEF Next, Handlers

(***************************************************************************)
(* The theorems.                                                           *)
(***************************************************************************)
EngineInv ==
    TypeInv /\ PinHolds /\ StoreInv /\ ApplyInv /\ PadInv /\ OutsideInv

LEMMA InitEngineInv == Init => EngineInv
<1> SUFFICES ASSUME Init PROVE EngineInv
  OBVIOUS
<1>1. TypeInv
  BY InitTypes
<1>2. PinHolds /\ StoreInv
  <2>1. /\ pinned = None /\ enabled = FALSE /\ stored = [g \in Games |-> 0]
    BY DEF Init
  <2> QED
    BY <2>1, NullAssumption DEF PinHolds, StoreInv, RemovedInv, EngineFollowsStore
<1>3. /\ chain = <<>> /\ run = None /\ Rest = <<>> /\ ~Live
      /\ lastApplied = NoEffect /\ pad = NoEffect
      /\ told = None /\ enabled = FALSE /\ pinned = None
      /\ file = [enabled |-> FALSE, pin |-> None]
  BY DEF Init, Rest, Live
<1>4. ApplyInv
  BY <1>3 DEF ApplyInv, CallInv, SafeInv, InputInv, ResetInv, AppliedInv, Wanted
<1>5. PadInv /\ OutsideInv
  BY <1>3 DEF PadInv, OutsideInv, ToldInv, FileInv, StatusOf
<1> QED
  BY <1>1, <1>2, <1>4, <1>5 DEF EngineInv

LEMMA NextEngineInv == EngineInv /\ [Next]_vars => EngineInv'
<1> SUFFICES ASSUME EngineInv, [Next]_vars PROVE EngineInv'
  OBVIOUS
<1>1. TypeInv /\ PinHolds /\ StoreInv /\ ApplyInv /\ PadInv /\ OutsideInv
  BY DEF EngineInv
<1>2. TypeInv' /\ PinHolds' /\ StoreInv' /\ ApplyInv' /\ PadInv' /\ OutsideInv'
  BY <1>1, NextTypes, NextPins, NextStores, NextApplies, NextPads, NextOutside
<1> QED
  BY <1>2 DEF EngineInv

(* The inductive invariant holds in every state the engine reaches.         *)
THEOREM InvariantHolds == Spec => []EngineInv
<1> QED
  BY InitEngineInv, NextEngineInv, PTL DEF Spec

(* A pin is never undone by a process, a timer or a switch of the engine,  *)
(* and no debounce that began before it changes the profile after it.      *)
THEOREM PinCorrect == Spec => []PinHolds
<1>1. EngineInv => PinHolds
  BY DEF EngineInv
<1> QED
  BY <1>1, InvariantHolds, PTL

(* A switched on engine holds the contents of the file of the profile the  *)
(* watcher names, whatever is saved, deleted and made again meanwhile.     *)
THEOREM StoreCorrect == Spec => []EngineFollowsStore
<1>1. EngineInv => EngineFollowsStore
  BY DEF EngineInv, StoreInv
<1> QED
  BY <1>1, InvariantHolds, PTL

(* No effect is written once the engine is off or suspended, except by the *)
(* call under way then, and a reset that undoes it is queued.              *)
THEOREM ResetCorrect == Spec => []NoWriteAfterReset
<1>1. ASSUME EngineInv PROVE NoWriteAfterReset
  <2>1. TypeInv /\ ApplyInv
    BY <1>1 DEF EngineInv
  <2>2. TypeOK
    <3>1. /\ {ripe, enabled, suspended, draft, scheduled, testing, disturbed} \subseteq BOOLEAN
      BY <2>1 DEF TypeInv
    <3>2. run # None => AtRest = FALSE /\ run.call \in Triggers \cup {"reset"}
      BY <2>1 DEF TypeInv, SinkCalls, AtRest
    <3>3. active # None => active.id \in Ids
      BY <2>1 DEF TypeInv, Copies
    <3>4. file.enabled \in BOOLEAN /\ file.pin \in Ids \cup {None}
      BY <2>1 DEF TypeInv
    <3> QED
      BY <2>1, <3>1, <3>2, <3>3, <3>4 DEF TypeInv, TypeOK
  <2>3. ASSUME run # None, run.call \in Triggers, ~Live
        PROVE  \E i \in 2..Len(chain) : chain[i].kind = "reset"
    <3>1. chain \in Seq(Jobs) /\ chain # <<>> /\ Rest = Tail(chain)
      BY <2>1, <2>3 DEF TypeInv, Rest
    <3>2. PICK i \in 1..Len(Tail(chain)) : Tail(chain)[i].kind = "reset"
      BY <2>1, <2>3, <3>1 DEF ApplyInv, SafeInv, Holds
    <3>3. i + 1 \in 2..Len(chain) /\ chain[i + 1] = Tail(chain)[i]
      BY <3>1
    <3> QED
      BY <3>2, <3>3
  <2> QED
    BY <2>2, <2>3 DEF NoWriteAfterReset
<1> QED
  BY <1>1, InvariantHolds, PTL

(* When every queued job is done the controller has the effects of the     *)
(* profile, state or draft that is active, and none when the engine is off *)
(* or suspended, unless a call failed or something else disturbed it.      *)
THEOREM PadCorrect == Spec => []PadIsCurrent
<1>1. ASSUME EngineInv PROVE PadIsCurrent
  <2>1. TypeInv /\ ApplyInv /\ PadInv
    BY <1>1 DEF EngineInv
  <2> SUFFICES ASSUME AtRest, ~disturbed, rejects = 0
               PROVE  IF ~Live THEN pad = NoEffect \/ (suspended /\ pad = TestEffect)
                      ELSE pad \in IF draft THEN {DraftEffects}
                                   ELSE {Effects(active, state, held) : held \in BOOLEAN}
    BY DEF PadIsCurrent
  <2>2. run = None /\ Rest = <<>> /\ \A kind : ~Holds(Rest, kind)
    BY <2>1, EmptyHolds DEF AtRest, TypeInv, Rest
  <2>3. Wanted(lastApplied)
    BY <2>1, <2>2 DEF ApplyInv, AppliedInv
  <2>4. pad = lastApplied \/ (suspended /\ pad = TestEffect)
    BY <2>1, <2>2 DEF PadInv
  <2>5. CASE Live
    BY <2>3, <2>4, <2>5 DEF Wanted, Live
  <2>6. CASE ~Live
    BY <2>3, <2>4, <2>6 DEF Wanted
  <2> QED
    BY <2>5, <2>6
<1> QED
  BY <1>1, InvariantHolds, PTL

(* When every queued job is done and none failed, the last status told     *)
(* names the active game and the state file has what a restart needs.      *)
THEOREM OutsideCorrect == Spec => []OutsideAgrees
<1>1. ASSUME EngineInv PROVE OutsideAgrees
  <2>1. OutsideInv
    BY <1>1 DEF EngineInv
  <2> SUFFICES ASSUME AtRest, rejects = 0
               PROVE  /\ told = StatusOf(enabled, watched)
                      /\ file = [enabled |-> enabled, pin |-> pinned]
    BY DEF OutsideAgrees
  <2>2. ~Tells(chain) /\ ~Saves(chain)
    BY DEF AtRest, Tells, Saves
  <2> QED
    BY <2>1, <2>2 DEF OutsideInv, ToldInv, FileInv
<1> QED
  BY <1>1, InvariantHolds, PTL

-----------------------------------------------------------------------------
(***************************************************************************)
(* The profiles in their files and in the renderer's list, whose variables *)
(* are not the engine's: TriggerProfileFiles, as TriggerParts instantiates  *)
(* it.                                                                     *)
(***************************************************************************)
(* A profile is a record whose name is made of the words there are.        *)
IsProfile(p) ==
    /\ p = Profiles!Profile(p.uid, p.id, p.name, p.body, p.game, p.lib)
    /\ p.name \in Seq(Profiles!Words)

(* Finitely many profiles, each under its identifier.                      *)
Catalog(f) ==
    /\ f = [i \in DOMAIN f |-> f[i]] /\ IsFiniteSet(DOMAIN f)
    /\ \A i \in DOMAIN f : IsProfile(f[i]) /\ f[i].id = i

(* An operation under way has a profile and the list it began with; before *)
(* it ends it has the list it read.                                        *)
IsOperation(o) ==
    /\ o = [kind |-> o.kind, pc |-> o.pc, profile |-> o.profile, exclude |-> o.exclude,
            prefer |-> o.prefer, local |-> o.local, selected |-> o.selected, back |-> o.back]
    /\ o.pc # "idle" => IsProfile(o.profile) /\ Catalog(o.local)
    /\ o.pc = "merge" => Catalog(o.back) /\ Profiles!DefaultId \in DOMAIN o.back

ProfilesTyped ==
    /\ Catalog(kept) /\ Catalog(list) /\ IsProfile(selected)
    /\ ops = [c \in Operators |-> ops[c]] /\ \A c \in Operators : IsOperation(ops[c])

(* Operations did not overlap, and no profile was called like the state    *)
(* of the engine.                                                          *)
Apart == excused \cap {"overlap", "reserved"} = {}

(* Every profile in a file is listed by f as it is.                        *)
Shows(f) ==
    \A i \in DOMAIN Profiles!Listed(kept) : i \in DOMAIN f /\ f[i] = Profiles!Listed(kept)[i]

(* The file with the identifier of the profile, if there is one, is its.   *)
Own(o) == o.profile.id \in DOMAIN kept => kept[o.profile.id].uid = o.profile.uid

(* What holds while an operation goes on alone.                            *)
OperationInv(o) ==
    /\ o.local = list
    /\ o.pc = "fetch" \/ (o.kind = "reset" /\ o.pc = "call") => Shows(list)
    /\ o.kind \in {"save", "delete", "game"} /\ o.pc \in {"fetch", "call"} => Own(o)
    /\ o.pc = "merge" => o.back = Profiles!Listed(kept)

(* Only what the renderer chose can be lost.                               *)
KeptInv ==
    "reserved" \notin excused => lost \subseteq {"renderer"} /\ Profiles!Reserved \notin DOMAIN kept

(* Without an overlap nothing is lost, one operation is under way at most, *)
(* the list shows the files when none is, and the selected profile is one  *)
(* of the list.                                                            *)
QuietInv ==
    Apart =>
        /\ lost = {}
        /\ \A c, d \in Operators : ops[c].pc # "idle" /\ ops[d].pc # "idle" => c = d
        /\ ~Profiles!Busy => Shows(list)
        /\ selected.id \in DOMAIN list /\ selected.uid = list[selected.id].uid
        /\ \A c \in Operators : ops[c].pc # "idle" => OperationInv(ops[c])

(* Profile i was removed, which the list does not know yet.                *)
Leaving(i) ==
    \E c \in Operators :
        ops[c].kind = "delete" /\ ops[c].pc \in {"list", "merge"} /\ i \in ops[c].exclude

(* Without an excuse no file has the identifier of a draft, the drafts     *)
(* listed are the unsaved ones, and nothing else is listed but the files.  *)
CalmInv ==
    excused = {} =>
        /\ \A i \in DOMAIN kept : ~Profiles!Provisional(i)
        /\ {i \in DOMAIN list : Profiles!Provisional(i)} = unsaved
        /\ \A i \in DOMAIN list :
              Profiles!Provisional(i) \/ i \in DOMAIN Profiles!Listed(kept) \/ Leaving(i)
        /\ \A c \in Operators :
              ops[c].pc # "idle" /\ ops[c].kind = "delete" => ops[c].exclude = {ops[c].profile.id}

ProfilesInv == ProfilesTyped /\ KeptInv /\ QuietInv /\ CalmInv

LEMMA WordsGiven == {"#", "1", "a", "Copy", "Default", "New"} \subseteq Profiles!Words
BY ProfileNames DEF Profiles!NamesOK

(***************************************************************************)
(* Numbers and names.                                                      *)
(***************************************************************************)
LEMMA LeastFree ==
    ASSUME NEW S, S \subseteq Nat, S # {}
    PROVE  \E n \in S : \A m \in S : n <= m
<1>1. \A m, n \in Nat : m < n => <<m, n>> \in OpToRel(<, Nat)
  BY DEF OpToRel
<1>2. \E n \in S : \A m \in S : ~(<<m, n>> \in OpToRel(<, Nat))
  BY NatLessThanWellFounded, WFMin
<1>3. PICK n \in S : \A m \in S : ~(<<m, n>> \in OpToRel(<, Nat))
  BY <1>2
<1>4. \A m \in S : m \in Nat /\ n \in Nat
  OBVIOUS
<1>5. \A m \in S : ~(m < n)
  BY <1>1, <1>3, <1>4
<1> QED
  BY <1>4, <1>5

LEMMA NumberedLength ==
    ASSUME NEW W, {"#", "1"} \subseteq W, NEW base \in Seq(W), NEW n \in Nat
    PROVE  /\ Profiles!Numbered(base, n) \in Seq(W)
           /\ Len(Profiles!Numbered(base, n)) = Len(base) + 1 + n
           /\ base # <<>> => Profiles!Numbered(base, n)[1] = base[1]
<1> DEFINE s == base \o <<"#">>
           t == [i \in 1..n |-> "1"]
<1>1. t \in Seq(W) /\ Len(t) = n
  <2>1. t \in [1..n -> W]
    OBVIOUS
  <2>2. t \in Seq(W)
    BY <2>1, SeqDef
  <2>3. DOMAIN t = 1..n /\ DOMAIN t = 1..Len(t) /\ Len(t) \in Nat
    BY <2>1, <2>2, LenProperties
  <2> QED
    BY <2>2, <2>3
<1>2. <<"#">> \in Seq(W) /\ Len(<<"#">>) = 1
  OBVIOUS
<1>3. s \in Seq(W) /\ Len(s) = Len(base) + 1
  BY <1>2, ConcatProperties
<1> HIDE DEF s, t
<1>4. s \o t \in Seq(W) /\ Len(s \o t) = Len(base) + 1 + n
  BY <1>1, <1>3, ConcatProperties
<1>5. base # <<>> => (s \o t)[1] = base[1]
  <2>1. base # <<>> => Len(base) \in Nat /\ 1 <= Len(base)
    BY EmptySeq
  <2>2. base # <<>> => s[1] = base[1]
    BY <1>2, <2>1, ConcatProperties DEF s
  <2> QED
    BY <1>1, <1>3, <2>1, <2>2, ConcatProperties
<1> QED
  BY <1>4, <1>5 DEF Profiles!Numbered, s, t

(* Among one number more than there are names one is free.                 *)
LEMMA NumberFree ==
    ASSUME NEW base \in Seq(Profiles!Words), NEW taken, IsFiniteSet(taken)
    PROVE  \E n \in 2..Cardinality(taken) + 2 : Profiles!Numbered(base, n) \notin taken
<1> DEFINE N == 2..Cardinality(taken) + 2
           f == [n \in N |-> Profiles!Numbered(base, n)]
<1>1. Cardinality(taken) \in Nat
  BY FS_CardinalityType
<1>2. IsFiniteSet(N) /\ Cardinality(N) = Cardinality(taken) + 1
  <2> DEFINE b == Cardinality(taken) + 2
  <2>1. b \in Int /\ ~(2 > b) /\ b - 2 + 1 = Cardinality(taken) + 1
    BY <1>1
  <2> HIDE DEF b
  <2>2. IsFiniteSet(2..b) /\ Cardinality(2..b) = IF 2 > b THEN 0 ELSE b - 2 + 1
    BY <2>1, FS_Interval
  <2> QED
    BY <1>1, <2>1, <2>2 DEF b
<1> SUFFICES ASSUME \A n \in N : Profiles!Numbered(base, n) \in taken PROVE FALSE
  OBVIOUS
<1>3. f \in [N -> taken]
  OBVIOUS
<1>4. Cardinality(taken) < Cardinality(N)
  BY <1>1, <1>2
<1> HIDE DEF f
<1>5. PICK m \in N, n \in N : m # n /\ f[m] = f[n]
  BY <1>2, <1>3, <1>4, FS_PigeonHole
<1>6. Profiles!Numbered(base, m) = Profiles!Numbered(base, n)
  BY <1>5 DEF f
<1>7. m \in Nat /\ n \in Nat /\ Len(base) \in Nat
  BY <1>1, <1>5
<1>8. Len(base) + 1 + m = Len(base) + 1 + n
  <2>1. {"#", "1"} \subseteq Profiles!Words
    BY WordsGiven
  <2>2. \A k \in Nat : Len(Profiles!Numbered(base, k)) = Len(base) + 1 + k
    BY <2>1, NumberedLength
  <2> QED
    BY <1>6, <1>7, <2>2
<1> QED
  BY <1>5, <1>7, <1>8

LEMMA CardinalityIs == \A S : Profiles!Cardinality(S) = Cardinality(S)
BY Zenon DEF Profiles!Cardinality, Cardinality

LEMMA FirstFreeIsFree ==
    ASSUME NEW base \in Seq(Profiles!Words), NEW taken, IsFiniteSet(taken)
    PROVE  /\ Profiles!FirstFree(base, taken) \notin taken
           /\ Profiles!FirstFree(base, taken) \in Seq(Profiles!Words)
<1> DEFINE N == 2..Cardinality(taken) + 2
           S == {n \in N : Profiles!Numbered(base, n) \notin taken}
           First(n) == /\ Profiles!Numbered(base, n) \notin taken
                       /\ \A k \in 2..n - 1 : Profiles!Numbered(base, k) \in taken
<1>1. Cardinality(taken) \in Nat
  BY FS_CardinalityType
<1>2. S \subseteq Nat /\ S # {}
  BY <1>1, NumberFree
<1>3. PICK n \in S : \A m \in S : n <= m
  BY <1>2, LeastFree
<1>4. \A k \in 2..n - 1 : k \in N /\ k \notin S
  BY <1>1, <1>3
<1>5. \E m \in N : First(m)
  BY <1>3, <1>4
<1> DEFINE choice == CHOOSE m \in N : First(m)
<1>6. choice \in N /\ First(choice)
  BY <1>5
<1>7. Profiles!FirstFree(base, taken) = Profiles!Numbered(base, choice)
  BY Zenon, CardinalityIs DEF Profiles!FirstFree
<1>8. choice \in Nat
  BY <1>1, <1>6
<1> HIDE DEF choice
<1> QED
  BY <1>6, <1>7, <1>8, NumberedLength, WordsGiven

LEMMA SlugType ==
    ASSUME NEW name \in Seq(Profiles!Words)
    PROVE  Profiles!Slug(name) \in Seq(Profiles!Words)
<1>1. PlainWords \in [Profiles!Words -> Profiles!Words]
  BY ProfileNames DEF Profiles!NamesOK
<1>2. DOMAIN name = 1..Len(name) /\ Len(name) \in Nat /\ \A i \in DOMAIN name : name[i] \in Profiles!Words
  OBVIOUS
<1>3. \A i \in DOMAIN name : PlainWords[name[i]] \in Profiles!Words
  BY <1>1, <1>2
<1>4. [i \in 1..Len(name) |-> PlainWords[name[i]]] \in [1..Len(name) -> Profiles!Words]
  BY <1>2, <1>3
<1> QED
  BY <1>2, <1>4, SeqDef DEF Profiles!Slug

(* The identifier of a new profile is nobody's.                            *)
LEMMA NewIdentifier ==
    ASSUME NEW name \in Seq(Profiles!Words), NEW ids, IsFiniteSet(ids)
    PROVE  Profiles!UniqueTriggerProfileId(name, ids) \notin ids
<1> DEFINE taken == ids \cup {Profiles!DefaultId, <<>>}
<1>1. IsFiniteSet({Profiles!DefaultId, <<>>})
  <2>1. IsFiniteSet({Profiles!DefaultId}) /\ IsFiniteSet({<<>>})
    BY FS_Singleton
  <2>2. {Profiles!DefaultId, <<>>} = {Profiles!DefaultId} \cup {<<>>}
    OBVIOUS
  <2> QED
    BY <2>1, <2>2, FS_Union
<1>2. IsFiniteSet(taken)
  BY <1>1, FS_Union
<1>3. Profiles!FirstFree(Profiles!Slug(name), taken) \notin taken
  BY <1>2, SlugType, FirstFreeIsFree
<1> QED
  BY <1>3 DEF Profiles!UniqueTriggerProfileId

LEMMA UniqueNameType ==
    ASSUME NEW name \in Seq(Profiles!Words), NEW taken, IsFiniteSet(taken)
    PROVE  Profiles!UniqueName(name, taken) \in Seq(Profiles!Words)
BY FirstFreeIsFree DEF Profiles!UniqueName

(***************************************************************************)
(* Profiles, and the functions that hold them by identifier.               *)
(***************************************************************************)
LEMMA IdChanged ==
    ASSUME NEW p, IsProfile(p), NEW id
    PROVE  /\ IsProfile([p EXCEPT !.id = id])
           /\ [p EXCEPT !.id = id].id = id
           /\ [p EXCEPT !.id = id].uid = p.uid
<1> DEFINE q == [p EXCEPT !.id = id]
<1>1. /\ p = [uid |-> p.uid, id |-> p.id, name |-> p.name, body |-> p.body, game |-> p.game, lib |-> p.lib]
      /\ p.name \in Seq(Profiles!Words)
  BY DEF IsProfile, Profiles!Profile
<1>2. q = [uid |-> p.uid, id |-> id, name |-> p.name, body |-> p.body, game |-> p.game, lib |-> p.lib]
  BY <1>1
<1> HIDE DEF q
<1>3. IsProfile(q) /\ q.id = id /\ q.uid = p.uid
  BY <1>1, <1>2 DEF IsProfile, Profiles!Profile
<1> QED
  BY <1>3 DEF q

LEMMA NameChanged ==
    ASSUME NEW p, IsProfile(p), NEW name \in Seq(Profiles!Words)
    PROVE  /\ IsProfile([p EXCEPT !.name = name])
           /\ [p EXCEPT !.name = name].id = p.id
           /\ [p EXCEPT !.name = name].uid = p.uid
<1> DEFINE q == [p EXCEPT !.name = name]
<1>1. /\ p = [uid |-> p.uid, id |-> p.id, name |-> p.name, body |-> p.body, game |-> p.game, lib |-> p.lib]
      /\ p.name \in Seq(Profiles!Words)
  BY DEF IsProfile, Profiles!Profile
<1>2. q = [uid |-> p.uid, id |-> p.id, name |-> name, body |-> p.body, game |-> p.game, lib |-> p.lib]
  BY <1>1
<1> HIDE DEF q
<1>3. IsProfile(q) /\ q.id = p.id /\ q.uid = p.uid
  BY <1>1, <1>2 DEF IsProfile, Profiles!Profile
<1> QED
  BY <1>3 DEF q

LEMMA BodyChanged ==
    ASSUME NEW p, IsProfile(p), NEW body
    PROVE  /\ IsProfile([p EXCEPT !.body = body])
           /\ [p EXCEPT !.body = body].id = p.id
           /\ [p EXCEPT !.body = body].uid = p.uid
<1> DEFINE q == [p EXCEPT !.body = body]
<1>1. /\ p = [uid |-> p.uid, id |-> p.id, name |-> p.name, body |-> p.body, game |-> p.game, lib |-> p.lib]
      /\ p.name \in Seq(Profiles!Words)
  BY DEF IsProfile, Profiles!Profile
<1>2. q = [uid |-> p.uid, id |-> p.id, name |-> p.name, body |-> body, game |-> p.game, lib |-> p.lib]
  BY <1>1
<1> HIDE DEF q
<1>3. IsProfile(q) /\ q.id = p.id /\ q.uid = p.uid
  BY <1>1, <1>2 DEF IsProfile, Profiles!Profile
<1> QED
  BY <1>3 DEF q

LEMMA LibraryChanged ==
    ASSUME NEW p, IsProfile(p), NEW lib
    PROVE  /\ IsProfile([p EXCEPT !.lib = lib])
           /\ [p EXCEPT !.lib = lib].id = p.id
           /\ [p EXCEPT !.lib = lib].uid = p.uid
<1> DEFINE q == [p EXCEPT !.lib = lib]
<1>1. /\ p = [uid |-> p.uid, id |-> p.id, name |-> p.name, body |-> p.body, game |-> p.game, lib |-> p.lib]
      /\ p.name \in Seq(Profiles!Words)
  BY DEF IsProfile, Profiles!Profile
<1>2. q = [uid |-> p.uid, id |-> p.id, name |-> p.name, body |-> p.body, game |-> p.game, lib |-> lib]
  BY <1>1
<1> HIDE DEF q
<1>3. IsProfile(q) /\ q.id = p.id /\ q.uid = p.uid
  BY <1>1, <1>2 DEF IsProfile, Profiles!Profile
<1> QED
  BY <1>3 DEF q

LEMMA GameChanged ==
    ASSUME NEW p, IsProfile(p), NEW game
    PROVE  /\ IsProfile([p EXCEPT !.game = game])
           /\ [p EXCEPT !.game = game].id = p.id
           /\ [p EXCEPT !.game = game].uid = p.uid
<1> DEFINE q == [p EXCEPT !.game = game]
<1>1. /\ p = [uid |-> p.uid, id |-> p.id, name |-> p.name, body |-> p.body, game |-> p.game, lib |-> p.lib]
      /\ p.name \in Seq(Profiles!Words)
  BY DEF IsProfile, Profiles!Profile
<1>2. q = [uid |-> p.uid, id |-> p.id, name |-> p.name, body |-> p.body, game |-> game, lib |-> p.lib]
  BY <1>1
<1> HIDE DEF q
<1>3. IsProfile(q) /\ q.id = p.id /\ q.uid = p.uid
  BY <1>1, <1>2 DEF IsProfile, Profiles!Profile
<1> QED
  BY <1>3 DEF q

LEMMA ListedIs ==
    ASSUME NEW f, Catalog(f)
    PROVE  /\ Catalog(Profiles!Listed(f))
           /\ DOMAIN Profiles!Listed(f) = (DOMAIN f \ {Profiles!Reserved}) \cup {Profiles!DefaultId}
           /\ \A i \in DOMAIN f \ {Profiles!Reserved} : Profiles!Listed(f)[i] = f[i]
<1>3. Profiles!Listed(f) = [i \in (DOMAIN f \ {Profiles!Reserved}) \cup {Profiles!DefaultId} |->
                              IF i \in DOMAIN f \ {Profiles!Reserved} THEN f[i]
                              ELSE Profiles!DefaultProfile]
  BY DEF Profiles!Listed
<1>4. IsProfile(Profiles!DefaultProfile) /\ Profiles!DefaultProfile.id = Profiles!DefaultId
  <2>1. <<"Default">> \in Seq(Profiles!Words)
    BY WordsGiven
  <2> QED
    BY <2>1 DEF IsProfile, Profiles!Profile, Profiles!DefaultProfile
<1>5. IsFiniteSet((DOMAIN f \ {Profiles!Reserved}) \cup {Profiles!DefaultId})
  <2>1. IsFiniteSet(DOMAIN f \ {Profiles!Reserved})
    BY FS_Difference DEF Catalog
  <2> QED
    BY <2>1, FS_Singleton, FS_Union
<1>6. \A i \in DOMAIN f : IsProfile(f[i]) /\ f[i].id = i
  BY DEF Catalog
<1>7. \A g, S : g = [i \in S |-> g[i]] => DOMAIN g = S
  OBVIOUS
<1> DEFINE d == Profiles!DefaultProfile  D == Profiles!DefaultId  R == Profiles!Reserved
           g == Profiles!Listed(f)
<1>8. g = [i \in (DOMAIN f \ {R}) \cup {D} |-> IF i \in DOMAIN f \ {R} THEN f[i] ELSE d]
  BY <1>3
<1> HIDE DEF d, D, R, g
<1>9. /\ DOMAIN g = (DOMAIN f \ {R}) \cup {D}
      /\ \A i \in DOMAIN f \ {R} : g[i] = f[i]
      /\ \A i \in DOMAIN g : i \notin DOMAIN f \ {R} => g[i] = d /\ i = D
      /\ g = [i \in DOMAIN g |-> g[i]]
  BY <1>8
<1>10. \A i \in DOMAIN g : IsProfile(g[i]) /\ g[i].id = i
  <2> SUFFICES ASSUME NEW i \in DOMAIN g PROVE IsProfile(g[i]) /\ g[i].id = i
    OBVIOUS
  <2>1. CASE i \in DOMAIN f \ {R}
    BY <1>6, <1>9, <2>1
  <2>2. CASE i \notin DOMAIN f \ {R}
    BY <1>4, <1>9, <2>2 DEF d, D
  <2> QED
    BY <2>1, <2>2
<1>11. IsFiniteSet(DOMAIN g)
  BY <1>5, <1>9 DEF D, R
<1>12. Catalog(g)
  BY <1>9, <1>10, <1>11 DEF Catalog
<1> QED
  BY <1>9, <1>12 DEF g, D, R

LEMMA WithIs ==
    ASSUME NEW f, Catalog(f), NEW p, IsProfile(p), NEW g, g = Profiles!With(f, p)
    PROVE  Catalog(g) /\ DOMAIN g = DOMAIN f \cup {p.id} /\ g[p.id] = p
<1>1. g = [i \in DOMAIN f \cup {p.id} |-> IF i = p.id THEN p ELSE f[i]]
  BY DEF Profiles!With
<1>2. IsFiniteSet(DOMAIN f \cup {p.id})
  BY FS_Singleton, FS_Union DEF Catalog
<1>3. \A i \in DOMAIN f : IsProfile(f[i]) /\ f[i].id = i
  BY DEF Catalog
<1>4. /\ DOMAIN g = DOMAIN f \cup {p.id} /\ g[p.id] = p
      /\ \A i \in DOMAIN f : i # p.id => g[i] = f[i]
      /\ g = [i \in DOMAIN g |-> g[i]]
  BY <1>1
<1>5. \A i \in DOMAIN g : IsProfile(g[i]) /\ g[i].id = i
  BY <1>3, <1>4
<1>6. Catalog(g)
  BY <1>2, <1>4, <1>5 DEF Catalog
<1> QED
  BY <1>4, <1>6

LEMMA WithoutIs ==
    ASSUME NEW f, Catalog(f), NEW id
    PROVE  /\ Catalog(Profiles!Without(f, id))
           /\ DOMAIN Profiles!Without(f, id) = DOMAIN f \ {id}
           /\ \A i \in DOMAIN f \ {id} : Profiles!Without(f, id)[i] = f[i]
<1> DEFINE g == Profiles!Without(f, id)
<1>1. g = [i \in DOMAIN f \ {id} |-> f[i]]
  BY DEF Profiles!Without
<1>2. IsFiniteSet(DOMAIN f \ {id})
  BY FS_Difference DEF Catalog
<1>3. \A i \in DOMAIN f : IsProfile(f[i]) /\ f[i].id = i
  BY DEF Catalog
<1> HIDE DEF g
<1>4. /\ DOMAIN g = DOMAIN f \ {id} /\ \A i \in DOMAIN f \ {id} : g[i] = f[i]
      /\ g = [i \in DOMAIN g |-> g[i]]
  BY <1>1
<1>5. \A i \in DOMAIN g : IsProfile(g[i]) /\ g[i].id = i
  BY <1>3, <1>4
<1>6. Catalog(g)
  BY <1>2, <1>4, <1>5 DEF Catalog
<1> QED
  BY <1>4, <1>6 DEF g

LEMMA MergeIs ==
    ASSUME NEW local, Catalog(local), NEW back, Catalog(back), NEW exclude
    PROVE  /\ Catalog(Profiles!MergeTriggerProfiles(local, back, exclude))
           /\ DOMAIN Profiles!MergeTriggerProfiles(local, back, exclude)
              = DOMAIN back \cup (DOMAIN local \ exclude)
           /\ \A i \in DOMAIN back : Profiles!MergeTriggerProfiles(local, back, exclude)[i] = back[i]
<1> DEFINE g == Profiles!MergeTriggerProfiles(local, back, exclude)
           S == DOMAIN back \cup (DOMAIN local \ exclude)
<1>1. g = [i \in S |-> IF i \in DOMAIN back THEN back[i] ELSE local[i]]
  BY DEF Profiles!MergeTriggerProfiles
<1>2. IsFiniteSet(S)
  <2>1. IsFiniteSet(DOMAIN local \ exclude)
    BY FS_Difference DEF Catalog
  <2> QED
    BY <2>1, FS_Union DEF Catalog
<1>3. /\ \A i \in DOMAIN back : IsProfile(back[i]) /\ back[i].id = i
      /\ \A i \in DOMAIN local : IsProfile(local[i]) /\ local[i].id = i
  BY DEF Catalog
<1>4. \A i \in S : i \in DOMAIN back \/ i \in DOMAIN local
  OBVIOUS
<1> HIDE DEF g, S
<1>5. /\ DOMAIN g = S /\ \A i \in S : g[i] = IF i \in DOMAIN back THEN back[i] ELSE local[i]
      /\ g = [i \in DOMAIN g |-> g[i]]
  BY <1>1
<1>6. \A i \in DOMAIN g : IsProfile(g[i]) /\ g[i].id = i
  BY <1>3, <1>4, <1>5
<1>7. Catalog(g)
  BY <1>2, <1>5, <1>6 DEF Catalog
<1> QED
  BY <1>5, <1>7 DEF g, S

(***************************************************************************)
(* The operations.                                                         *)
(***************************************************************************)
LEMMA OperationChanged ==
    ASSUME ProfilesTyped, NEW c \in Operators, NEW o, ops' = [ops EXCEPT ![c] = o]
    PROVE  /\ ops' = [d \in Operators |-> ops'[d]] /\ ops'[c] = o
           /\ \A d \in Operators : d # c => ops'[d] = ops[d]
<1>1. ops = [d \in Operators |-> ops[d]]
  BY DEF ProfilesTyped
<1>2. ops' = [d \in Operators |-> IF d = c THEN o ELSE ops[d]]
  BY <1>1
<1> QED
  BY <1>2

LEMMA GoIs ==
    ASSUME ProfilesTyped, NEW c \in Operators, NEW pc, NEW p, NEW prefer,
           Profiles!Go(c, pc, p, prefer)
    PROVE  /\ ops' = [d \in Operators |-> ops'[d]]
           /\ \A d \in Operators : d # c => ops'[d] = ops[d]
           /\ ops'[c] = [kind |-> ops[c].kind, pc |-> pc, profile |-> p,
                         exclude |-> ops[c].exclude, prefer |-> prefer, local |-> ops[c].local,
                         selected |-> ops[c].selected, back |-> ops[c].back]
<1> DEFINE o == ops[c]
<1>1. o = [kind |-> o.kind, pc |-> o.pc, profile |-> o.profile, exclude |-> o.exclude,
           prefer |-> o.prefer, local |-> o.local, selected |-> o.selected, back |-> o.back]
  BY DEF ProfilesTyped, IsOperation
<1>2. PICK a : a = [o EXCEPT !.pc = pc]
  OBVIOUS
<1>3. PICK b : b = [a EXCEPT !.profile = p]
  OBVIOUS
<1>4. PICK e : e = [b EXCEPT !.prefer = prefer]
  OBVIOUS
<1>5. a = [kind |-> o.kind, pc |-> pc, profile |-> o.profile, exclude |-> o.exclude,
           prefer |-> o.prefer, local |-> o.local, selected |-> o.selected, back |-> o.back]
  BY <1>1, <1>2
<1>6. b = [kind |-> o.kind, pc |-> pc, profile |-> p, exclude |-> o.exclude,
           prefer |-> o.prefer, local |-> o.local, selected |-> o.selected, back |-> o.back]
  BY <1>3, <1>5
<1>7. e = [kind |-> o.kind, pc |-> pc, profile |-> p, exclude |-> o.exclude,
           prefer |-> prefer, local |-> o.local, selected |-> o.selected, back |-> o.back]
  BY <1>4, <1>6
<1>8. ops = [d \in Operators |-> ops[d]]
  BY DEF ProfilesTyped
<1>9. ops' = [ops EXCEPT ![c] = e]
  <2>1. ops' = [ops EXCEPT ![c].pc = pc, ![c].profile = p, ![c].prefer = prefer]
    BY DEF Profiles!Go
  <2>2. PICK x : x = [ops EXCEPT ![c].pc = pc]
    OBVIOUS
  <2>3. PICK y : y = [x EXCEPT ![c].profile = p]
    OBVIOUS
  <2>4. PICK z : z = [y EXCEPT ![c].prefer = prefer]
    OBVIOUS
  <2>5. ops' = z
    BY <2>1, <2>2, <2>3, <2>4
  <2>6. x = [d \in Operators |-> IF d = c THEN a ELSE ops[d]]
    BY <1>2, <1>8, <2>2
  <2>7. y = [d \in Operators |-> IF d = c THEN b ELSE ops[d]]
    BY <1>3, <2>3, <2>6
  <2>8. z = [d \in Operators |-> IF d = c THEN e ELSE ops[d]]
    BY <1>4, <2>4, <2>7
  <2> QED
    BY <1>8, <2>5, <2>8
<1> QED
  BY <1>7, <1>9, OperationChanged

LEMMA OperationTyped ==
    ASSUME ProfilesTyped, NEW c \in Operators, ops' = [d \in Operators |-> ops'[d]],
           \A d \in Operators : d # c => ops'[d] = ops[d], IsOperation(ops'[c])
    PROVE  ops' = [d \in Operators |-> ops'[d]] /\ \A d \in Operators : IsOperation(ops'[d])
BY DEF ProfilesTyped

(* A step between two calls, which stores or removes a file.               *)
LEMMA FilesStep ==
    ASSUME ProfilesInv, NEW c \in Operators, ops[c].pc = "call",
           \A d \in Operators : d # c => ops'[d] = ops[d],
           ops'[c].pc \in {"list", "call"}, ops'[c].local = ops[c].local,
           ops'[c].exclude = ops[c].exclude,
           ops'[c].kind = "reset" => ops'[c].pc = "list",
           ops'[c].pc = "call" => Own(ops[c])',
           ops'[c].kind = "delete" => ops[c].kind = "delete" /\ ops'[c].profile = ops[c].profile,
           UNCHANGED <<list, selected, unsaved>>, excused \subseteq excused',
           Apart' => lost' = {},
           \A i \in DOMAIN kept' : excused' = {} => i \in DOMAIN kept \/ ~Profiles!Provisional(i),
           \A i \in DOMAIN kept : excused' = {} =>
               \/ i \in DOMAIN kept'
               \/ ops'[c].kind = "delete" /\ ops'[c].pc = "list" /\ i = ops[c].profile.id
    PROVE  QuietInv' /\ CalmInv'
<1>1. QuietInv'
  <2> SUFFICES ASSUME Apart'
               PROVE  /\ lost' = {}
                      /\ \A a, b \in Operators : ops'[a].pc # "idle" /\ ops'[b].pc # "idle" => a = b
                      /\ Profiles!Busy'
                      /\ selected'.id \in DOMAIN list' /\ selected'.uid = list'[selected'.id].uid
                      /\ \A d \in Operators : ops'[d].pc # "idle" => OperationInv(ops[d])'
    BY DEF QuietInv
  <2>1. Apart
    BY DEF Apart
  <2>2. \A a, b \in Operators : ops[a].pc # "idle" /\ ops[b].pc # "idle" => a = b
    BY <2>1 DEF ProfilesInv, QuietInv
  <2>3. \A a \in Operators : ops'[a].pc # "idle" => a = c
    BY <2>2
  <2>4. Profiles!Busy'
    BY DEF Profiles!Busy
  <2>5. selected'.id \in DOMAIN list' /\ selected'.uid = list'[selected'.id].uid
    BY <2>1 DEF ProfilesInv, QuietInv
  <2>6. OperationInv(ops[c])
    BY <2>1 DEF ProfilesInv, QuietInv
  <2>7. OperationInv(ops[c])'
    BY <2>6 DEF OperationInv
  <2> QED
    BY <2>3, <2>4, <2>5, <2>7
<1>2. CalmInv'
  <2> SUFFICES ASSUME excused' = {} PROVE
        /\ \A i \in DOMAIN kept' : ~Profiles!Provisional(i)
        /\ {i \in DOMAIN list' : Profiles!Provisional(i)} = unsaved'
        /\ \A i \in DOMAIN list' :
              Profiles!Provisional(i) \/ i \in DOMAIN Profiles!Listed(kept') \/ Leaving(i)'
        /\ \A d \in Operators :
              ops'[d].pc # "idle" /\ ops'[d].kind = "delete"
                  => ops'[d].exclude = {ops'[d].profile.id}
    BY DEF CalmInv
  <2>1. /\ \A i \in DOMAIN kept : ~Profiles!Provisional(i)
        /\ {i \in DOMAIN list : Profiles!Provisional(i)} = unsaved
        /\ \A i \in DOMAIN list :
              Profiles!Provisional(i) \/ i \in DOMAIN Profiles!Listed(kept) \/ Leaving(i)
        /\ \A d \in Operators :
              ops[d].pc # "idle" /\ ops[d].kind = "delete" => ops[d].exclude = {ops[d].profile.id}
    BY DEF ProfilesInv, CalmInv
  <2>2. ASSUME NEW i \in DOMAIN list, i \in DOMAIN Profiles!Listed(kept)
        PROVE  i \in DOMAIN Profiles!Listed(kept') \/ Leaving(i)'
    <3>1. DOMAIN Profiles!Listed(kept) = (DOMAIN kept \ {Profiles!Reserved}) \cup {Profiles!DefaultId}
      BY DEF Profiles!Listed
    <3>2. DOMAIN Profiles!Listed(kept') = (DOMAIN kept' \ {Profiles!Reserved}) \cup {Profiles!DefaultId}
      BY DEF Profiles!Listed
    <3>3. CASE i \in DOMAIN kept' \/ i = Profiles!DefaultId
      BY <2>2, <3>1, <3>2, <3>3
    <3>4. CASE i \notin DOMAIN kept' /\ i # Profiles!DefaultId
      <4>1. ops'[c].kind = "delete" /\ ops'[c].pc = "list" /\ i = ops[c].profile.id
        BY <2>2, <3>1, <3>4
      <4>2. i \in ops'[c].exclude
        BY <2>1, <4>1
      <4> QED
        BY <4>1, <4>2 DEF Leaving
    <3> QED
      BY <3>3, <3>4
  <2>3. ASSUME NEW i \in DOMAIN list, Leaving(i) PROVE Leaving(i)'
    <3>1. PICK d \in Operators :
             ops[d].kind = "delete" /\ ops[d].pc \in {"list", "merge"} /\ i \in ops[d].exclude
      BY <2>3 DEF Leaving
    <3>2. d # c
      BY <3>1
    <3> QED
      BY <3>1, <3>2 DEF Leaving
  <2>4. ASSUME NEW d \in Operators, ops'[d].pc # "idle", ops'[d].kind = "delete"
        PROVE  ops'[d].exclude = {ops'[d].profile.id}
    BY <2>1, <2>4
  <2> QED
    BY <2>1, <2>2, <2>3, <2>4
<1> QED
  BY <1>1, <1>2

LEMMA StoresIs ==
    ASSUME ProfilesTyped, KeptInv, NEW p, IsProfile(p), NEW by, Profiles!Stores(p, by)
    PROVE  /\ Catalog(kept') /\ DOMAIN kept' = DOMAIN kept \cup {p.id} /\ kept'[p.id] = p
           /\ excused \subseteq excused'
           /\ excused' = {} => ~Profiles!Provisional(p.id)
           /\ "reserved" \notin excused' => "reserved" \notin excused /\ p.id # Profiles!Reserved
           /\ Apart' => Apart
           /\ lost' = lost \/ lost' = lost \cup {by}
           /\ (p.id \in DOMAIN kept => kept[p.id].uid = p.uid) => lost' = lost
<1>1. kept' = Profiles!With(kept, p)
  BY DEF Profiles!Stores
<1>2. Catalog(kept)
  BY DEF ProfilesTyped
<1>3. Catalog(kept') /\ DOMAIN kept' = DOMAIN kept \cup {p.id} /\ kept'[p.id] = p
  <2>1. PICK f, g : f = kept /\ g = kept'
    OBVIOUS
  <2>2. Catalog(f) /\ IsProfile(p) /\ g = Profiles!With(f, p)
    BY <1>1, <1>2, <2>1
  <2>3. Catalog(g) /\ DOMAIN g = DOMAIN f \cup {p.id} /\ g[p.id] = p
    BY ONLY <2>2, WithIs
  <2> QED
    BY <2>1, <2>3
<1>4. excused' = excused \cup (IF p.id = Profiles!Reserved THEN {"reserved"} ELSE {})
                         \cup (IF Profiles!Provisional(p.id) THEN {"stray"} ELSE {})
  BY DEF Profiles!Stores
<1>5. lost' = IF p.id \in DOMAIN kept /\ kept[p.id].uid # p.uid THEN lost \cup {by} ELSE lost
  BY DEF Profiles!Stores
<1> QED
  BY <1>3, <1>4, <1>5 DEF Apart

LEMMA BusyTyped ==
    ASSUME ProfilesTyped, NEW c \in Operators, ops[c].pc # "idle"
    PROVE  IsProfile(ops[c].profile) /\ Catalog(ops[c].local) /\ Catalog(kept) /\ Catalog(list)
BY DEF ProfilesTyped, IsOperation

LEMMA GoesOn ==
    ASSUME ProfilesTyped, NEW c \in Operators, ops[c].pc # "idle", NEW p, IsProfile(p), NEW prefer,
           NEW pc \in {"list", "call", "fetch"}, Profiles!Go(c, pc, p, prefer)
    PROVE  /\ ops' = [d \in Operators |-> ops'[d]]
           /\ \A d \in Operators : d # c => ops'[d] = ops[d]
           /\ IsOperation(ops'[c])
           /\ ops'[c].kind = ops[c].kind /\ ops'[c].pc = pc /\ ops'[c].profile = p
           /\ ops'[c].exclude = ops[c].exclude /\ ops'[c].local = ops[c].local
           /\ ops'[c].back = ops[c].back
<1>1. /\ ops' = [d \in Operators |-> ops'[d]]
      /\ \A d \in Operators : d # c => ops'[d] = ops[d]
      /\ ops'[c] = [kind |-> ops[c].kind, pc |-> pc, profile |-> p,
                    exclude |-> ops[c].exclude, prefer |-> prefer, local |-> ops[c].local,
                    selected |-> ops[c].selected, back |-> ops[c].back]
  BY GoIs
<1> DEFINE o == ops'[c]
<1>2. /\ o.kind = ops[c].kind /\ o.pc = pc /\ o.profile = p /\ o.exclude = ops[c].exclude
      /\ o.prefer = prefer /\ o.local = ops[c].local /\ o.selected = ops[c].selected
      /\ o.back = ops[c].back
  BY <1>1
<1>3. o = [kind |-> o.kind, pc |-> o.pc, profile |-> o.profile, exclude |-> o.exclude,
           prefer |-> o.prefer, local |-> o.local, selected |-> o.selected, back |-> o.back]
  BY <1>1, <1>2
<1> HIDE DEF o
<1>4. IsOperation(o)
  BY <1>2, <1>3, BusyTyped DEF IsOperation
<1> QED
  BY <1>1, <1>2, <1>4 DEF o

LEMMA SaveKeeps ==
    ASSUME ProfilesInv, NEW c \in Operators, Profiles!Save(c)
    PROVE  ProfilesInv'
<1> DEFINE o == ops[c]
<1>1. /\ ops[c].kind = "save" /\ ops[c].pc = "call"
      /\ Profiles!Stores(ops[c].profile, "renderer")
      /\ Profiles!Go(c, "list", ops[c].profile, ops[c].prefer)
      /\ UNCHANGED <<list, selected, made, unsaved>>
  BY DEF Profiles!Save
<1>2. ProfilesTyped /\ KeptInv /\ QuietInv
  BY DEF ProfilesInv
<1>3. IsProfile(ops[c].profile)
  BY <1>1, <1>2, BusyTyped
<1>4. /\ ops' = [d \in Operators |-> ops'[d]]
      /\ \A d \in Operators : d # c => ops'[d] = ops[d]
      /\ IsOperation(ops'[c]) /\ ops'[c].kind = "save" /\ ops'[c].pc = "list"
      /\ ops'[c].exclude = ops[c].exclude /\ ops'[c].local = ops[c].local
  BY <1>1, <1>2, <1>3, GoesOn
<1>5. /\ Catalog(kept') /\ DOMAIN kept' = DOMAIN kept \cup {ops[c].profile.id}
      /\ excused \subseteq excused' /\ (Apart' => Apart)
      /\ (excused' = {} => ~Profiles!Provisional(ops[c].profile.id))
      /\ ("reserved" \notin excused' =>
             "reserved" \notin excused /\ ops[c].profile.id # Profiles!Reserved)
      /\ (lost' = lost \/ lost' = lost \cup {"renderer"})
      /\ ((ops[c].profile.id \in DOMAIN kept => kept[ops[c].profile.id].uid = ops[c].profile.uid)
             => lost' = lost)
  BY <1>1, <1>2, <1>3, StoresIs
<1>6. ProfilesTyped'
  BY <1>1, <1>2, <1>4, <1>5, OperationTyped DEF ProfilesTyped
<1>7. KeptInv'
  BY <1>2, <1>5 DEF KeptInv
<1>8. Apart' => lost' = {}
  <2> SUFFICES ASSUME Apart' PROVE lost' = {}
    OBVIOUS
  <2>1. lost = {} /\ OperationInv(ops[c])
    BY <1>1, <1>2, <1>5 DEF QuietInv
  <2> QED
    BY <1>1, <1>5, <2>1 DEF OperationInv, Own
<1>9. QuietInv' /\ CalmInv'
  BY <1>1, <1>4, <1>5, <1>8, FilesStep
<1> QED
  BY <1>6, <1>7, <1>9 DEF ProfilesInv

LEMMA DeleteKeeps ==
    ASSUME ProfilesInv, NEW c \in Operators, Profiles!Delete(c)
    PROVE  ProfilesInv'
<1> DEFINE id == ops[c].profile.id
<1>1. /\ ops[c].kind = "delete" /\ ops[c].pc = "call"
      /\ kept' = Profiles!Without(kept, id)
      /\ lost' = IF id \in DOMAIN kept /\ kept[id].uid # ops[c].profile.uid
                 THEN lost \cup {"renderer"} ELSE lost
      /\ Profiles!Go(c, "list", ops[c].profile, ops[c].prefer)
      /\ UNCHANGED <<list, selected, made, unsaved, excused>>
  BY DEF Profiles!Delete
<1>2. ProfilesTyped /\ KeptInv /\ QuietInv
  BY DEF ProfilesInv
<1>3. IsProfile(ops[c].profile) /\ Catalog(kept)
  BY <1>1, <1>2, BusyTyped
<1>4. /\ ops' = [d \in Operators |-> ops'[d]]
      /\ \A d \in Operators : d # c => ops'[d] = ops[d]
      /\ IsOperation(ops'[c]) /\ ops'[c].kind = "delete" /\ ops'[c].pc = "list"
      /\ ops'[c].profile = ops[c].profile
      /\ ops'[c].exclude = ops[c].exclude /\ ops'[c].local = ops[c].local
  BY <1>1, <1>2, <1>3, GoesOn
<1>5. Catalog(kept') /\ DOMAIN kept' = DOMAIN kept \ {id}
  BY <1>1, <1>3, WithoutIs
<1>6. ProfilesTyped'
  BY <1>1, <1>2, <1>4, <1>5, OperationTyped DEF ProfilesTyped
<1>7. KeptInv'
  BY <1>1, <1>2, <1>5 DEF KeptInv
<1>8. Apart' => lost' = {}
  <2> SUFFICES ASSUME Apart' PROVE lost' = {}
    OBVIOUS
  <2>1. Apart
    BY <1>1 DEF Apart
  <2>2. lost = {} /\ OperationInv(ops[c])
    BY <1>1, <1>2, <2>1 DEF QuietInv
  <2> QED
    BY <1>1, <2>2 DEF OperationInv, Own
<1>9. QuietInv' /\ CalmInv'
  BY <1>1, <1>4, <1>5, <1>8, FilesStep
<1> QED
  BY <1>6, <1>7, <1>9 DEF ProfilesInv

LEMMA KeepEffectsKeeps ==
    ASSUME ProfilesInv, NEW c \in Operators, Profiles!KeepEffects(c)
    PROVE  ProfilesInv'
<1> DEFINE id == ops[c].profile.id
<1>1. /\ ops[c].kind = "keep" /\ ops[c].pc = "call"
      /\ kept' = IF id \notin DOMAIN kept THEN kept
                 ELSE IF kept[id].game THEN [kept EXCEPT ![id].game = FALSE]
                 ELSE Profiles!Without(kept, id)
      /\ excused' = IF id \in DOMAIN kept /\ ~kept[id].game THEN excused \cup {"dropped"}
                    ELSE excused
      /\ Profiles!Go(c, "list", ops[c].profile, ops[c].prefer)
      /\ UNCHANGED <<list, selected, made, unsaved, lost>>
  BY DEF Profiles!KeepEffects
<1>15. /\ list' = list /\ selected' = selected /\ unsaved' = unsaved /\ lost' = lost
       /\ ops[c].pc = "call"
  BY DEF Profiles!KeepEffects
<1>2. ProfilesTyped /\ KeptInv /\ QuietInv
  BY DEF ProfilesInv
<1>3. IsProfile(ops[c].profile) /\ Catalog(kept)
  BY <1>1, <1>2, BusyTyped
<1>4. /\ ops' = [d \in Operators |-> ops'[d]]
      /\ \A d \in Operators : d # c => ops'[d] = ops[d]
      /\ IsOperation(ops'[c]) /\ ops'[c].kind = "keep" /\ ops'[c].pc = "list"
      /\ ops'[c].exclude = ops[c].exclude /\ ops'[c].local = ops[c].local
  BY <1>1, <1>2, <1>3, GoesOn
<1>5. /\ Catalog(kept') /\ DOMAIN kept' \subseteq DOMAIN kept
      /\ excused' = {} => DOMAIN kept' = DOMAIN kept
  <2>1. CASE id \notin DOMAIN kept
    BY <1>1, <1>3, <2>1
  <2>2. CASE id \in DOMAIN kept /\ kept[id].game
    <3> DEFINE p == [kept[id] EXCEPT !.game = FALSE]
    <3>1. IsProfile(p) /\ p.id = id
      BY <1>3, <2>2, GameChanged DEF Catalog
    <3>2. kept' = [kept EXCEPT ![id] = p]
      BY <1>1, <2>2
    <3> HIDE DEF p
    <3>3. kept' = [i \in DOMAIN kept |-> IF i = id THEN p ELSE kept[i]]
      BY <1>3, <3>2 DEF Catalog
    <3>4. /\ DOMAIN kept' = DOMAIN kept
          /\ \A i \in DOMAIN kept' : IsProfile(kept'[i]) /\ kept'[i].id = i
      BY <1>3, <3>1, <3>3 DEF Catalog
    <3>5. kept' = [i \in DOMAIN kept' |-> kept'[i]]
      BY <3>3
    <3>6. IsFiniteSet(DOMAIN kept')
      BY <1>3, <3>4 DEF Catalog
    <3> QED
      BY <3>4, <3>5, <3>6 DEF Catalog
  <2>3. CASE ~(id \notin DOMAIN kept) /\ ~(id \in DOMAIN kept /\ kept[id].game)
    <3>1. kept' = Profiles!Without(kept, id) /\ "dropped" \in excused'
      BY <1>1, <2>3
    <3>2. Catalog(kept') /\ DOMAIN kept' = DOMAIN kept \ {id}
      BY <1>3, <3>1, WithoutIs
    <3> QED
      BY <3>1, <3>2
  <2> QED
    BY <2>1, <2>2, <2>3
<1>6. excused \subseteq excused' /\ (Apart' => Apart)
  BY <1>1 DEF Apart
<1>7. ProfilesTyped'
  <2>1. ops' = [d \in Operators |-> ops'[d]] /\ \A d \in Operators : IsOperation(ops'[d])
    BY <1>2, <1>4, OperationTyped
  <2>2. Catalog(list) /\ IsProfile(selected)
    BY <1>2, Zenon DEF ProfilesTyped
  <2> QED
    BY <1>5, <1>15, <2>1, <2>2 DEF ProfilesTyped
<1>8. KeptInv'
  BY <1>1, <1>2, <1>5, <1>6 DEF KeptInv
<1>9. /\ lost' = lost /\ UNCHANGED <<list, selected, unsaved>> /\ ops[c].pc = "call"
      /\ ops'[c].pc = "list" /\ ops'[c].kind # "delete" /\ ops'[c].kind # "reset"
  BY <1>4, <1>15
<1>10. Apart' => lost' = {}
  <2> SUFFICES ASSUME Apart' PROVE lost' = {}
    OBVIOUS
  <2>1. Apart
    BY <1>6
  <2>2. lost = {}
    BY <1>2, <2>1 DEF QuietInv
  <2> QED
    BY <1>9, <2>2
<1>11. \A i \in DOMAIN kept' : excused' = {} => i \in DOMAIN kept \/ ~Profiles!Provisional(i)
  BY <1>5
<1>12. \A i \in DOMAIN kept : excused' = {} => i \in DOMAIN kept'
  BY <1>5
<1>13. /\ \A d \in Operators : d # c => ops'[d] = ops[d]
       /\ ops'[c].local = ops[c].local /\ ops'[c].exclude = ops[c].exclude
  BY <1>4
<1>14. QuietInv' /\ CalmInv'
  BY <1>6, <1>9, <1>10, <1>11, <1>12, <1>13, FilesStep
<1> QED
  BY <1>7, <1>8, <1>14 DEF ProfilesInv

(* What an import writes has an identifier of its own.                     *)
LEMMA ImportedIs ==
    ASSUME Catalog(kept), NEW uid, NEW name \in Seq(Profiles!Words), NEW body, NEW game, NEW lib
    PROVE  LET p == Profiles!Imported(kept, uid, name, body, game, lib)
           IN  IsProfile(p) /\ p.id \notin DOMAIN Profiles!Listed(kept)
<1> DEFINE there == Profiles!Listed(kept)
           names == {there[i].name : i \in DOMAIN there}
           own == Profiles!UniqueName(name, names)
           id == Profiles!UniqueTriggerProfileId(own, DOMAIN there)
           p == Profiles!Imported(kept, uid, name, body, game, lib)
<1>1. IsFiniteSet(DOMAIN there)
  BY ListedIs DEF Catalog
<1>2. IsFiniteSet(names)
  <2> DEFINE f == [i \in DOMAIN there |-> there[i].name]
  <2>1. f \in Surjection(DOMAIN there, names)
    BY DEF Surjection
  <2> HIDE DEF f, there, names
  <2> QED
    BY <1>1, <2>1, FS_Surjection
<1>3. own \in Seq(Profiles!Words)
  <2> HIDE DEF names
  <2> QED
    BY <1>2, UniqueNameType
<1>4. id \notin DOMAIN there
  <2> HIDE DEF own, there
  <2> QED
    BY <1>1, <1>3, NewIdentifier
<1>5. p = Profiles!Profile(uid, id, own, body, game, lib)
  BY DEF Profiles!Imported
<1>6. IsProfile(p) /\ p.id = id
  <2> HIDE DEF own, id, p
  <2> QED
    BY <1>3, <1>5 DEF IsProfile, Profiles!Profile
<1> QED
  BY <1>4, <1>6

LEMMA ImportKeeps ==
    ASSUME ProfilesInv, NEW c \in Operators, Profiles!Import(c)
    PROVE  ProfilesInv'
<1>1. PICK p : p = Profiles!Imported(kept, ops[c].profile.uid, ops[c].profile.name, "library",
                                     ops[c].kind = "game",
                                     ops[c].profile.lib \/ ops[c].kind = "game")
  OBVIOUS
<1>2. /\ ops[c].kind \in {"import", "game"} /\ ops[c].pc = "call"
      /\ Profiles!Stores(p, "main")
      /\ UNCHANGED <<list, selected, made, unsaved>>
      /\ \/ \E prefer : Profiles!Go(c, "list", p, prefer)
         \/ /\ ops[c].kind = "game"
            /\ ops' = [ops EXCEPT ![c].kind = "save", ![c].profile = p, ![c].prefer = p.id]
  BY <1>1 DEF Profiles!Import
<1>3. ProfilesTyped /\ KeptInv /\ QuietInv
  BY DEF ProfilesInv
<1>4. IsProfile(ops[c].profile) /\ Catalog(kept)
  BY <1>2, <1>3, BusyTyped
<1>5. IsProfile(p) /\ p.id \notin DOMAIN Profiles!Listed(kept)
  <2>1. ops[c].profile.name \in Seq(Profiles!Words)
    BY <1>4 DEF IsProfile
  <2> QED
    BY <1>1, <1>4, <2>1, ImportedIs
<1>6. p.id \in DOMAIN kept => p.id = Profiles!Reserved
  BY <1>4, <1>5, ListedIs
<1>7. /\ Catalog(kept') /\ DOMAIN kept' = DOMAIN kept \cup {p.id} /\ kept'[p.id] = p
      /\ excused \subseteq excused' /\ (Apart' => Apart)
      /\ (excused' = {} => ~Profiles!Provisional(p.id))
      /\ ("reserved" \notin excused' => "reserved" \notin excused /\ p.id # Profiles!Reserved)
      /\ ((p.id \in DOMAIN kept => kept[p.id].uid = p.uid) => lost' = lost)
  BY <1>2, <1>3, <1>5, StoresIs
<1>8. "reserved" \notin excused' => lost' = lost
  BY <1>6, <1>7
<1>9. /\ ops' = [d \in Operators |-> ops'[d]]
      /\ \A d \in Operators : d # c => ops'[d] = ops[d]
      /\ IsOperation(ops'[c]) /\ ops'[c].kind \in {"import", "game", "save"}
      /\ ops'[c].pc \in {"list", "call"} /\ ops'[c].profile = p
      /\ ops'[c].exclude = ops[c].exclude /\ ops'[c].local = ops[c].local
  <2>1. CASE \E prefer : Profiles!Go(c, "list", p, prefer)
    BY <1>2, <1>3, <1>5, <2>1, GoesOn
  <2>2. CASE ops' = [ops EXCEPT ![c].kind = "save", ![c].profile = p, ![c].prefer = p.id]
    <3> DEFINE o == ops[c]
    <3>1. o = [kind |-> o.kind, pc |-> o.pc, profile |-> o.profile, exclude |-> o.exclude,
               prefer |-> o.prefer, local |-> o.local, selected |-> o.selected, back |-> o.back]
      BY <1>3 DEF ProfilesTyped, IsOperation
    <3>2. PICK a : a = [o EXCEPT !.kind = "save"]
      OBVIOUS
    <3>3. PICK b : b = [a EXCEPT !.profile = p]
      OBVIOUS
    <3>4. PICK e : e = [b EXCEPT !.prefer = p.id]
      OBVIOUS
    <3>5. a = [kind |-> "save", pc |-> o.pc, profile |-> o.profile, exclude |-> o.exclude,
               prefer |-> o.prefer, local |-> o.local, selected |-> o.selected, back |-> o.back]
      BY <3>1, <3>2
    <3>6. b = [kind |-> "save", pc |-> o.pc, profile |-> p, exclude |-> o.exclude,
               prefer |-> o.prefer, local |-> o.local, selected |-> o.selected, back |-> o.back]
      BY <3>3, <3>5
    <3>7. e = [kind |-> "save", pc |-> o.pc, profile |-> p, exclude |-> o.exclude,
               prefer |-> p.id, local |-> o.local, selected |-> o.selected, back |-> o.back]
      BY <3>4, <3>6
    <3>8. ops = [d \in Operators |-> ops[d]]
      BY <1>3 DEF ProfilesTyped
    <3>9. PICK x : x = [ops EXCEPT ![c].kind = "save"]
      OBVIOUS
    <3>10. PICK y : y = [x EXCEPT ![c].profile = p]
      OBVIOUS
    <3>11. PICK z : z = [y EXCEPT ![c].prefer = p.id]
      OBVIOUS
    <3>12. ops' = z
      BY <2>2, <3>9, <3>10, <3>11
    <3>13. x = [d \in Operators |-> IF d = c THEN a ELSE ops[d]]
      BY <3>2, <3>8, <3>9
    <3>14. y = [d \in Operators |-> IF d = c THEN b ELSE ops[d]]
      BY <3>3, <3>10, <3>13
    <3>15. z = [d \in Operators |-> IF d = c THEN e ELSE ops[d]]
      BY <3>4, <3>11, <3>14
    <3>16. ops' = [ops EXCEPT ![c] = e]
      BY <3>8, <3>12, <3>15
    <3>17. /\ e.kind = "save" /\ e.pc = o.pc /\ e.profile = p /\ e.exclude = o.exclude
           /\ e.prefer = p.id /\ e.local = o.local /\ e.selected = o.selected /\ e.back = o.back
      BY <3>7
    <3>18. e = [kind |-> e.kind, pc |-> e.pc, profile |-> e.profile, exclude |-> e.exclude,
                prefer |-> e.prefer, local |-> e.local, selected |-> e.selected, back |-> e.back]
      BY <3>7, <3>17
    <3>19. IsOperation(e)
      BY <1>2, <1>3, <1>5, <3>17, <3>18, BusyTyped DEF IsOperation
    <3> QED
      BY <1>2, <1>3, <3>16, <3>17, <3>19, OperationChanged
  <2> QED
    BY <1>2, <2>1, <2>2
<1>10. ProfilesTyped'
  BY <1>2, <1>3, <1>7, <1>9, OperationTyped DEF ProfilesTyped
<1>11. KeptInv'
  BY <1>3, <1>7, <1>8 DEF KeptInv
<1>12. Apart' => lost' = {}
  <2> SUFFICES ASSUME Apart' PROVE lost' = {}
    OBVIOUS
  <2>1. "reserved" \notin excused'
    BY DEF Apart
  <2> QED
    BY <1>3, <1>7, <1>8, <2>1 DEF QuietInv
<1>13. ops'[c].pc = "call" => Own(ops[c])'
  BY <1>7, <1>9 DEF Own
<1>14. QuietInv' /\ CalmInv'
  BY <1>2, <1>7, <1>9, <1>12, <1>13, FilesStep
<1> QED
  BY <1>10, <1>11, <1>14 DEF ProfilesInv

(* A step that goes on without a file: nothing is stored.                  *)
LEMMA QuietStep ==
    ASSUME ProfilesInv, NEW c \in Operators, ops[c].pc # "idle",
           UNCHANGED <<kept, list, selected, unsaved, excused, lost>>,
           ops' = [d \in Operators |-> ops'[d]],
           \A d \in Operators : d # c => ops'[d] = ops[d],
           IsOperation(ops'[c]),
           Apart => IF ops'[c].pc = "idle" THEN Shows(list) ELSE OperationInv(ops[c])',
           ops[c].pc \in {"list", "merge"} =>
               ops'[c].pc \in {"list", "merge"} /\ ops'[c].kind = ops[c].kind,
           ops'[c].pc # "idle" =>
               /\ ops'[c].exclude = ops[c].exclude
               /\ ops'[c].kind = "delete" =>
                      ops[c].kind = "delete" /\ ops'[c].profile = ops[c].profile
    PROVE  ProfilesInv'
<1>1. ProfilesTyped'
  BY OperationTyped DEF ProfilesInv, ProfilesTyped
<1>2. KeptInv'
  BY DEF ProfilesInv, KeptInv
<1>3. QuietInv'
  <2> SUFFICES ASSUME Apart'
               PROVE  /\ lost' = {}
                      /\ \A a, b \in Operators : ops'[a].pc # "idle" /\ ops'[b].pc # "idle" => a = b
                      /\ ~Profiles!Busy' => Shows(list)'
                      /\ selected'.id \in DOMAIN list' /\ selected'.uid = list'[selected'.id].uid
                      /\ \A d \in Operators : ops'[d].pc # "idle" => OperationInv(ops[d])'
    BY DEF QuietInv
  <2>1. Apart
    BY DEF Apart
  <2>2. \A a, b \in Operators : ops[a].pc # "idle" /\ ops[b].pc # "idle" => a = b
    BY <2>1 DEF ProfilesInv, QuietInv
  <2>3. \A a \in Operators : ops'[a].pc # "idle" => a = c
    BY <2>2
  <2>4. ~Profiles!Busy' => Shows(list)'
    <3>1. ~Profiles!Busy' => ops'[c].pc = "idle"
      BY DEF Profiles!Busy
    <3> QED
      BY <2>1, <3>1 DEF Shows
  <2>5. lost' = {} /\ selected'.id \in DOMAIN list' /\ selected'.uid = list'[selected'.id].uid
    BY <2>1 DEF ProfilesInv, QuietInv
  <2> QED
    BY <2>1, <2>3, <2>4, <2>5
<1>4. CalmInv'
  <2> SUFFICES ASSUME excused' = {} PROVE
        /\ \A i \in DOMAIN kept' : ~Profiles!Provisional(i)
        /\ {i \in DOMAIN list' : Profiles!Provisional(i)} = unsaved'
        /\ \A i \in DOMAIN list' :
              Profiles!Provisional(i) \/ i \in DOMAIN Profiles!Listed(kept') \/ Leaving(i)'
        /\ \A d \in Operators :
              ops'[d].pc # "idle" /\ ops'[d].kind = "delete"
                  => ops'[d].exclude = {ops'[d].profile.id}
    BY DEF CalmInv
  <2>1. /\ \A i \in DOMAIN kept : ~Profiles!Provisional(i)
        /\ {i \in DOMAIN list : Profiles!Provisional(i)} = unsaved
        /\ \A i \in DOMAIN list :
              Profiles!Provisional(i) \/ i \in DOMAIN Profiles!Listed(kept) \/ Leaving(i)
        /\ \A d \in Operators :
              ops[d].pc # "idle" /\ ops[d].kind = "delete" => ops[d].exclude = {ops[d].profile.id}
    BY DEF ProfilesInv, CalmInv
  <2>2. ASSUME NEW i, Leaving(i) PROVE Leaving(i)'
    <3>1. PICK d \in Operators :
             ops[d].kind = "delete" /\ ops[d].pc \in {"list", "merge"} /\ i \in ops[d].exclude
      BY <2>2 DEF Leaving
    <3>2. ops'[d].kind = "delete" /\ ops'[d].pc \in {"list", "merge"} /\ i \in ops'[d].exclude
      BY <3>1
    <3> QED
      BY <3>2 DEF Leaving
  <2>3. ASSUME NEW d \in Operators, ops'[d].pc # "idle", ops'[d].kind = "delete"
        PROVE  ops'[d].exclude = {ops'[d].profile.id}
    BY <2>1, <2>3
  <2> QED
    BY <2>1, <2>2, <2>3
<1> QED
  BY <1>1, <1>2, <1>3, <1>4 DEF ProfilesInv

LEMMA IdleTyped == IsOperation(Profiles!Idle) /\ Profiles!Idle.pc = "idle"
BY DEF IsOperation, Profiles!Idle

(* An operation that is given up leaves everything as it was.              *)
LEMMA GivenUp ==
    ASSUME ProfilesInv, NEW c \in Operators,
           ops[c].pc = "fetch" \/ (ops[c].kind = "reset" /\ ops[c].pc = "call"),
           ops' = [ops EXCEPT ![c] = Profiles!Idle],
           UNCHANGED <<kept, list, selected, unsaved, excused, lost>>
    PROVE  ProfilesInv'
<1>1. ProfilesTyped
  BY DEF ProfilesInv
<1>2. /\ ops' = [d \in Operators |-> ops'[d]] /\ ops'[c] = Profiles!Idle
      /\ \A d \in Operators : d # c => ops'[d] = ops[d]
  <2> DEFINE o == Profiles!Idle
  <2>1. ops' = [ops EXCEPT ![c] = o]
    OBVIOUS
  <2> HIDE DEF o
  <2>2. /\ ops' = [d \in Operators |-> ops'[d]] /\ ops'[c] = o
        /\ \A d \in Operators : d # c => ops'[d] = ops[d]
    BY <1>1, <2>1, OperationChanged
  <2> QED
    BY <2>2 DEF o
<1>3. IsOperation(ops'[c]) /\ ops'[c].pc = "idle"
  BY <1>2, IdleTyped
<1>4. Apart => Shows(list)
  BY DEF ProfilesInv, QuietInv, OperationInv
<1> QED
  BY <1>2, <1>3, <1>4, QuietStep

LEMMA ResetFileKeeps ==
    ASSUME ProfilesInv, NEW c \in Operators, Profiles!Reset(c)
    PROVE  ProfilesInv'
<1> DEFINE id == ops[c].profile.id
           p == [kept[id] EXCEPT !.body = "library", !.lib = TRUE]
<1>1. /\ ops[c].kind = "reset" /\ ops[c].pc = "call"
      /\ IF id \in DOMAIN kept
         THEN Profiles!Stores(p, "main") /\ Profiles!Go(c, "list", ops[c].profile, id)
         ELSE ops' = [ops EXCEPT ![c] = Profiles!Idle] /\ UNCHANGED <<kept, lost, excused>>
      /\ UNCHANGED <<list, selected, made, unsaved>>
  BY DEF Profiles!Reset
<1>2. CASE id \notin DOMAIN kept
  BY <1>1, <1>2, GivenUp
<1>3. CASE id \in DOMAIN kept
  <2>1. ProfilesTyped /\ KeptInv /\ QuietInv
    BY DEF ProfilesInv
  <2>2. IsProfile(ops[c].profile) /\ Catalog(kept)
    BY <1>1, <2>1, BusyTyped
  <2>3. IsProfile(p) /\ p.id = id /\ p.uid = kept[id].uid
    <3>1. PICK q : q = kept[id]
      OBVIOUS
    <3>2. IsProfile(q) /\ q.id = id
      BY <1>3, <2>2, <3>1 DEF Catalog
    <3>3. PICK body, lib : body = "library" /\ lib = TRUE
      OBVIOUS
    <3>4. PICK r : r = [q EXCEPT !.body = body]
      OBVIOUS
    <3>5. PICK s : s = [r EXCEPT !.lib = lib]
      OBVIOUS
    <3>6. IsProfile(r) /\ r.id = q.id /\ r.uid = q.uid
      BY <3>2, <3>4, BodyChanged
    <3>7. IsProfile(s) /\ s.id = r.id /\ s.uid = r.uid
      BY <3>5, <3>6, LibraryChanged
    <3>8. s = p
      BY <3>1, <3>3, <3>4, <3>5
    <3> QED
      BY <3>1, <3>2, <3>6, <3>7, <3>8
  <2>4. Profiles!Stores(p, "main") /\ Profiles!Go(c, "list", ops[c].profile, id)
    BY <1>1, <1>3
  <2> HIDE DEF p
  <2>5. /\ ops' = [d \in Operators |-> ops'[d]]
        /\ \A d \in Operators : d # c => ops'[d] = ops[d]
        /\ IsOperation(ops'[c]) /\ ops'[c].kind = "reset" /\ ops'[c].pc = "list"
        /\ ops'[c].exclude = ops[c].exclude /\ ops'[c].local = ops[c].local
    BY <1>1, <2>1, <2>2, <2>4, GoesOn
  <2>6. /\ Catalog(kept') /\ DOMAIN kept' = DOMAIN kept \cup {id}
        /\ excused \subseteq excused' /\ (Apart' => Apart)
        /\ ("reserved" \notin excused' => "reserved" \notin excused)
        /\ lost' = lost
    BY <1>3, <2>1, <2>3, <2>4, StoresIs
  <2>7. DOMAIN kept' = DOMAIN kept
    BY <1>3, <2>6
  <2>8. ProfilesTyped'
    BY <1>1, <2>1, <2>5, <2>6, OperationTyped DEF ProfilesTyped
  <2>9. KeptInv'
    BY <2>1, <2>6, <2>7 DEF KeptInv
  <2>10. Apart' => lost' = {}
    BY <2>1, <2>6 DEF QuietInv
  <2>11. QuietInv' /\ CalmInv'
    BY <1>1, <2>5, <2>6, <2>7, <2>10, FilesStep
  <2> QED
    BY <2>8, <2>9, <2>11 DEF ProfilesInv
<1> QED
  BY <1>2, <1>3

LEMMA FetchedKeeps ==
    ASSUME ProfilesInv, NEW c \in Operators, NEW arrives \in BOOLEAN, Profiles!Fetched(c, arrives)
    PROVE  ProfilesInv'
<1>1. /\ ops[c].pc = "fetch"
      /\ UNCHANGED <<kept, list, selected, made, unsaved, excused, lost>>
      /\ IF arrives THEN Profiles!Go(c, "call", ops[c].profile, ops[c].prefer)
         ELSE IF ops[c].kind = "game"
         THEN ops' = [ops EXCEPT ![c].kind = "save", ![c].pc = "call",
                                 ![c].prefer = ops[c].profile.id]
         ELSE ops' = [ops EXCEPT ![c] = Profiles!Idle]
  BY DEF Profiles!Fetched
<1>2. ProfilesTyped /\ QuietInv
  BY DEF ProfilesInv
<1>3. IsProfile(ops[c].profile)
  BY <1>1, <1>2, BusyTyped
<1>4. Apart => Shows(list) /\ OperationInv(ops[c])
  BY <1>1, <1>2 DEF QuietInv, OperationInv
<1>5. CASE arrives
  <2>1. /\ ops' = [d \in Operators |-> ops'[d]]
        /\ \A d \in Operators : d # c => ops'[d] = ops[d]
        /\ IsOperation(ops'[c]) /\ ops'[c].kind = ops[c].kind /\ ops'[c].pc = "call"
        /\ ops'[c].profile = ops[c].profile
        /\ ops'[c].exclude = ops[c].exclude /\ ops'[c].local = ops[c].local
    BY <1>1, <1>2, <1>3, <1>5, GoesOn
  <2>2. Apart => OperationInv(ops[c])'
    BY <1>1, <1>4, <2>1 DEF OperationInv, Own, Shows
  <2> QED
    BY <1>1, <2>1, <2>2, QuietStep
<1>6. CASE ~arrives /\ ops[c].kind = "game"
  <2> DEFINE o == ops[c]
  <2>1. o = [kind |-> o.kind, pc |-> o.pc, profile |-> o.profile, exclude |-> o.exclude,
             prefer |-> o.prefer, local |-> o.local, selected |-> o.selected, back |-> o.back]
    BY <1>2 DEF ProfilesTyped, IsOperation
  <2>2. PICK a : a = [o EXCEPT !.kind = "save"]
    OBVIOUS
  <2>3. PICK b : b = [a EXCEPT !.pc = "call"]
    OBVIOUS
  <2>4. PICK e : e = [b EXCEPT !.prefer = o.profile.id]
    OBVIOUS
  <2>5. a = [kind |-> "save", pc |-> o.pc, profile |-> o.profile, exclude |-> o.exclude,
             prefer |-> o.prefer, local |-> o.local, selected |-> o.selected, back |-> o.back]
    BY <2>1, <2>2
  <2>6. b = [kind |-> "save", pc |-> "call", profile |-> o.profile, exclude |-> o.exclude,
             prefer |-> o.prefer, local |-> o.local, selected |-> o.selected, back |-> o.back]
    BY <2>3, <2>5
  <2>7. e = [kind |-> "save", pc |-> "call", profile |-> o.profile, exclude |-> o.exclude,
             prefer |-> o.profile.id, local |-> o.local, selected |-> o.selected, back |-> o.back]
    BY <2>4, <2>6
  <2>8. ops = [d \in Operators |-> ops[d]]
    BY <1>2 DEF ProfilesTyped
  <2>9. PICK x : x = [ops EXCEPT ![c].kind = "save"]
    OBVIOUS
  <2>10. PICK y : y = [x EXCEPT ![c].pc = "call"]
    OBVIOUS
  <2>11. PICK z : z = [y EXCEPT ![c].prefer = o.profile.id]
    OBVIOUS
  <2>12. ops' = z
    BY <1>1, <1>6, <2>9, <2>10, <2>11
  <2>13. x = [d \in Operators |-> IF d = c THEN a ELSE ops[d]]
    BY <2>2, <2>8, <2>9
  <2>14. y = [d \in Operators |-> IF d = c THEN b ELSE ops[d]]
    BY <2>3, <2>10, <2>13
  <2>15. z = [d \in Operators |-> IF d = c THEN e ELSE ops[d]]
    BY <2>4, <2>11, <2>14
  <2>16. ops' = [ops EXCEPT ![c] = e]
    BY <2>8, <2>12, <2>15
  <2>17. /\ e.kind = "save" /\ e.pc = "call" /\ e.profile = o.profile /\ e.exclude = o.exclude
         /\ e.prefer = o.profile.id /\ e.local = o.local /\ e.selected = o.selected /\ e.back = o.back
    BY <2>7
  <2>18. e = [kind |-> e.kind, pc |-> e.pc, profile |-> e.profile, exclude |-> e.exclude,
              prefer |-> e.prefer, local |-> e.local, selected |-> e.selected, back |-> e.back]
    BY <2>7, <2>17
  <2>19. IsOperation(e)
    BY <1>1, <1>2, <1>3, <2>17, <2>18, BusyTyped DEF IsOperation
  <2>20. /\ ops' = [d \in Operators |-> ops'[d]] /\ ops'[c] = e
         /\ \A d \in Operators : d # c => ops'[d] = ops[d]
    BY <1>2, <2>16, OperationChanged
  <2>21. Apart => OperationInv(ops[c])'
    BY <1>1, <1>4, <1>6, <2>17, <2>20 DEF OperationInv, Own, Shows
  <2>22. /\ IsOperation(ops'[c]) /\ ops'[c].pc # "idle" /\ ops[c].pc # "idle"
         /\ ops[c].pc \notin {"list", "merge"}
         /\ ops'[c].exclude = ops[c].exclude /\ ops'[c].kind # "delete"
    BY <1>1, <2>17, <2>19, <2>20
  <2> QED
    BY <1>1, <2>20, <2>21, <2>22, QuietStep
<1>7. CASE ~arrives /\ ops[c].kind # "game"
  <2>1. ops' = [ops EXCEPT ![c] = Profiles!Idle]
    BY <1>1, <1>7
  <2>2. /\ (ops[c].pc = "fetch" \/ (ops[c].kind = "reset" /\ ops[c].pc = "call"))
        /\ UNCHANGED <<kept, list, selected, unsaved, excused, lost>>
    BY <1>1
  <2> QED
    BY ONLY ProfilesInv, c \in Operators, <2>1, <2>2, GivenUp
<1> QED
  BY <1>5, <1>6, <1>7

LEMMA ReadListKeeps ==
    ASSUME ProfilesInv, NEW c \in Operators, Profiles!ReadList(c)
    PROVE  ProfilesInv'
<1> DEFINE o == ops[c]
           listed == Profiles!Listed(kept)
<1>1. /\ ops[c].pc = "list" /\ ops' = [ops EXCEPT ![c].pc = "merge", ![c].back = listed]
      /\ UNCHANGED <<kept, list, selected, made, unsaved, excused, lost>>
  BY DEF Profiles!ReadList
<1>2. ProfilesTyped /\ QuietInv
  BY DEF ProfilesInv
<1>3. IsProfile(o.profile) /\ Catalog(o.local) /\ Catalog(kept)
  BY <1>1, <1>2, BusyTyped
<1>4. Catalog(listed) /\ Profiles!DefaultId \in DOMAIN listed
  BY <1>3, ListedIs
<1> HIDE DEF listed
<1>5. o = [kind |-> o.kind, pc |-> o.pc, profile |-> o.profile, exclude |-> o.exclude,
           prefer |-> o.prefer, local |-> o.local, selected |-> o.selected, back |-> o.back]
  BY <1>2 DEF ProfilesTyped, IsOperation
<1>6. PICK a : a = [o EXCEPT !.pc = "merge"]
  OBVIOUS
<1>7. PICK e : e = [a EXCEPT !.back = listed]
  OBVIOUS
<1>8. a = [kind |-> o.kind, pc |-> "merge", profile |-> o.profile, exclude |-> o.exclude,
           prefer |-> o.prefer, local |-> o.local, selected |-> o.selected, back |-> o.back]
  BY <1>5, <1>6
<1>9. e = [kind |-> o.kind, pc |-> "merge", profile |-> o.profile, exclude |-> o.exclude,
           prefer |-> o.prefer, local |-> o.local, selected |-> o.selected, back |-> listed]
  BY <1>7, <1>8
<1>10. ops = [d \in Operators |-> ops[d]]
  BY <1>2 DEF ProfilesTyped
<1>11. PICK x : x = [ops EXCEPT ![c].pc = "merge"]
  OBVIOUS
<1>12. PICK y : y = [x EXCEPT ![c].back = listed]
  OBVIOUS
<1>13. ops' = y
  BY <1>1, <1>11, <1>12
<1>14. x = [d \in Operators |-> IF d = c THEN a ELSE ops[d]]
  BY <1>6, <1>10, <1>11
<1>15. y = [d \in Operators |-> IF d = c THEN e ELSE ops[d]]
  BY <1>7, <1>12, <1>14
<1>16. ops' = [ops EXCEPT ![c] = e]
  BY <1>10, <1>13, <1>15
<1>17. /\ e.kind = o.kind /\ e.pc = "merge" /\ e.profile = o.profile /\ e.exclude = o.exclude
       /\ e.prefer = o.prefer /\ e.local = o.local /\ e.selected = o.selected /\ e.back = listed
  BY <1>9
<1>18. e = [kind |-> e.kind, pc |-> e.pc, profile |-> e.profile, exclude |-> e.exclude,
            prefer |-> e.prefer, local |-> e.local, selected |-> e.selected, back |-> e.back]
  BY <1>9, <1>17
<1>19. IsOperation(e)
  BY <1>3, <1>4, <1>17, <1>18 DEF IsOperation
<1>20. /\ ops' = [d \in Operators |-> ops'[d]] /\ ops'[c] = e
       /\ \A d \in Operators : d # c => ops'[d] = ops[d]
  BY <1>2, <1>16, OperationChanged
<1>21. Apart => OperationInv(ops[c])'
  <2> SUFFICES ASSUME Apart PROVE OperationInv(ops[c])'
    OBVIOUS
  <2>1. OperationInv(ops[c])
    BY <1>1, <1>2 DEF QuietInv
  <2>2. Profiles!Listed(kept') = listed
    BY <1>1 DEF listed
  <2> QED
    BY <1>1, <1>17, <1>20, <2>1, <2>2 DEF OperationInv
<1>22. /\ IsOperation(ops'[c]) /\ ops'[c].pc = "merge" /\ ops[c].pc # "idle"
       /\ ops'[c].exclude = ops[c].exclude /\ ops'[c].kind = ops[c].kind
       /\ ops'[c].profile = ops[c].profile
  BY <1>1, <1>17, <1>19, <1>20
<1>23. Apart => IF ops'[c].pc = "idle" THEN Shows(list) ELSE OperationInv(ops[c])'
  BY <1>21, <1>22
<1>24. UNCHANGED <<kept, list, selected, unsaved, excused, lost>>
  BY <1>1
<1>25. \A d \in Operators : d # c => ops'[d] = ops[d]
  BY <1>20
<1>26. ops' = [d \in Operators |-> ops'[d]]
  BY <1>20
<1>27. ops[c].pc \in {"list", "merge"} =>
           ops'[c].pc \in {"list", "merge"} /\ ops'[c].kind = ops[c].kind
  BY <1>22
<1>28. ops'[c].pc # "idle" =>
           /\ ops'[c].exclude = ops[c].exclude
           /\ ops'[c].kind = "delete" => ops[c].kind = "delete" /\ ops'[c].profile = ops[c].profile
  BY <1>22
<1> QED
  BY <1>22, <1>23, <1>24, <1>25, <1>26, <1>27, <1>28, QuietStep

LEMMA RefreshKeeps ==
    ASSUME ProfilesInv, NEW c \in Operators, Profiles!Refresh(c)
    PROVE  ProfilesInv'
<1> DEFINE o == ops[c]
           merged == Profiles!MergeTriggerProfiles(o.local, o.back, o.exclude)
           named == {i \in DOMAIN merged : o.kind = "import" /\ merged[i].name = o.profile.name}
           next == CASE named # {} -> named
                     [] o.prefer \in DOMAIN merged -> {o.prefer}
                     [] o.selected \in DOMAIN merged -> {o.selected}
                     [] OTHER -> {Profiles!DefaultId}
<1>1. /\ o.pc = "merge" /\ list' = merged /\ \E id \in next : selected' = merged[id]
      /\ unsaved' = unsaved \ o.exclude
      /\ ops' = [ops EXCEPT ![c] = Profiles!Idle]
      /\ UNCHANGED <<kept, made, excused, lost>>
  BY DEF Profiles!Refresh
<1>2. ProfilesTyped /\ KeptInv /\ QuietInv /\ CalmInv
  BY DEF ProfilesInv
<1>3. /\ Catalog(o.local) /\ Catalog(kept) /\ Catalog(o.back)
      /\ Profiles!DefaultId \in DOMAIN o.back
  BY <1>1, <1>2, BusyTyped DEF ProfilesTyped, IsOperation
<1>4. /\ Catalog(merged) /\ DOMAIN merged = DOMAIN o.back \cup (DOMAIN o.local \ o.exclude)
      /\ \A i \in DOMAIN o.back : merged[i] = o.back[i]
  <2>1. PICK local, back, exclude : local = o.local /\ back = o.back /\ exclude = o.exclude
    OBVIOUS
  <2>2. Catalog(local) /\ Catalog(back)
    BY <1>3, <2>1
  <2>3. PICK m : m = Profiles!MergeTriggerProfiles(local, back, exclude)
    OBVIOUS
  <2>4. /\ Catalog(m) /\ DOMAIN m = DOMAIN back \cup (DOMAIN local \ exclude)
        /\ \A i \in DOMAIN back : m[i] = back[i]
    BY ONLY <2>2, <2>3, MergeIs
  <2>5. merged = m
    BY <2>1, <2>3
  <2> QED
    BY <2>1, <2>4, <2>5
<1>5. next \subseteq DOMAIN merged
  <2>1. named \subseteq DOMAIN merged /\ Profiles!DefaultId \in DOMAIN merged
    BY <1>3, <1>4
  <2> HIDE DEF named, merged
  <2> QED
    BY <2>1
<1> HIDE DEF next, named, merged
<1>6. PICK id \in DOMAIN merged : selected' = merged[id]
  BY <1>1, <1>5
<1>7. IsProfile(selected') /\ selected'.id = id
  BY <1>4, <1>6 DEF Catalog
<1>8. /\ ops' = [d \in Operators |-> ops'[d]] /\ ops'[c] = Profiles!Idle
      /\ \A d \in Operators : d # c => ops'[d] = ops[d]
  <2> DEFINE i == Profiles!Idle
  <2>1. ops' = [ops EXCEPT ![c] = i]
    BY <1>1
  <2> HIDE DEF i
  <2>2. /\ ops' = [d \in Operators |-> ops'[d]] /\ ops'[c] = i
        /\ \A d \in Operators : d # c => ops'[d] = ops[d]
    BY <1>2, <2>1, OperationChanged
  <2> QED
    BY <2>2 DEF i
<1>9. IsOperation(ops'[c]) /\ ops'[c].pc = "idle"
  BY <1>8, IdleTyped
<1>10. ProfilesTyped'
  BY <1>1, <1>2, <1>4, <1>7, <1>8, <1>9, OperationTyped DEF ProfilesTyped
<1>11. KeptInv'
  BY <1>1, <1>2 DEF KeptInv
<1>12. ASSUME Apart
       PROVE  /\ lost = {} /\ o.local = list /\ o.back = Profiles!Listed(kept)
              /\ \A d \in Operators : ops[d].pc # "idle" => d = c
  BY <1>1, <1>2, <1>12 DEF QuietInv, OperationInv
<1>13. QuietInv'
  <2> SUFFICES ASSUME Apart'
               PROVE  /\ lost' = {}
                      /\ \A a \in Operators : ops'[a].pc = "idle"
                      /\ Shows(list)'
                      /\ selected'.id \in DOMAIN list' /\ selected'.uid = list'[selected'.id].uid
    BY DEF QuietInv
  <2>1. Apart
    BY <1>1 DEF Apart
  <2>2. \A a \in Operators : ops'[a].pc = "idle"
    BY <1>8, <1>9, <1>12, <2>1
  <2>3. Shows(list)'
    <3>1. \A i \in DOMAIN Profiles!Listed(kept) :
             i \in DOMAIN merged /\ merged[i] = Profiles!Listed(kept)[i]
      BY <1>4, <1>12, <2>1
    <3>2. kept' = kept /\ list' = merged
      BY <1>1
    <3> QED
      BY <3>1, <3>2 DEF Shows
  <2> QED
    BY <1>1, <1>6, <1>7, <1>12, <2>1, <2>2, <2>3
<1>14. CalmInv'
  <2> SUFFICES ASSUME excused' = {} PROVE
        /\ \A i \in DOMAIN kept' : ~Profiles!Provisional(i)
        /\ {i \in DOMAIN list' : Profiles!Provisional(i)} = unsaved'
        /\ \A i \in DOMAIN list' :
              Profiles!Provisional(i) \/ i \in DOMAIN Profiles!Listed(kept')
        /\ \A d \in Operators : ops'[d].pc = "idle"
    BY DEF CalmInv
  <2>1. excused = {} /\ Apart
    BY <1>1 DEF Apart
  <2>2. /\ \A i \in DOMAIN kept : ~Profiles!Provisional(i)
        /\ {i \in DOMAIN list : Profiles!Provisional(i)} = unsaved
        /\ \A i \in DOMAIN list :
              Profiles!Provisional(i) \/ i \in DOMAIN Profiles!Listed(kept) \/ Leaving(i)
    BY <1>2, <2>1 DEF CalmInv
  <2>3. \A d \in Operators : ops'[d].pc = "idle"
    BY <1>8, <1>9, <1>12, <2>1
  <2>4. DOMAIN list' = DOMAIN Profiles!Listed(kept) \cup (DOMAIN list \ o.exclude)
    BY <1>1, <1>4, <1>12, <2>1
  <2>5. \A i \in DOMAIN Profiles!Listed(kept) : ~Profiles!Provisional(i)
    <3>1. ~Profiles!Provisional(Profiles!DefaultId)
      BY DEF Profiles!Provisional, Profiles!DefaultId
    <3>2. DOMAIN Profiles!Listed(kept) = (DOMAIN kept \ {Profiles!Reserved}) \cup {Profiles!DefaultId}
      BY <1>3, ListedIs
    <3> QED
      BY <2>2, <3>1, <3>2
  <2>6. {i \in DOMAIN list' : Profiles!Provisional(i)} = unsaved'
    BY <1>1, <2>2, <2>4, <2>5
  <2>7. ASSUME NEW i \in DOMAIN list', ~Profiles!Provisional(i)
        PROVE  i \in DOMAIN Profiles!Listed(kept')
    <3>1. CASE i \in DOMAIN Profiles!Listed(kept)
      BY <1>1, <3>1
    <3>2. CASE i \in DOMAIN list /\ i \notin o.exclude
      <4>1. ~Leaving(i)
        BY <1>12, <2>1, <3>2 DEF Leaving
      <4> QED
        BY <1>1, <2>2, <2>7, <3>2, <4>1
    <3> QED
      BY <2>4, <2>7, <3>1, <3>2
  <2> QED
    BY <1>1, <2>2, <2>3, <2>6, <2>7
<1> QED
  BY <1>10, <1>11, <1>13, <1>14 DEF ProfilesInv

(***************************************************************************)
(* Operations begin.                                                       *)
(***************************************************************************)
LEMMA BegunOperation ==
    ASSUME ProfilesTyped, NEW c \in Operators, NEW kind, NEW pc, NEW p, NEW prefer, NEW exclude,
           Profiles!Begin(c, kind, pc, p, prefer, exclude)
    PROVE  /\ ops' = [d \in Operators |-> ops'[d]]
           /\ \A d \in Operators : d # c => ops'[d] = ops[d]
           /\ ops'[c] = [kind |-> kind, pc |-> pc, profile |-> p, exclude |-> exclude,
                         prefer |-> prefer, local |-> list, selected |-> selected.id,
                         back |-> <<>>]
<1>1. PICK a : a = [Profiles!Idle EXCEPT !.kind = kind]
  OBVIOUS
<1>2. PICK b : b = [a EXCEPT !.pc = pc]
  OBVIOUS
<1>3. PICK e : e = [b EXCEPT !.profile = p]
  OBVIOUS
<1>4. PICK f : f = [e EXCEPT !.prefer = prefer]
  OBVIOUS
<1>5. PICK g : g = [f EXCEPT !.exclude = exclude]
  OBVIOUS
<1>6. PICK h : h = [g EXCEPT !.local = list]
  OBVIOUS
<1>7. PICK o : o = [h EXCEPT !.selected = selected.id]
  OBVIOUS
<1>8. PICK i : i = [kind |-> i.kind, pc |-> i.pc, profile |-> i.profile, exclude |-> i.exclude,
                    prefer |-> i.prefer, local |-> i.local, selected |-> i.selected,
                    back |-> <<>>] /\ i = Profiles!Idle
  <2>1. PICK q : q = Profiles!DefaultProfile
    OBVIOUS
  <2>2. PICK i : i = [kind |-> "none", pc |-> "idle", profile |-> q, exclude |-> {},
                      prefer |-> <<>>, local |-> <<>>, selected |-> <<>>, back |-> <<>>]
    OBVIOUS
  <2>3. i = Profiles!Idle
    BY <2>1, <2>2 DEF Profiles!Idle
  <2>4. i = [kind |-> i.kind, pc |-> i.pc, profile |-> i.profile, exclude |-> i.exclude,
             prefer |-> i.prefer, local |-> i.local, selected |-> i.selected, back |-> <<>>]
    BY <2>2
  <2> QED
    BY <2>3, <2>4
<1>9. a = [kind |-> kind, pc |-> i.pc, profile |-> i.profile, exclude |-> i.exclude,
           prefer |-> i.prefer, local |-> i.local, selected |-> i.selected, back |-> <<>>]
  BY <1>1, <1>8
<1>10. b = [kind |-> kind, pc |-> pc, profile |-> i.profile, exclude |-> i.exclude,
            prefer |-> i.prefer, local |-> i.local, selected |-> i.selected, back |-> <<>>]
  BY <1>2, <1>9
<1>11. e = [kind |-> kind, pc |-> pc, profile |-> p, exclude |-> i.exclude,
            prefer |-> i.prefer, local |-> i.local, selected |-> i.selected, back |-> <<>>]
  BY <1>3, <1>10
<1>12. f = [kind |-> kind, pc |-> pc, profile |-> p, exclude |-> i.exclude,
            prefer |-> prefer, local |-> i.local, selected |-> i.selected, back |-> <<>>]
  BY <1>4, <1>11
<1>13. g = [kind |-> kind, pc |-> pc, profile |-> p, exclude |-> exclude,
            prefer |-> prefer, local |-> i.local, selected |-> i.selected, back |-> <<>>]
  BY <1>5, <1>12
<1>14. h = [kind |-> kind, pc |-> pc, profile |-> p, exclude |-> exclude,
            prefer |-> prefer, local |-> list, selected |-> i.selected, back |-> <<>>]
  BY <1>6, <1>13
<1>15. o = [kind |-> kind, pc |-> pc, profile |-> p, exclude |-> exclude,
            prefer |-> prefer, local |-> list, selected |-> selected.id, back |-> <<>>]
  BY <1>7, <1>14
<1>16. ops' = [ops EXCEPT ![c] = o]
  BY <1>1, <1>2, <1>3, <1>4, <1>5, <1>6, <1>7 DEF Profiles!Begin
<1> QED
  BY <1>15, <1>16, OperationChanged

LEMMA OverlapsIs ==
    ASSUME Profiles!Overlaps
    PROVE  /\ excused \subseteq excused'
           /\ Apart' => Apart /\ ~Profiles!Busy
           /\ "reserved" \notin excused' => "reserved" \notin excused
           /\ excused' = {} => excused = {} /\ Apart'
BY DEF Profiles!Overlaps, Apart

LEMMA OperationBegins ==
    ASSUME ProfilesInv, NEW c \in Operators, NEW kind, NEW pc \in {"call", "fetch"},
           NEW p, IsProfile(p), NEW prefer, NEW exclude,
           Profiles!Begin(c, kind, pc, p, prefer, exclude),
           Apart /\ ~Profiles!Busy /\ kind \in {"save", "delete", "game"} =>
               (p.id \in DOMAIN kept => kept[p.id].uid = p.uid),
           kind = "delete" => exclude = {p.id}
    PROVE  ProfilesInv'
<1>1. /\ ops[c].pc = "idle" /\ Profiles!Overlaps
      /\ UNCHANGED <<kept, list, selected, unsaved, lost>>
  BY DEF Profiles!Begin
<1>2. ProfilesTyped /\ KeptInv /\ QuietInv /\ CalmInv
  BY DEF ProfilesInv
<1>3. /\ ops' = [d \in Operators |-> ops'[d]]
      /\ \A d \in Operators : d # c => ops'[d] = ops[d]
      /\ ops'[c] = [kind |-> kind, pc |-> pc, profile |-> p, exclude |-> exclude,
                    prefer |-> prefer, local |-> list, selected |-> selected.id, back |-> <<>>]
  BY <1>2, BegunOperation
<1> DEFINE o == ops'[c]
<1>4. /\ o.kind = kind /\ o.pc = pc /\ o.profile = p /\ o.exclude = exclude
      /\ o.prefer = prefer /\ o.local = list /\ o.selected = selected.id /\ o.back = <<>>
  BY <1>3
<1>5. o = [kind |-> o.kind, pc |-> o.pc, profile |-> o.profile, exclude |-> o.exclude,
           prefer |-> o.prefer, local |-> o.local, selected |-> o.selected, back |-> o.back]
  BY <1>3, <1>4
<1>6. Catalog(list)
  BY <1>2 DEF ProfilesTyped
<1> HIDE DEF o
<1>7. IsOperation(o)
  BY <1>4, <1>5, <1>6 DEF IsOperation
<1>8. ProfilesTyped'
  BY <1>1, <1>2, <1>3, <1>7, OperationTyped DEF ProfilesTyped, o
<1>9. /\ Apart' => Apart /\ ~Profiles!Busy
      /\ "reserved" \notin excused' => "reserved" \notin excused
      /\ excused' = {} => excused = {} /\ Apart'
  BY <1>1, OverlapsIs
<1>10. KeptInv'
  BY <1>1, <1>2, <1>9 DEF KeptInv
<1>11. Apart' => \A d \in Operators : ops[d].pc = "idle"
  BY <1>9 DEF Profiles!Busy
<1>12. QuietInv'
  <2> SUFFICES ASSUME Apart'
               PROVE  /\ lost' = {}
                      /\ \A a, b \in Operators : ops'[a].pc # "idle" /\ ops'[b].pc # "idle" => a = b
                      /\ Profiles!Busy'
                      /\ selected'.id \in DOMAIN list' /\ selected'.uid = list'[selected'.id].uid
                      /\ \A d \in Operators : ops'[d].pc # "idle" => OperationInv(ops[d])'
    BY DEF QuietInv
  <2>1. Apart /\ ~Profiles!Busy
    BY <1>9
  <2>2. /\ lost = {} /\ Shows(list)
        /\ selected.id \in DOMAIN list /\ selected.uid = list[selected.id].uid
    BY <1>2, <2>1 DEF QuietInv
  <2>3. \A a \in Operators : ops'[a].pc # "idle" => a = c
    BY <1>3, <1>11
  <2>4. Profiles!Busy'
    BY <1>4 DEF Profiles!Busy, o
  <2>5. Own(ops[c])' \/ kind \notin {"save", "delete", "game"}
    BY <1>1, <1>4, <2>1 DEF Own, o
  <2>6. Shows(list)'
    BY <1>1, <2>2 DEF Shows
  <2>7. OperationInv(ops[c])'
    BY <1>1, <1>4, <2>5, <2>6 DEF OperationInv, o
  <2> QED
    BY <1>1, <2>2, <2>3, <2>4, <2>7
<1>13. CalmInv'
  <2> SUFFICES ASSUME excused' = {} PROVE
        /\ \A i \in DOMAIN kept' : ~Profiles!Provisional(i)
        /\ {i \in DOMAIN list' : Profiles!Provisional(i)} = unsaved'
        /\ \A i \in DOMAIN list' :
              Profiles!Provisional(i) \/ i \in DOMAIN Profiles!Listed(kept')
        /\ \A d \in Operators :
              ops'[d].pc # "idle" /\ ops'[d].kind = "delete"
                  => ops'[d].exclude = {ops'[d].profile.id}
    BY DEF CalmInv
  <2>1. /\ \A i \in DOMAIN kept : ~Profiles!Provisional(i)
        /\ {i \in DOMAIN list : Profiles!Provisional(i)} = unsaved
        /\ \A i \in DOMAIN list :
              Profiles!Provisional(i) \/ i \in DOMAIN Profiles!Listed(kept) \/ Leaving(i)
    BY <1>2, <1>9 DEF CalmInv
  <2>2. \A d \in Operators : ops[d].pc = "idle"
    BY <1>9, <1>11
  <2>3. \A i : ~Leaving(i)
    BY <2>2 DEF Leaving
  <2>4. ASSUME NEW d \in Operators, ops'[d].pc # "idle", ops'[d].kind = "delete"
        PROVE  ops'[d].exclude = {ops'[d].profile.id}
    <3>1. d = c
      BY <1>3, <2>2, <2>4
    <3> QED
      BY <1>4, <2>4, <3>1 DEF o
  <2> QED
    BY <1>1, <2>1, <2>3, <2>4
<1> QED
  BY <1>8, <1>10, <1>12, <1>13 DEF ProfilesInv

(* What the list shows of a file is the file.                              *)
LEMMA ShownFile ==
    ASSUME ProfilesInv, Apart, ~Profiles!Busy
    PROVE  \A i \in DOMAIN kept : i \in DOMAIN list /\ list[i] = kept[i]
<1>1. Shows(list) /\ Profiles!Reserved \notin DOMAIN kept /\ Catalog(kept)
  BY DEF ProfilesInv, QuietInv, KeptInv, Apart, ProfilesTyped
<1>2. \A i \in DOMAIN kept :
         i \in DOMAIN Profiles!Listed(kept) /\ Profiles!Listed(kept)[i] = kept[i]
  BY <1>1, ListedIs
<1> QED
  BY <1>1, <1>2 DEF Shows

LEMMA SaveDraftKeeps ==
    ASSUME ProfilesInv, NEW c \in Operators, Profiles!SaveDraft(c)
    PROVE  ProfilesInv'
<1> DEFINE others == DOMAIN list \ {selected.id}
           fresh == Profiles!UniqueTriggerProfileId(selected.name, others)
           new == Profiles!Provisional(selected.id)
<1>1. PICK id : id = IF new THEN fresh ELSE selected.id
  OBVIOUS
<1>2. PICK p : p = [selected EXCEPT !.id = id]
  OBVIOUS
<1>3. PICK exclude : exclude = IF new THEN {selected.id} ELSE {}
  OBVIOUS
<1>4. PICK kind, pc : kind = "save" /\ pc = "call"
  OBVIOUS
<1>5. Profiles!Begin(c, kind, pc, p, id, exclude)
  BY <1>1, <1>2, <1>3, <1>4 DEF Profiles!SaveDraft
<1>6. IsProfile(selected) /\ Catalog(list)
  BY DEF ProfilesInv, ProfilesTyped
<1>7. IsProfile(p) /\ p.id = id /\ p.uid = selected.uid
  <2>1. PICK q : q = selected
    OBVIOUS
  <2>2. IsProfile(q)
    BY <1>6, <2>1
  <2>3. p = [q EXCEPT !.id = id]
    BY <1>2, <2>1
  <2>4. IsProfile(p) /\ p.id = id /\ p.uid = q.uid
    BY ONLY <2>2, <2>3, IdChanged
  <2> QED
    BY <2>1, <2>4
<1>8. fresh \notin others
  <2>1. selected.name \in Seq(Profiles!Words)
    BY <1>6 DEF IsProfile
  <2>2. IsFiniteSet(others)
    BY <1>6, FS_Difference DEF Catalog
  <2> HIDE DEF others
  <2> QED
    BY <2>1, <2>2, NewIdentifier
<1>9. ASSUME Apart, ~Profiles!Busy, p.id \in DOMAIN kept
      PROVE  kept[p.id].uid = p.uid
  <2>1. id \in DOMAIN list /\ list[id] = kept[id]
    BY <1>7, <1>9, ShownFile
  <2>2. id = selected.id
    BY <1>1, <1>8, <2>1
  <2>3. selected.uid = list[selected.id].uid
    BY <1>9 DEF ProfilesInv, QuietInv
  <2> QED
    BY <1>7, <2>1, <2>2, <2>3
<1> HIDE DEF others, fresh, new
<1> QED
  BY <1>4, <1>5, <1>7, <1>9, OperationBegins

(* What is begun with a profile of the list.                               *)
LEMMA BeginListed ==
    ASSUME ProfilesInv, NEW c \in Operators, NEW kind, NEW pc \in {"call", "fetch"},
           NEW id \in DOMAIN list, NEW p, NEW prefer, NEW exclude,
           IsProfile(p), p.id = id, p.uid = list[id].uid,
           Profiles!Begin(c, kind, pc, p, prefer, exclude), kind = "delete" => exclude = {id}
    PROVE  ProfilesInv'
<1>1. ASSUME Apart, ~Profiles!Busy, p.id \in DOMAIN kept
      PROVE  kept[p.id].uid = p.uid
  BY <1>1, ShownFile
<1> QED
  BY <1>1, OperationBegins

LEMMA ListedProfile ==
    ASSUME ProfilesInv, NEW id \in DOMAIN list
    PROVE  IsProfile(list[id]) /\ list[id].id = id
BY DEF ProfilesInv, ProfilesTyped, Catalog

LEMMA BeginsKeeps ==
    ASSUME ProfilesInv, NEW c \in Operators, Profiles!Begins(c)
    PROVE  ProfilesInv'
<1>1. ASSUME NEW id \in DOMAIN list, Profiles!SaveProcessNames(c, id) PROVE ProfilesInv'
  <2>1. PICK kind, pc, p, exclude :
           kind = "save" /\ pc = "call" /\ p = list[id] /\ exclude = {}
    OBVIOUS
  <2>2. Profiles!Begin(c, kind, pc, p, id, exclude)
    BY <1>1, <2>1 DEF Profiles!SaveProcessNames
  <2>3. IsProfile(p) /\ p.id = id /\ p.uid = list[id].uid
    BY <2>1, ListedProfile
  <2> QED
    BY <2>1, <2>2, <2>3, BeginListed
<1>2. ASSUME NEW id \in DOMAIN list, Profiles!ResetToLibrary(c, id) PROVE ProfilesInv'
  <2>1. PICK q, body : q = list[id] /\ body = "library"
    OBVIOUS
  <2>2. PICK kind, pc, p, exclude :
           kind = "reset" /\ pc = "fetch" /\ p = [q EXCEPT !.body = body] /\ exclude = {}
    OBVIOUS
  <2>3. Profiles!Begin(c, kind, pc, p, id, exclude)
    BY <1>2, <2>1, <2>2 DEF Profiles!ResetToLibrary
  <2>4. IsProfile(q) /\ q.id = id /\ q.uid = list[id].uid
    BY <2>1, ListedProfile
  <2>5. IsProfile(p) /\ p.id = id /\ p.uid = list[id].uid
    BY <2>2, <2>4, BodyChanged
  <2> QED
    BY <2>2, <2>3, <2>5, BeginListed
<1>3. ASSUME NEW id \in DOMAIN list, Profiles!DeleteProfile(c, id) PROVE ProfilesInv'
  <2>1. PICK q, body, lib : q = list[id] /\ body = "plain" /\ lib = FALSE
    OBVIOUS
  <2>2. IsProfile(q) /\ q.id = id /\ q.uid = list[id].uid
    BY <2>1, ListedProfile
  <2>3. PICK pc, none, gone : pc = "call" /\ none = {} /\ gone = {id}
    OBVIOUS
  <2>4. CASE list[id].game
    <3>1. PICK p : p = [q EXCEPT !.body = body, !.lib = lib]
      OBVIOUS
    <3>2. PICK kind : kind = "save"
      OBVIOUS
    <3>3. Profiles!Begin(c, kind, pc, p, id, none)
      BY <1>3, <2>1, <2>3, <2>4, <3>1, <3>2 DEF Profiles!DeleteProfile
    <3>4. IsProfile(p) /\ p.id = q.id /\ p.uid = q.uid
      <4>1. PICK r : r = [q EXCEPT !.body = body]
        OBVIOUS
      <4>2. p = [r EXCEPT !.lib = lib]
        BY <3>1, <4>1
      <4>3. IsProfile(r) /\ r.id = q.id /\ r.uid = q.uid
        BY <2>2, <4>1, BodyChanged
      <4> QED
        BY <4>2, <4>3, LibraryChanged
    <3> QED
      BY <2>2, <2>3, <3>2, <3>3, <3>4, BeginListed
  <2>5. CASE ~list[id].game
    <3>1. PICK kind, prefer : kind = "delete" /\ prefer = <<>>
      OBVIOUS
    <3>2. Profiles!Begin(c, kind, pc, q, prefer, gone)
      BY <1>3, <2>1, <2>3, <2>5, <3>1 DEF Profiles!DeleteProfile
    <3> QED
      BY <2>2, <2>3, <3>1, <3>2, BeginListed
  <2> QED
    BY <2>4, <2>5
<1>4. ASSUME NEW id \in DOMAIN list, NEW keep \in BOOLEAN, Profiles!DeleteGame(c, id, keep)
      PROVE  ProfilesInv'
  <2>1. PICK kind, pc, p, prefer, exclude :
           /\ kind = (IF keep THEN "keep" ELSE "delete") /\ pc = "call" /\ p = list[id]
           /\ prefer = <<>> /\ exclude = (IF keep THEN {} ELSE {id})
    OBVIOUS
  <2>2. Profiles!Begin(c, kind, pc, p, prefer, exclude)
    BY <1>4, <2>1 DEF Profiles!DeleteGame
  <2>3. IsProfile(p) /\ p.id = id /\ p.uid = list[id].uid
    BY <2>1, ListedProfile
  <2>4. kind = "delete" => exclude = {id}
    BY <2>1
  <2> QED
    BY <2>1, <2>2, <2>3, <2>4, BeginListed
<1>5. ASSUME NEW name \in OfferedNames, NEW lib \in BOOLEAN, NEW pc \in {"call", "fetch"},
             Profiles!Begin(c, "import", pc,
                 Profiles!Profile(made + 1, <<>>, name, "library", FALSE, lib), <<>>, {})
      PROVE  ProfilesInv'
  <2>1. name \in Seq(Profiles!Words)
    BY ProfileNames DEF Profiles!NamesOK
  <2>2. PICK p : p = Profiles!Profile(made + 1, <<>>, name, "library", FALSE, lib)
    OBVIOUS
  <2>3. IsProfile(p)
    BY <2>1, <2>2 DEF IsProfile, Profiles!Profile
  <2>4. PICK kind, prefer, exclude : kind = "import" /\ prefer = <<>> /\ exclude = {}
    OBVIOUS
  <2>5. Profiles!Begin(c, kind, pc, p, prefer, exclude)
    BY <1>5, <2>2, <2>4
  <2> QED
    BY <2>3, <2>4, <2>5, OperationBegins
<1>6. ASSUME NEW name \in TypedNames, NEW match \in BOOLEAN, Profiles!CreateGame(c, name, match)
      PROVE  ProfilesInv'
  <2>1. name \in Seq(Profiles!Words)
    BY ProfileNames DEF Profiles!NamesOK
  <2>2. PICK id : id = Profiles!UniqueTriggerProfileId(name, DOMAIN list)
    OBVIOUS
  <2>3. PICK p : p = Profiles!Profile(made + 1, id, name, "plain", TRUE, FALSE)
    OBVIOUS
  <2>4. IsProfile(p) /\ p.id = id
    BY <2>1, <2>3 DEF IsProfile, Profiles!Profile
  <2>5. id \notin DOMAIN list
    <3>1. IsFiniteSet(DOMAIN list)
      BY DEF ProfilesInv, ProfilesTyped, Catalog
    <3> QED
      BY <2>1, <2>2, <3>1, NewIdentifier
  <2>6. Apart /\ ~Profiles!Busy => p.id \notin DOMAIN kept
    BY <2>4, <2>5, ShownFile
  <2>7. PICK kind, pc, prefer, exclude :
           /\ kind = (IF match THEN "game" ELSE "save") /\ pc = (IF match THEN "fetch" ELSE "call")
           /\ prefer = (IF match THEN <<>> ELSE p.id) /\ exclude = {}
    OBVIOUS
  <2>8. Profiles!Begin(c, kind, pc, p, prefer, exclude)
    <3>1. CASE match
      BY <1>6, <2>2, <2>3, <2>7, <3>1 DEF Profiles!CreateGame
    <3>2. CASE ~match
      BY <1>6, <2>2, <2>3, <2>7, <3>2 DEF Profiles!CreateGame
    <3> QED
      BY <3>1, <3>2
  <2>9. pc \in {"call", "fetch"} /\ kind # "delete"
    BY <2>7
  <2> QED
    BY <2>4, <2>6, <2>8, <2>9, OperationBegins
<1>7. ASSUME NEW name \in OfferedNames, Profiles!ImportFromDisk(c, name) PROVE ProfilesInv'
  BY <1>5, <1>7 DEF Profiles!ImportFromDisk
<1>8. ASSUME NEW name \in OfferedNames, Profiles!InstallFromLibrary(c, name) PROVE ProfilesInv'
  BY <1>5, <1>8 DEF Profiles!InstallFromLibrary
<1> QED
  BY <1>1, <1>2, <1>3, <1>4, <1>6, <1>7, <1>8, SaveDraftKeeps DEF Profiles!Begins

(***************************************************************************)
(* What the renderer does by itself.                                       *)
(***************************************************************************)
LEMMA AddDraftKeeps ==
    ASSUME ProfilesInv, NEW name \in Seq(Profiles!Words), NEW body, NEW game, NEW lib,
           made \in Nat, Profiles!AddDraft(name, body, game, lib)
    PROVE  ProfilesInv'
<1>1. PICK id : id = Profiles!Numbered(<<"draft">>, made + 1)
  OBVIOUS
<1>2. PICK p : p = Profiles!Profile(made + 1, id, name, body, game, lib)
  OBVIOUS
<1>3. /\ id \notin DOMAIN kept \cup DOMAIN list /\ Profiles!Overlaps
      /\ list' = Profiles!With(list, p) /\ selected' = p /\ unsaved' = unsaved \cup {id}
      /\ UNCHANGED <<kept, ops, lost>>
  BY <1>1, <1>2 DEF Profiles!AddDraft
<1>4. IsProfile(p) /\ p.id = id
  BY <1>2 DEF IsProfile, Profiles!Profile
<1>5. Profiles!Provisional(id)
  <2>1. {"#", "1"} \subseteq {"#", "1", "draft"} /\ made + 1 \in Nat
    OBVIOUS
  <2>2. <<"draft">> \in Seq({"#", "1", "draft"}) /\ <<"draft">> # <<>> /\ <<"draft">>[1] = "draft"
    OBVIOUS
  <2>3. PICK base : base = <<"draft">>
    OBVIOUS
  <2>4. id[1] = base[1]
    BY <1>1, <2>1, <2>2, <2>3, NumberedLength
  <2>5. id[1] = "draft"
    BY <2>2, <2>3, <2>4
  <2> QED
    BY <2>5 DEF Profiles!Provisional
<1>6. ProfilesTyped /\ KeptInv /\ QuietInv /\ CalmInv
  BY DEF ProfilesInv
<1>7. Catalog(list)
  BY <1>6 DEF ProfilesTyped
<1>8. /\ Catalog(list') /\ DOMAIN list' = DOMAIN list \cup {id} /\ list'[id] = p
      /\ \A i \in DOMAIN list : i # id => list'[i] = list[i]
  <2>1. PICK before, after, q : before = list /\ after = Profiles!With(before, q) /\ q = p
    OBVIOUS
  <2>2. Catalog(before) /\ IsProfile(q)
    BY <1>4, <1>7, <2>1
  <2>3. /\ Catalog(after) /\ DOMAIN after = DOMAIN before \cup {q.id} /\ after[q.id] = q
        /\ \A i \in DOMAIN before : i # q.id => after[i] = before[i]
    <3>1. after = Profiles!With(before, q)
      BY <2>1
    <3>2. Catalog(after) /\ DOMAIN after = DOMAIN before \cup {q.id} /\ after[q.id] = q
      BY ONLY <2>2, <3>1, WithIs
    <3>3. \A i \in DOMAIN before : i # q.id => after[i] = before[i]
      BY <3>1 DEF Profiles!With
    <3> QED
      BY <3>2, <3>3
  <2>4. list' = after
    BY <1>3, <2>1
  <2> QED
    BY <1>4, <2>1, <2>3, <2>4
<1>9. ProfilesTyped'
  BY <1>3, <1>4, <1>6, <1>8 DEF ProfilesTyped
<1>10. /\ Apart' => Apart /\ ~Profiles!Busy
       /\ "reserved" \notin excused' => "reserved" \notin excused
       /\ excused' = {} => excused = {} /\ Apart'
  BY <1>3, OverlapsIs
<1>11. KeptInv'
  BY <1>3, <1>6, <1>10 DEF KeptInv
<1>12. QuietInv'
  <2> SUFFICES ASSUME Apart'
               PROVE  /\ lost' = {} /\ \A a \in Operators : ops'[a].pc = "idle"
                      /\ Shows(list)'
                      /\ selected'.id \in DOMAIN list' /\ selected'.uid = list'[selected'.id].uid
    BY DEF QuietInv
  <2>1. lost = {} /\ Shows(list) /\ \A a \in Operators : ops[a].pc = "idle"
    BY <1>6, <1>10 DEF QuietInv, Profiles!Busy
  <2>2. Profiles!DefaultId \in DOMAIN list
    <3>1. Profiles!DefaultId \in DOMAIN Profiles!Listed(kept)
      BY <1>6, ListedIs DEF ProfilesTyped
    <3> QED
      BY <2>1, <3>1 DEF Shows
  <2>3. \A i \in DOMAIN Profiles!Listed(kept) : i \in DOMAIN list /\ i # id
    BY <1>3, <2>1 DEF Shows
  <2>4. Shows(list)'
    BY <1>3, <1>8, <2>1, <2>3 DEF Shows
  <2> QED
    BY <1>3, <1>4, <1>8, <2>1, <2>4
<1>13. CalmInv'
  <2> SUFFICES ASSUME excused' = {} PROVE
        /\ \A i \in DOMAIN kept' : ~Profiles!Provisional(i)
        /\ {i \in DOMAIN list' : Profiles!Provisional(i)} = unsaved'
        /\ \A i \in DOMAIN list' :
              Profiles!Provisional(i) \/ i \in DOMAIN Profiles!Listed(kept')
        /\ \A d \in Operators : ops'[d].pc = "idle"
    BY DEF CalmInv
  <2>1. /\ \A i \in DOMAIN kept : ~Profiles!Provisional(i)
        /\ {i \in DOMAIN list : Profiles!Provisional(i)} = unsaved
        /\ \A i \in DOMAIN list :
              Profiles!Provisional(i) \/ i \in DOMAIN Profiles!Listed(kept) \/ Leaving(i)
    BY <1>6, <1>10 DEF CalmInv
  <2>2. \A d \in Operators : ops[d].pc = "idle"
    BY <1>10 DEF Profiles!Busy
  <2>3. \A i : ~Leaving(i)
    BY <2>2 DEF Leaving
  <2> QED
    BY <1>3, <1>5, <1>8, <2>1, <2>2, <2>3
<1> QED
  BY <1>9, <1>11, <1>12, <1>13 DEF ProfilesInv

(* Only the selection changes.                                             *)
LEMMA SelectionKeeps ==
    ASSUME ProfilesInv, UNCHANGED <<kept, list, ops, unsaved, excused, lost>>,
           IsProfile(selected'), selected.id \in DOMAIN list => selected'.id \in DOMAIN list,
           selected.id \in DOMAIN list /\ selected.uid = list[selected.id].uid
               => selected'.uid = list[selected'.id].uid
    PROVE  ProfilesInv'
<1>1. ProfilesTyped' /\ KeptInv'
  BY DEF ProfilesInv, ProfilesTyped, KeptInv
<1>2. \A i : Leaving(i)' <=> Leaving(i)
  BY DEF Leaving
<1>3. CalmInv'
  BY <1>2 DEF ProfilesInv, CalmInv
<1>4. QuietInv'
  <2> SUFFICES ASSUME Apart'
               PROVE  /\ lost' = {}
                      /\ \A a, b \in Operators : ops'[a].pc # "idle" /\ ops'[b].pc # "idle" => a = b
                      /\ ~Profiles!Busy' => Shows(list)'
                      /\ selected'.id \in DOMAIN list' /\ selected'.uid = list'[selected'.id].uid
                      /\ \A d \in Operators : ops'[d].pc # "idle" => OperationInv(ops[d])'
    BY DEF QuietInv
  <2>1. Apart
    BY DEF Apart
  <2>2. ~Profiles!Busy' => Shows(list)'
    BY <2>1 DEF ProfilesInv, QuietInv, Profiles!Busy, Shows
  <2>3. ASSUME NEW d \in Operators, ops'[d].pc # "idle" PROVE OperationInv(ops[d])'
    BY <2>1, <2>3 DEF ProfilesInv, QuietInv, OperationInv, Own, Shows
  <2> QED
    BY <2>1, <2>2, <2>3 DEF ProfilesInv, QuietInv
<1> QED
  BY <1>1, <1>3, <1>4 DEF ProfilesInv

LEMMA EditDraftKeeps ==
    ASSUME ProfilesInv, NEW name \in TypedNames, Profiles!EditDraft(name)
    PROVE  ProfilesInv'
<1>1. PICK q, body : q = selected /\ body = "edited"
  OBVIOUS
<1>2. selected' = [q EXCEPT !.name = name, !.body = body]
  BY <1>1 DEF Profiles!EditDraft
<1>3. UNCHANGED <<kept, list, ops, unsaved, excused, lost>>
  BY DEF Profiles!EditDraft
<1>4. name \in Seq(Profiles!Words) /\ IsProfile(q)
  BY <1>1, ProfileNames DEF Profiles!NamesOK, ProfilesInv, ProfilesTyped
<1>5. PICK r : r = [q EXCEPT !.name = name]
  OBVIOUS
<1>6. PICK s : s = [r EXCEPT !.body = body]
  OBVIOUS
<1>7. IsProfile(r) /\ r.id = q.id /\ r.uid = q.uid
  BY <1>4, <1>5, NameChanged
<1>8. IsProfile(s) /\ s.id = r.id /\ s.uid = r.uid
  BY <1>6, <1>7, BodyChanged
<1>9. IsProfile(selected') /\ selected'.id = selected.id /\ selected'.uid = selected.uid
  BY <1>1, <1>2, <1>5, <1>6, <1>7, <1>8
<1> QED
  BY <1>3, <1>9, SelectionKeeps

LEMMA LoadDraftKeeps ==
    ASSUME ProfilesInv, NEW id \in DOMAIN list, Profiles!LoadDraft(id)
    PROVE  ProfilesInv'
<1>1. selected' = list[id] /\ UNCHANGED <<kept, list, ops, unsaved, excused, lost>>
  BY DEF Profiles!LoadDraft
<1>2. IsProfile(selected') /\ selected'.id = id
  BY <1>1, ListedProfile
<1> QED
  BY <1>1, <1>2, SelectionKeeps

(***************************************************************************)
(* The invariant, and what it says.                                        *)
(***************************************************************************)
LEMMA ProfilesBegin == Profiles!Init => ProfilesInv /\ made \in Nat
<1> SUFFICES ASSUME Profiles!Init PROVE ProfilesInv /\ made \in Nat
  OBVIOUS
<1>1. PICK ids \in {{}, {<<"a">>}} :
         kept = [i \in ids |-> Profiles!Profile(0, i, i, "plain", TRUE, FALSE)]
  BY DEF Profiles!Init
<1>2. /\ list = Profiles!Listed(kept) /\ selected = Profiles!DefaultProfile
      /\ ops = [c \in Operators |-> Profiles!Idle]
      /\ made = 0 /\ unsaved = {} /\ excused = {} /\ lost = {}
  BY DEF Profiles!Init
<1>3. <<"a">> \in Seq(Profiles!Words) /\ <<"Default">> \in Seq(Profiles!Words)
  BY WordsGiven
<1>4. Catalog(kept)
  <2>1. \A i \in ids : IsProfile(kept[i]) /\ kept[i].id = i
    BY <1>1, <1>3 DEF IsProfile, Profiles!Profile
  <2>2. IsFiniteSet(ids)
    <3>1. CASE ids = {}
      BY <3>1, FS_EmptySet
    <3>2. CASE ids = {<<"a">>}
      <4>1. PICK x : x = <<"a">>
        OBVIOUS
      <4>2. IsFiniteSet({x})
        BY ONLY FS_Singleton
      <4> QED
        BY <3>2, <4>1, <4>2
    <3> QED
      BY <3>1, <3>2
  <2>3. DOMAIN kept = ids /\ kept = [i \in ids |-> kept[i]]
    BY <1>1
  <2> QED
    BY <2>1, <2>2, <2>3 DEF Catalog
<1>5. /\ Catalog(list) /\ DOMAIN list = (DOMAIN kept \ {Profiles!Reserved}) \cup {Profiles!DefaultId}
  BY <1>2, <1>4, ListedIs
<1>6. IsProfile(selected) /\ selected.id = Profiles!DefaultId
  BY <1>2, <1>3 DEF IsProfile, Profiles!Profile, Profiles!DefaultProfile
<1>7. \A c \in Operators : ops[c] = Profiles!Idle
  BY <1>2
<1>8. \A c \in Operators : IsOperation(ops[c]) /\ ops[c].pc = "idle"
  BY <1>7, IdleTyped
<1>9. ProfilesTyped
  BY <1>2, <1>4, <1>5, <1>6, <1>8 DEF ProfilesTyped
<1>10. DOMAIN kept \subseteq {<<"a">>}
  BY <1>1
<1>11. <<"a">> # Profiles!Reserved /\ <<"a">> # Profiles!DefaultId
  BY DEF Profiles!Reserved, Profiles!DefaultId
<1>12. KeptInv
  BY <1>2, <1>10, <1>11 DEF KeptInv
<1>13. selected.uid = list[selected.id].uid
  <2>1. Profiles!DefaultId \notin DOMAIN kept
    BY <1>10, <1>11
  <2>2. list[Profiles!DefaultId] = Profiles!DefaultProfile
    BY <1>2, <2>1 DEF Profiles!Listed
  <2> QED
    BY <1>2, <1>6, <2>2
<1>14. Shows(list)
  BY <1>2 DEF Shows
<1>15. QuietInv
  BY <1>2, <1>5, <1>6, <1>8, <1>13, <1>14 DEF QuietInv
<1>16. ~Profiles!Provisional(<<"a">>) /\ ~Profiles!Provisional(Profiles!DefaultId)
  BY DEF Profiles!Provisional, Profiles!DefaultId
<1>17. CalmInv
  BY <1>2, <1>5, <1>8, <1>10, <1>16 DEF CalmInv
<1> QED
  BY <1>2, <1>9, <1>12, <1>15, <1>17 DEF ProfilesInv

LEMMA MadeStays ==
    ASSUME made \in Nat, [Profiles!Next]_(Profiles!vars) PROVE made' \in Nat
<1>1. CASE UNCHANGED Profiles!vars
  BY <1>1 DEF Profiles!vars
<1>2. CASE Profiles!CreateTriggerProfile \/ Profiles!DuplicateTriggerProfile
  <2>1. ASSUME NEW name, NEW body, NEW game, NEW lib, Profiles!AddDraft(name, body, game, lib)
        PROVE  made' \in Nat
    BY <2>1 DEF Profiles!AddDraft, Profiles!Make
  <2> QED
    BY <1>2, <2>1 DEF Profiles!CreateTriggerProfile, Profiles!DuplicateTriggerProfile
<1>3. ASSUME NEW name \in TypedNames, Profiles!EditDraft(name) PROVE made' \in Nat
  BY <1>3 DEF Profiles!EditDraft
<1>4. ASSUME NEW id \in DOMAIN list, Profiles!LoadDraft(id) PROVE made' \in Nat
  BY <1>4 DEF Profiles!LoadDraft
<1>5. ASSUME NEW c \in Operators, Profiles!Begins(c) PROVE made' \in Nat
  <2>1. ASSUME NEW kind, NEW pc, NEW p, NEW prefer, NEW exclude,
               Profiles!Begin(c, kind, pc, p, prefer, exclude)
        PROVE  made' \in Nat
    BY <2>1 DEF Profiles!Begin, Profiles!Make
  <2>2. CASE Profiles!SaveDraft(c)
    BY <2>1, <2>2 DEF Profiles!SaveDraft
  <2>3. ASSUME NEW id \in DOMAIN list,
               Profiles!SaveProcessNames(c, id) \/ Profiles!ResetToLibrary(c, id)
        PROVE  made' \in Nat
    BY <2>1, <2>3 DEF Profiles!SaveProcessNames, Profiles!ResetToLibrary
  <2>4. ASSUME NEW id \in DOMAIN list, Profiles!DeleteProfile(c, id) PROVE made' \in Nat
    BY <2>1, <2>4 DEF Profiles!DeleteProfile
  <2>5. ASSUME NEW id \in DOMAIN list, NEW keep \in BOOLEAN, Profiles!DeleteGame(c, id, keep)
        PROVE  made' \in Nat
    BY <2>1, <2>5 DEF Profiles!DeleteGame
  <2>6. ASSUME NEW name \in OfferedNames,
               Profiles!ImportFromDisk(c, name) \/ Profiles!InstallFromLibrary(c, name)
        PROVE  made' \in Nat
    BY <2>1, <2>6 DEF Profiles!ImportFromDisk, Profiles!InstallFromLibrary
  <2>7. ASSUME NEW name \in TypedNames, NEW match \in BOOLEAN, Profiles!CreateGame(c, name, match)
        PROVE  made' \in Nat
    BY <2>1, <2>7 DEF Profiles!CreateGame
  <2> QED
    BY <1>5, <2>2, <2>3, <2>4, <2>5, <2>6, <2>7 DEF Profiles!Begins
<1>6. ASSUME NEW c \in Operators, Profiles!Continues(c) PROVE made' \in Nat
  <2>1. CASE Profiles!Save(c) \/ Profiles!Delete(c) \/ Profiles!KeepEffects(c)
    BY <2>1 DEF Profiles!Save, Profiles!Delete, Profiles!KeepEffects
  <2>2. CASE Profiles!Import(c)
    BY <2>2 DEF Profiles!Import
  <2>3. CASE Profiles!Reset(c)
    BY <2>3 DEF Profiles!Reset
  <2>4. CASE Profiles!ReadList(c)
    BY <2>4 DEF Profiles!ReadList
  <2>5. CASE Profiles!Refresh(c)
    BY <2>5 DEF Profiles!Refresh
  <2>6. ASSUME NEW arrives \in BOOLEAN, Profiles!Fetched(c, arrives) PROVE made' \in Nat
    BY <2>6 DEF Profiles!Fetched
  <2> QED
    BY <1>6, <2>1, <2>2, <2>3, <2>4, <2>5, <2>6 DEF Profiles!Continues
<1> QED
  BY <1>1, <1>2, <1>3, <1>4, <1>5, <1>6 DEF Profiles!Next

LEMMA ProfilesStep ==
    ASSUME ProfilesInv, made \in Nat, [Profiles!Next]_(Profiles!vars)
    PROVE  ProfilesInv'
<1>1. CASE UNCHANGED Profiles!vars
  <2>1. UNCHANGED <<kept, list, ops, unsaved, excused, lost, selected>>
    BY <1>1 DEF Profiles!vars
  <2>2. IsProfile(selected)
    BY DEF ProfilesInv, ProfilesTyped
  <2> QED
    BY <2>1, <2>2, SelectionKeeps
<1>2. CASE Profiles!CreateTriggerProfile
  <2>1. <<"New">> \in Seq(Profiles!Words)
    BY WordsGiven
  <2>2. PICK name : name = <<"New">>
    OBVIOUS
  <2>3. Profiles!AddDraft(name, "plain", FALSE, FALSE)
    BY <1>2, <2>2 DEF Profiles!CreateTriggerProfile
  <2> QED
    BY <2>1, <2>2, <2>3, AddDraftKeeps
<1>3. CASE Profiles!DuplicateTriggerProfile
  <2>1. PICK name : name = Append(selected.name, "Copy")
    OBVIOUS
  <2>2. name \in Seq(Profiles!Words)
    BY <2>1, WordsGiven DEF ProfilesInv, ProfilesTyped, IsProfile
  <2>3. Profiles!AddDraft(name, selected.body, selected.game, selected.lib)
    BY <1>3, <2>1 DEF Profiles!DuplicateTriggerProfile
  <2> QED
    BY <2>2, <2>3, AddDraftKeeps
<1>4. ASSUME NEW name \in TypedNames, Profiles!EditDraft(name) PROVE ProfilesInv'
  BY <1>4, EditDraftKeeps
<1>5. ASSUME NEW id \in DOMAIN list, Profiles!LoadDraft(id) PROVE ProfilesInv'
  BY <1>5, LoadDraftKeeps
<1>6. ASSUME NEW c \in Operators, Profiles!Begins(c) PROVE ProfilesInv'
  BY <1>6, BeginsKeeps
<1>7. ASSUME NEW c \in Operators, Profiles!Continues(c) PROVE ProfilesInv'
  BY <1>7, SaveKeeps, DeleteKeeps, KeepEffectsKeeps, ImportKeeps, ResetFileKeeps, ReadListKeeps,
     RefreshKeeps, FetchedKeeps DEF Profiles!Continues
<1> QED
  BY <1>1, <1>2, <1>3, <1>4, <1>5, <1>6, <1>7 DEF Profiles!Next

LEMMA ProfilesInvHolds == ProfilesInv => ProfilesHold
<1> SUFFICES ASSUME ProfilesInv PROVE ProfilesHold
  OBVIOUS
<1>1. Profiles!ProfilesKept
  BY DEF ProfilesInv, KeptInv, QuietInv, Apart, Profiles!ProfilesKept
<1>2. Profiles!ListAgrees
  <2> DEFINE listed == Profiles!Listed(kept)
             named == {j \in DOMAIN list : ~Profiles!Provisional(j)}
  <2> SUFFICES ASSUME ~Profiles!Busy, excused = {}
               PROVE  /\ selected.id \in DOMAIN list
                      /\ [i \in named |-> list[i]] = listed
                      /\ {j \in DOMAIN list : Profiles!Provisional(j)} = unsaved
    BY DEF Profiles!ListAgrees
  <2>1. selected.id \in DOMAIN list /\ Shows(list) /\ Catalog(kept)
    BY DEF ProfilesInv, QuietInv, Apart, ProfilesTyped
  <2>2. /\ \A i \in DOMAIN kept : ~Profiles!Provisional(i)
        /\ {i \in DOMAIN list : Profiles!Provisional(i)} = unsaved
        /\ \A i \in DOMAIN list :
              Profiles!Provisional(i) \/ i \in DOMAIN Profiles!Listed(kept) \/ Leaving(i)
    BY DEF ProfilesInv, CalmInv
  <2>3. \A i : ~Leaving(i)
    BY DEF Leaving, Profiles!Busy
  <2>4. ~Profiles!Provisional(Profiles!DefaultId)
    BY DEF Profiles!Provisional, Profiles!DefaultId
  <2>5. /\ DOMAIN listed = (DOMAIN kept \ {Profiles!Reserved}) \cup {Profiles!DefaultId}
        /\ listed = [i \in DOMAIN listed |-> listed[i]]
    BY <2>1, ListedIs DEF Catalog
  <2>6. \A i \in DOMAIN listed : i \in DOMAIN list /\ list[i] = listed[i]
    BY <2>1 DEF Shows
  <2> HIDE DEF listed
  <2>7. named = DOMAIN listed
    BY <2>2, <2>3, <2>4, <2>5, <2>6 DEF listed
  <2>8. [i \in named |-> list[i]] = listed
    <3> HIDE DEF named
    <3> QED
      BY <2>5, <2>6, <2>7
  <2> QED
    BY <2>1, <2>2, <2>8
<1> QED
  BY <1>1, <1>2 DEF ProfilesHold, Profiles!ProfilesHold

(* In every behaviour no profile is overwritten or removed by an operation *)
(* on another one, and whenever nothing is under way the renderer lists    *)
(* the profiles there are and the drafts nobody saved.                     *)
THEOREM ProfilesCorrect == Profiles!Spec => []ProfilesHold
<1> DEFINE Inv == ProfilesInv /\ made \in Nat
<1>1. Profiles!Init => Inv
  BY ProfilesBegin
<1>2. Inv /\ [Profiles!Next]_(Profiles!vars) => Inv'
  BY ProfilesStep, MadeStays
<1>3. Inv => ProfilesHold
  BY ProfilesInvHolds
<1> HIDE DEF Inv
<1> QED
  BY <1>1, <1>2, <1>3, PTL DEF Profiles!Spec

=============================================================================
