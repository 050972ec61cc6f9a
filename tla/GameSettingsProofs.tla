------------------------- MODULE GameSettingsProofs -------------------------
(***************************************************************************)
(* The safety of GameSettings: whatever the user, the running game, failed *)
(* round trips and crashes do to the jobs of the coordinator, the user's   *)
(* own selections survive and the right game's profiles are applied.       *)
(***************************************************************************)
EXTENDS GameSettings, SequenceTheorems, TLAPS

(***************************************************************************)
(* The inductive invariant.                                                *)
(***************************************************************************)
Applying == {"appliedCtl", "appliedRemap"}
Restoring == {"restoredCtl", "restoredRemap"}
RunTypes ==
    [pc : {"idle", "ensured", "removing"} \cup Applying \cup Restoring,
     goal : Games \cup {None}, remapToo : BOOLEAN]

(* The job at the head of the chain is of this kind.                       *)
Runs(kind) == chain # <<>> /\ Head(chain).kind = kind

(* Where the running job can stand, and on which job of the chain.         *)
ChainInv ==
    /\ run \in RunTypes
    /\ \A i \in 1..Len(chain) :
           chain[i].kind \in {"enter", "deleted"} => chain[i].game \in Games
    /\ \A i \in 2..Len(chain) : chain[i].kind # "recover"
    /\ run.pc # "idle" => chain # <<>>
RunInv ==
    /\ run.pc = "removing" => Runs("deleted") /\ applied # Head(chain).game
    /\ run.pc = "ensured" => Runs("enter")
    /\ run.pc \in Applying =>
           /\ ~Runs("recover") /\ run.goal \in Games
           /\ Runs("deleted") => run.goal # Head(chain).game
    /\ Runs("recover") => applied = None /\ run.pc \in {"idle"} \cup Restoring

(* No list has the profile of a deleted game selected.                     *)
OwnInv == \A l \in Lists : selected[l] \in Games => selected[l] \in owned[l]

(* The game whose profile the coordinator has selected in a list.          *)
Held(l) ==
    IF run.pc = "appliedRemap" \/ (run.pc = "appliedCtl" /\ l = "ctl")
    THEN run.goal ELSE applied

(* Outside a recovery no other game's profile is selected, unless the      *)
(* selection to go back to was given up.                                   *)
ScopeInv ==
    \A l \in Lists :
        selected[l] \in Games
        => l \in lost \/ Runs("recover") \/ selected[l] = Held(l)

(* What the user selected is selected, or remembered in memory and on disk *)
(* alike.                                                                  *)
RestoreInv ==
    /\ disk = restore
    /\ restore # NoRestore =>
           \A l \in Lists : restore[l] \in UserIds \cap MayComeBack(l)
    /\ applied # None \/ run.pc \in Applying => restore # NoRestore
    /\ \A l \in Lists : selected[l] \in UserIds => selected[l] \in MayComeBack(l)
    /\ \A l \in Lists : selected[l] \in Games => restore # NoRestore

(* What a restoring job has put back already.                              *)
BackInv ==
    /\ run.pc \in Restoring => selected["ctl"] \notin Games
    /\ run.pc = "restoredCtl" =>
           restore # NoRestore /\ (~run.remapToo => selected["remap"] \notin Games)
    /\ run.pc = "restoredRemap" => selected["remap"] \notin Games

(* Without rejections a restore point is kept only for a job to come.      *)
RejectInv ==
    rejects = 0 /\ applied = None /\ restore # NoRestore
    => Runs("recover") \/ run.pc \in Applying \cup Restoring

(* Unless a job that applies the target anew is queued behind it, the      *)
(* running job leaves the target applied.                                  *)
Waits(first) ==
    \E i \in first..Len(chain) : chain[i].kind \in {"enter", "sync"}
Resyncs == Waits(IF run.pc = "idle" THEN 1 ELSE 2)
ConvergeInv ==
    rejects = 0 /\ ~Resyncs =>
        /\ run.pc \in {"idle", "removing"} => applied = Target
        /\ run.pc \in Applying => run.goal = Target
        /\ run.pc \in Restoring => Target = None
        /\ Runs("deleted") /\ run.pc # "idle" => active # Head(chain).game

(* Where the user chose nothing else, the held game's profile is selected. *)
PickInv ==
    /\ \A l \in Lists, g \in Games : g \notin owned[l] => g \in picked[l]
    /\ rejects = 0 /\ run.pc \notin Restoring =>
           \A l \in Lists :
               Held(l) # None => Held(l) \in picked[l] \/ selected[l] = Held(l)

ShapeInv == TypeOK /\ ChainInv /\ RunInv
SelectInv == OwnInv /\ ScopeInv /\ RestoreInv /\ BackInv /\ RejectInv
GInv == ShapeInv /\ SelectInv /\ ConvergeInv /\ PickInv

(***************************************************************************)
(* The chain of jobs.                                                      *)
(***************************************************************************)
LEMMA ChainTypes ==
    ASSUME TypeOK, ChainInv
    PROVE  /\ chain \in Seq(Jobs) /\ Len(chain) \in Nat
           /\ run.pc \in {"idle", "ensured", "removing"} \cup Applying \cup Restoring
           /\ run.goal \in Games \cup {None} /\ run.remapToo \in BOOLEAN
           /\ chain # <<>> => /\ Len(chain) >= 1 /\ Head(chain) = chain[1]
                              /\ Head(chain) \in Jobs
BY DEF TypeOK, ChainInv, RunTypes

(* A job that is not one of those that apply anew heads the chain.         *)
LEMMA HeadWaits ==
    ASSUME TypeOK, ChainInv, chain # <<>>,
           Head(chain).kind \notin {"enter", "sync"}
    PROVE  Waits(1) <=> Waits(2)
BY ChainTypes DEF Waits

LEMMA TailChain ==
    ASSUME TypeOK, ChainInv, chain # <<>>, chain' = Tail(chain), run' = Idle
    PROVE  /\ chain' \in Seq(Jobs) /\ ChainInv' /\ run'.pc = "idle"
           /\ ~Runs("recover")'
           /\ Resyncs' <=> Waits(2)
<1>1. /\ chain \in Seq(Jobs) /\ Len(chain) \in Nat /\ Len(chain) >= 1
  BY ChainTypes
<1>2. /\ chain' \in Seq(Jobs) /\ Len(chain') = Len(chain) - 1
      /\ \A i \in 1..Len(chain') : chain'[i] = chain[i + 1]
  BY <1>1
<1>3. run'.pc = "idle" /\ run' \in RunTypes
  BY DEF Idle, RunTypes
<1>4. \A i \in 1..Len(chain') : /\ i + 1 \in 1..Len(chain)
                                /\ i + 1 \in 2..Len(chain)
  BY <1>1, <1>2
<1>5. ChainInv'
  BY <1>2, <1>3, <1>4 DEF ChainInv
<1>6. ~Runs("recover")'
  <2> SUFFICES ASSUME chain' # <<>> PROVE Head(chain').kind # "recover"
    BY DEF Runs
  <2>1. 1 \in 1..Len(chain') /\ Head(chain') = chain'[1]
    BY <1>2
  <2> QED
    BY <1>2, <1>4, <2>1 DEF ChainInv
<1>7. Resyncs' <=> Waits(2)
  <2>1. ASSUME NEW i \in 1..Len(chain'), chain'[i].kind \in {"enter", "sync"}
        PROVE  Waits(2)
    BY <1>2, <1>4, <2>1 DEF Waits
  <2>2. ASSUME NEW i \in 2..Len(chain), chain[i].kind \in {"enter", "sync"}
        PROVE  \E j \in 1..Len(chain') : chain'[j].kind \in {"enter", "sync"}
    <3>1. /\ i - 1 \in 1..Len(chain')
          /\ chain'[i - 1] = chain[(i - 1) + 1] /\ (i - 1) + 1 = i
      BY <1>1, <1>2
    <3> QED
      BY <2>2, <3>1
  <2> QED
    BY <1>3, <2>1, <2>2 DEF Resyncs, Waits
<1> QED
  BY <1>2, <1>3, <1>5, <1>6, <1>7

(* What a job leaves when it is done, the handler of a deletion apart.     *)
LEMMA DoneChain ==
    ASSUME TypeOK, ChainInv, chain # <<>>, Done
    PROVE  /\ chain' \in Seq(Jobs) /\ ChainInv' /\ ~Runs("recover")'
           /\ run'.pc \in {"idle", "removing"}
           /\ run'.pc = "removing" =>
                  /\ Runs("deleted") /\ Runs("deleted")'
                  /\ Head(chain') = Head(chain)
           /\ Resyncs' <=> Waits(2)
<1>1. CASE Head(chain).kind = "deleted"
  <2>1. /\ run' = [Idle EXCEPT !.pc = "removing"] /\ chain' = chain
    BY <1>1 DEF Done
  <2>2. run' \in RunTypes /\ run'.pc = "removing"
    BY <2>1 DEF Idle, RunTypes
  <2> QED
    BY <1>1, <2>1, <2>2, ChainTypes DEF ChainInv, Runs, Resyncs, Waits
<1>2. CASE Head(chain).kind # "deleted"
  BY <1>2, TailChain DEF Done, Ends
<1> QED
  BY <1>1, <1>2

LEMMA AwaitChain ==
    ASSUME TypeOK, ChainInv, chain # <<>>, NEW pc \in Applying \cup Restoring,
           NEW goal \in Games \cup {None}, NEW remapToo \in BOOLEAN,
           Await(pc, goal, remapToo)
    PROVE  /\ chain' = chain /\ ChainInv'
           /\ run'.pc = pc /\ run'.goal = goal /\ run'.remapToo = remapToo
           /\ Resyncs' <=> Waits(2)
<1>1. /\ chain' = chain
      /\ run' = [pc |-> pc, goal |-> goal, remapToo |-> remapToo]
  BY DEF Await
<1>2. run' \in RunTypes /\ run'.pc = pc /\ run'.goal = goal
      /\ run'.remapToo = remapToo
  BY <1>1 DEF RunTypes
<1> QED
  BY <1>1, <1>2 DEF ChainInv, Resyncs, Waits, Applying, Restoring

LEMMA AppendChain ==
    ASSUME TypeOK, ChainInv, NEW job \in Jobs, job.kind # "recover",
           job.kind \in {"enter", "deleted"} => job.game \in Games,
           Enqueue(job), run' = run
    PROVE  /\ chain' \in Seq(Jobs) /\ ChainInv'
           /\ chain' # <<>> /\ (chain # <<>> => Head(chain') = Head(chain))
           /\ chain = <<>> => Head(chain') = job
           /\ Resyncs => Resyncs'
           /\ job.kind \in {"enter", "sync"} => Resyncs'
           /\ \A kind : kind # job.kind => (Runs(kind)' <=> Runs(kind))
<1>1. /\ chain \in Seq(Jobs) /\ Len(chain) \in Nat
      /\ chain # <<>> => Len(chain) >= 1 /\ Head(chain) = chain[1]
  BY ChainTypes
<1>2. /\ chain' \in Seq(Jobs) /\ Len(chain') = Len(chain) + 1
      /\ \A i \in 1..Len(chain) : chain'[i] = chain[i]
      /\ chain'[Len(chain) + 1] = job
  BY <1>1 DEF Enqueue
<1>3. chain' # <<>> /\ Head(chain') = chain'[1] /\ Len(chain') \in Nat
  BY <1>1, <1>2
<1>4. /\ chain # <<>> => Head(chain') = Head(chain)
      /\ chain = <<>> => Head(chain') = job
  BY <1>1, <1>2, <1>3
<1>5. \A i \in 1..Len(chain') : i \in 1..Len(chain) \/ i = Len(chain) + 1
  BY <1>1, <1>2
<1>6. ChainInv'
  <2>1. \A i \in 1..Len(chain') :
            chain'[i].kind \in {"enter", "deleted"} => chain'[i].game \in Games
    BY <1>2, <1>5 DEF ChainInv
  <2>2. \A i \in 2..Len(chain') : chain'[i].kind # "recover"
    BY <1>1, <1>2, <1>5 DEF ChainInv
  <2> QED
    BY <1>3, <2>1, <2>2 DEF ChainInv
<1>7. /\ Resyncs => Resyncs'
      /\ job.kind \in {"enter", "sync"} => Resyncs'
  <2>1. \A first \in {1, 2} : Waits(first) => Waits(first)'
    BY <1>1, <1>2 DEF Waits
  <2>2. job.kind \in {"enter", "sync"} =>
            /\ Waits(1)'
            /\ chain # <<>> => Waits(2)'
    BY <1>1, <1>2 DEF Waits
  <2> QED
    BY <2>1, <2>2 DEF Resyncs, ChainInv
<1>8. \A kind : kind # job.kind => (Runs(kind)' <=> Runs(kind))
  BY <1>3, <1>4 DEF Runs
<1> QED
  BY <1>2, <1>3, <1>4, <1>6, <1>7, <1>8

(***************************************************************************)
(* A selection of the coordinator.                                         *)
(***************************************************************************)
LEMMA SelectFacts ==
    ASSUME TypeOK, NEW list \in Lists, NEW id \in Ids, Select(list, id)
    PROVE  /\ selected' \in [Lists -> Ids] /\ picked' \in [Lists -> SUBSET Games]
           /\ lost' \subseteq Lists
           /\ \A l \in Lists \ {list} :
                  selected'[l] = selected[l] /\ picked'[l] = picked[l]
           /\ lost \subseteq lost' /\ lost' \subseteq lost \cup {list}
           /\ id \in UserIds =>
                  selected'[list] = id /\ picked' = picked /\ lost' = lost
           /\ id \in Games /\ id \in owned[list] => selected'[list] = id
           /\ id \in Games /\ id \notin owned[list] =>
                  /\ selected'[list] = Default /\ list \in lost'
                  /\ picked' = picked
<1>1. /\ selected \in [Lists -> Ids] /\ picked \in [Lists -> SUBSET Games]
      /\ lost \subseteq Lists /\ owned \in [Lists -> SUBSET Games]
      /\ Games \cap UserIds = {} /\ Default \in UserIds
  BY GameSettingsAssumption DEF TypeOK
<1> DEFINE to == Resolved(list, id)
<1>2. /\ to \in Ids
      /\ id \in UserIds => to = id
      /\ id \in Games /\ id \in owned[list] => to = id
      /\ id \in Games /\ id \notin owned[list] => to = Default
      /\ to \in Games => to = id
  BY <1>1 DEF Resolved, Ids
<1>3. /\ selected' = [selected EXCEPT ![list] = to]
      /\ picked' = [picked EXCEPT ![list] = picked[list] \ {to}]
      /\ lost' = IF id \in Games /\ to = Default THEN lost \cup {list} ELSE lost
  BY DEF Select
<1> HIDE DEF to
<1>4. /\ selected'[list] = to /\ picked'[list] = picked[list] \ {to}
      /\ \A l \in Lists \ {list} :
             selected'[l] = selected[l] /\ picked'[l] = picked[l]
      /\ selected' \in [Lists -> Ids] /\ picked' \in [Lists -> SUBSET Games]
  BY <1>1, <1>2, <1>3
<1>5. to \notin Games => picked' = picked
  BY <1>1, <1>3
<1> QED
  BY <1>1, <1>2, <1>3, <1>4, <1>5

(***************************************************************************)
(* The end of a restoration: no game's profile is selected any more.       *)
(***************************************************************************)
(* What holds of a job that brings the target to None.                     *)
TargetGone ==
    rejects = 0 /\ ~Waits(2) =>
        Target' = None /\ (Runs("deleted") => active' # Head(chain).game)

LEMMA EndRestoreKeeps ==
    ASSUME GInv, TypeOK', EndRestore, chain # <<>>,
           \A l \in Lists : selected[l] \notin Games, TargetGone,
           UNCHANGED <<selected, owned, chosen, picked, lost, rejects>>
    PROVE  GInv'
<1>1. TypeOK /\ ChainInv /\ RunInv /\ RestoreInv /\ PickInv
  BY DEF GInv, ShapeInv, SelectInv
<1>2. /\ restore' = NoRestore /\ disk' = NoRestore /\ applied' = None /\ Done
  BY DEF EndRestore
<1>3. /\ chain' \in Seq(Jobs) /\ ChainInv' /\ ~Runs("recover")'
      /\ run'.pc \in {"idle", "removing"}
      /\ run'.pc = "removing" => /\ Runs("deleted") /\ Runs("deleted")'
                                 /\ Head(chain') = Head(chain)
      /\ Resyncs' <=> Waits(2)
  BY <1>1, <1>2, DoneChain
<1>4. RunInv'
  <2>1. run'.pc = "removing" => applied' # Head(chain').game
    <3>1. Runs("deleted") => Head(chain).game \in Games
      BY <1>1, ChainTypes DEF Runs, ChainInv
    <3> QED
      BY <1>2, <1>3, <3>1, GameSettingsAssumption
  <2> QED
    BY <1>3, <2>1 DEF RunInv, Applying
<1>5. /\ run'.pc \notin Applying \cup Restoring
  BY <1>3 DEF Applying, Restoring
<1>6. SelectInv'
  <2>1. \A l \in Lists : selected'[l] \notin Games
    OBVIOUS
  <2>2. OwnInv' /\ ScopeInv' /\ BackInv' /\ RejectInv'
    BY <1>2, <1>5, <2>1
    DEF OwnInv, ScopeInv, BackInv, RejectInv, Restoring
  <2>3. RestoreInv'
    BY <1>1, <1>2, <1>5, <2>1 DEF RestoreInv, MayComeBack
  <2> QED
    BY <2>2, <2>3 DEF SelectInv
<1>7. ConvergeInv'
  <2>1. Runs("deleted")' /\ run'.pc # "idle" =>
            Runs("deleted") /\ Head(chain') = Head(chain)
    BY <1>3
  <2> QED
    BY <1>2, <1>3, <1>5, <2>1 DEF ConvergeInv, TargetGone
<1>8. PickInv'
  BY <1>1, <1>2, <1>5 DEF PickInv, Held, Applying
<1> QED
  BY <1>3, <1>4, <1>6, <1>7, <1>8 DEF GInv, ShapeInv

(* The remembered selection of the remap list is put back.                 *)
LEMMA RestoreRemapKeeps ==
    ASSUME GInv, TypeOK', RestoreRemap, chain # <<>>, restore # NoRestore,
           selected["ctl"] \notin Games, TargetGone,
           UNCHANGED <<owned, chosen, rejects>>
    PROVE  GInv'
<1>1. TypeOK /\ ChainInv /\ RunInv /\ OwnInv /\ RestoreInv /\ PickInv
  BY DEF GInv, ShapeInv, SelectInv
<1>2. /\ Select("remap", restore["remap"])
      /\ Await("restoredRemap", None, FALSE)
      /\ UNCHANGED <<restore, disk, applied>>
  BY DEF RestoreRemap
<1>3. restore["remap"] \in UserIds \cap MayComeBack("remap")
  BY <1>1 DEF RestoreInv, Lists
<1>4. /\ chain' = chain /\ ChainInv' /\ run'.pc = "restoredRemap"
      /\ Resyncs' <=> Waits(2)
  BY <1>1, <1>2, AwaitChain DEF Applying, Restoring
<1>5. /\ selected'["ctl"] = selected["ctl"]
      /\ selected'["remap"] = restore["remap"]
      /\ picked' = picked /\ lost' = lost
  BY <1>1, <1>2, <1>3, SelectFacts DEF Lists, Ids
<1>6. RunInv'
  BY <1>1, <1>2, <1>4 DEF RunInv, Runs, Applying, Restoring
<1>7. SelectInv'
  <2>1. \A l \in Lists : selected'[l] \notin Games
    BY <1>3, <1>5, GameSettingsAssumption DEF Lists
  <2>2. OwnInv' /\ ScopeInv' /\ BackInv' /\ RejectInv'
    BY <1>4, <2>1, <1>2
    DEF OwnInv, ScopeInv, BackInv, RejectInv, Restoring, Lists
  <2>3. RestoreInv'
    BY <1>1, <1>2, <1>3, <1>4, <1>5, <2>1
    DEF RestoreInv, MayComeBack, Lists
  <2> QED
    BY <2>2, <2>3 DEF SelectInv
<1>8. ConvergeInv'
  BY <1>4 DEF ConvergeInv, TargetGone, Applying, Restoring, Runs
<1>9. PickInv'
  BY <1>1, <1>4, <1>5 DEF PickInv, Restoring
<1> QED
  BY <1>4, <1>6, <1>7, <1>8, <1>9 DEF GInv, ShapeInv

LEMMA BeginRestoreKeeps ==
    ASSUME GInv, TypeOK', BeginRestore, chain # <<>>,
           run.pc \in {"idle", "ensured"}, TargetGone,
           UNCHANGED <<owned, chosen, rejects>>
    PROVE  GInv'
<1>1. TypeOK /\ ChainInv /\ RunInv /\ OwnInv /\ RestoreInv /\ PickInv /\ ScopeInv
  BY DEF GInv, ShapeInv, SelectInv
<1>2. CASE restore # NoRestore /\ selected["ctl"] \in Games
  <2> DEFINE both == selected["remap"] \in Games
  <2>1. /\ Select("ctl", restore["ctl"]) /\ Await("restoredCtl", None, both)
        /\ UNCHANGED <<restore, disk, applied>>
    BY <1>2 DEF BeginRestore
  <2>2. restore["ctl"] \in UserIds \cap MayComeBack("ctl")
    BY <1>1, <1>2 DEF RestoreInv, Lists
  <2> both \in BOOLEAN
    OBVIOUS
  <2> HIDE DEF both
  <2>3. /\ chain' = chain /\ ChainInv' /\ run'.pc = "restoredCtl"
        /\ run'.remapToo = both
        /\ Resyncs' <=> Waits(2)
    BY <1>1, <2>1, AwaitChain DEF Applying, Restoring
  <2>4. /\ selected'["ctl"] = restore["ctl"]
        /\ selected'["remap"] = selected["remap"]
        /\ picked' = picked /\ lost' = lost
    BY <1>1, <2>1, <2>2, SelectFacts DEF Lists, Ids
  <2>5. RunInv'
    BY <1>1, <2>1, <2>3 DEF RunInv, Runs, Applying, Restoring
  <2>6. SelectInv'
    <3>1. selected'["ctl"] \notin Games
      BY <2>2, <2>4, GameSettingsAssumption
    <3>2. OwnInv' /\ RejectInv'
      BY <1>1, <2>3, <2>4, <3>1 DEF OwnInv, RejectInv, Restoring, Lists
    <3>5. BackInv'
      <4>1. both = FALSE => selected'["remap"] \notin Games
        BY <2>4 DEF both
      <4>2. run'.remapToo = FALSE => selected'["remap"] \notin Games
        BY <2>3, <4>1
      <4>3. run'.remapToo \in BOOLEAN
        BY <2>3
      <4>4. run'.pc = "restoredCtl" /\ restore' # NoRestore
        BY <1>2, <2>1, <2>3
      <4> QED
        BY <3>1, <4>2, <4>3, <4>4 DEF BackInv
    <3>3. ScopeInv'
      <4>1. selected["remap"] \in Games =>
                "remap" \in lost \/ Runs("recover") \/ selected["remap"] = applied
        BY <1>1, <1>2 DEF ScopeInv, Held, Lists
      <4> QED
        BY <2>1, <2>3, <2>4, <3>1, <4>1 DEF ScopeInv, Held, Lists, Runs
    <3>4. RestoreInv'
      BY <1>1, <1>2, <2>1, <2>2, <2>3, <2>4, <3>1
      DEF RestoreInv, MayComeBack, Lists, Applying
    <3> QED
      BY <3>2, <3>3, <3>4, <3>5 DEF SelectInv
  <2>7. ConvergeInv'
    BY <2>3 DEF ConvergeInv, TargetGone, Applying, Restoring, Runs
  <2>8. PickInv'
    BY <1>1, <2>3, <2>4 DEF PickInv, Restoring
  <2> QED
    BY <2>3, <2>5, <2>6, <2>7, <2>8 DEF GInv, ShapeInv
<1>3. CASE restore # NoRestore /\ selected["ctl"] \notin Games
           /\ selected["remap"] \in Games
  <2>1. RestoreRemap
    BY <1>3 DEF BeginRestore
  <2> QED
    BY <1>3, <2>1, RestoreRemapKeeps
<1>4. CASE ~(restore # NoRestore /\ selected["ctl"] \in Games)
           /\ ~(restore # NoRestore /\ selected["ctl"] \notin Games
                /\ selected["remap"] \in Games)
  <2>1. EndRestore /\ UNCHANGED <<selected, picked, lost>>
    BY <1>4 DEF BeginRestore
  <2>2. \A l \in Lists : selected[l] \notin Games
    BY <1>1, <1>4 DEF RestoreInv, Lists
  <2> QED
    BY <2>1, <2>2, EndRestoreKeeps
<1> QED
  BY <1>2, <1>3, <1>4

(* A job that has nothing to select.                                       *)
LEMMA DoneKeeps ==
    ASSUME GInv, TypeOK', Done, chain # <<>>, run.pc \in {"idle", "ensured"},
           Runs("recover") => restore = NoRestore,
           Runs("deleted") => applied # Head(chain).game,
           rejects = 0 /\ ~Waits(2) =>
               applied = Target' /\ (Runs("deleted") => active' # Head(chain).game),
           UNCHANGED <<selected, owned, chosen, picked, lost, restore, disk,
                       applied, rejects>>
    PROVE  GInv'
<1>1. /\ TypeOK /\ ChainInv /\ RunInv /\ OwnInv /\ RestoreInv /\ PickInv
      /\ ScopeInv /\ RejectInv
  BY DEF GInv, ShapeInv, SelectInv
<1>2. /\ chain' \in Seq(Jobs) /\ ChainInv' /\ ~Runs("recover")'
      /\ run'.pc \in {"idle", "removing"}
      /\ run'.pc = "removing" => /\ Runs("deleted") /\ Runs("deleted")'
                                 /\ Head(chain') = Head(chain)
      /\ Resyncs' <=> Waits(2)
  BY <1>1, DoneChain
<1>3. /\ run'.pc \notin Applying \cup Restoring
      /\ run.pc \notin Applying \cup Restoring
  BY <1>2 DEF Applying, Restoring
<1>4. RunInv'
  BY <1>2, <1>3 DEF RunInv
<1>5. \A l : Held(l) = applied /\ Held(l)' = applied
  BY <1>3 DEF Held, Applying
<1>6. SelectInv'
  <2>1. OwnInv' /\ BackInv'
    BY <1>1, <1>3 DEF OwnInv, BackInv, Restoring
  <2>2. ScopeInv'
    BY <1>1, <1>5 DEF ScopeInv, RestoreInv
  <2>3. RestoreInv' /\ RejectInv'
    BY <1>1, <1>3 DEF RestoreInv, RejectInv, MayComeBack
  <2> QED
    BY <2>1, <2>2, <2>3 DEF SelectInv
<1>7. ConvergeInv'
  BY <1>2, <1>3 DEF ConvergeInv
<1>8. PickInv'
  BY <1>1, <1>3, <1>5 DEF PickInv
<1> QED
  BY <1>2, <1>4, <1>6, <1>7, <1>8 DEF GInv, ShapeInv

(***************************************************************************)
(* A game's profiles are selected, one list after the other.               *)
(***************************************************************************)
(* A restore point of the moment holds the user's own selections, or       *)
(* Default where they are lost.                                            *)
LEMMA CaptureFacts ==
    ASSUME GInv, run.pc \in {"idle", "ensured"}, ~Runs("recover")
    PROVE  \A l \in Lists : CaptureRestorePoint[l] \in UserIds \cap MayComeBack(l)
<1>1. TypeOK /\ RestoreInv /\ ScopeInv
  BY DEF GInv, ShapeInv, SelectInv
<1>2. CASE applied = None
  <2> SUFFICES ASSUME NEW l \in Lists
               PROVE  Sanitized(selected[l]) \in UserIds \cap MayComeBack(l)
    BY <1>2 DEF CaptureRestorePoint, SanitizedRestore
  <2>1. CASE selected[l] \in Games
    <3>1. l \in lost
      BY <1>1, <1>2, <2>1, GameSettingsAssumption DEF ScopeInv, Held
    <3> QED
      BY <2>1, <3>1, GameSettingsAssumption DEF Sanitized, MayComeBack
  <2>2. CASE selected[l] \notin Games
    <3>1. selected[l] \in UserIds
      BY <1>1, <2>2 DEF TypeOK, Ids
    <3> QED
      BY <1>1, <2>2, <3>1 DEF Sanitized, RestoreInv
  <2> QED
    BY <2>1, <2>2
<1>3. CASE applied # None
  BY <1>1, <1>3 DEF CaptureRestorePoint, RestoreInv
<1> QED
  BY <1>2, <1>3

(* A restore point of user ids is one.                                     *)
LEMMA UserIdsRestore ==
    ASSUME NEW r, \A l \in Lists : r[l] \in UserIds
    PROVE  r # NoRestore
BY GameSettingsAssumption DEF NoRestore, Lists

LEMMA BeginTargetKeeps ==
    ASSUME GInv, TypeOK', chain # <<>>, run.pc \in {"idle", "ensured"},
           ~Runs("recover"), NEW target \in Games, target = Target',
           Runs("deleted") =>
               target # Head(chain).game /\ active' # Head(chain).game,
           Persist(CaptureRestorePoint), Select("ctl", target),
           Await("appliedCtl", target, FALSE),
           UNCHANGED <<applied, owned, chosen, rejects>>
    PROVE  GInv'
<1>1. TypeOK /\ ChainInv /\ RunInv /\ OwnInv /\ RestoreInv /\ PickInv /\ ScopeInv
  BY DEF GInv, ShapeInv, SelectInv
<1>2. /\ chain' = chain /\ ChainInv' /\ run'.pc = "appliedCtl"
      /\ run'.goal = target
      /\ Resyncs' <=> Waits(2)
  BY <1>1, AwaitChain DEF Applying, Restoring
<1>3. /\ selected'["remap"] = selected["remap"]
      /\ picked'["remap"] = picked["remap"]
      /\ lost \subseteq lost'
      /\ target \in owned["ctl"] => selected'["ctl"] = target
      /\ target \notin owned["ctl"] =>
             /\ selected'["ctl"] = Default /\ "ctl" \in lost'
             /\ picked' = picked
  BY <1>1, SelectFacts DEF Lists, Ids
<1>4. /\ restore' = CaptureRestorePoint /\ disk' = restore'
      /\ \A l \in Lists : restore'[l] \in UserIds \cap MayComeBack(l)
      /\ restore' # NoRestore
  BY CaptureFacts, UserIdsRestore DEF Persist
<1>5. Default \notin Games /\ Default \in UserIds
  BY GameSettingsAssumption
<1>6. \A l \in Lists : MayComeBack(l) \subseteq MayComeBack(l)'
  BY <1>3 DEF MayComeBack
<1>7. RunInv'
  BY <1>1, <1>2 DEF RunInv, Runs, Applying, Restoring
<1>8. SelectInv'
  <2>1. OwnInv'
    BY <1>1, <1>3, <1>5 DEF OwnInv, Lists
  <2>2. ScopeInv'
    <3>1. selected["remap"] \in Games =>
              "remap" \in lost \/ selected["remap"] = applied
      BY <1>1 DEF ScopeInv, Held, Lists
    <3> QED
      BY <1>2, <1>3, <1>5, <3>1 DEF ScopeInv, Held, Lists
  <2>3. RestoreInv'
    <3>1. \A l \in Lists :
              selected'[l] \in UserIds => selected'[l] \in MayComeBack(l)'
      <4>1. selected'["remap"] \in UserIds =>
                selected'["remap"] \in MayComeBack("remap")'
        BY <1>1, <1>3, <1>6 DEF RestoreInv, Lists
      <4>2. selected'["ctl"] \in UserIds =>
                selected'["ctl"] \in MayComeBack("ctl")'
        BY <1>3, GameSettingsAssumption DEF MayComeBack
      <4> QED
        BY <4>1, <4>2 DEF Lists
    <3> QED
      BY <1>4, <1>6, <3>1 DEF RestoreInv
  <2>4. BackInv' /\ RejectInv'
    BY <1>2 DEF BackInv, RejectInv, Applying, Restoring
  <2> QED
    BY <2>1, <2>2, <2>3, <2>4 DEF SelectInv
<1>9. ConvergeInv'
  BY <1>2 DEF ConvergeInv, Applying, Restoring, Runs
<1>10. PickInv'
  <2>1. \A l \in Lists, g \in Games : g \notin owned'[l] => g \in picked'[l]
    <3>1. \A g \in Games : g \notin owned["ctl"] => g \in picked'["ctl"]
      <4>1. CASE target \in owned["ctl"]
        <5>1. \A g \in Games : g # target /\ g \in picked["ctl"]
                               => g \in picked'["ctl"]
          BY <1>1, <4>1 DEF Select, Resolved, TypeOK, Lists
        <5> QED
          BY <1>1, <4>1, <5>1 DEF PickInv, Lists
      <4>2. CASE target \notin owned["ctl"]
        BY <1>1, <1>3, <4>2 DEF PickInv, Lists
      <4> QED
        BY <4>1, <4>2
    <3> QED
      BY <1>1, <1>3, <3>1 DEF PickInv, Lists
  <2>2. ASSUME rejects = 0, NEW l \in Lists, Held(l)' # None
        PROVE  Held(l)' \in picked'[l] \/ selected'[l] = Held(l)'
    <3>1. CASE l = "ctl"
      BY <1>1, <1>2, <1>3, <3>1 DEF Held, PickInv, Lists
    <3>2. CASE l = "remap"
      BY <1>1, <1>2, <1>3, <2>2, <3>2 DEF Held, PickInv, Lists, Restoring
    <3> QED
      BY <3>1, <3>2 DEF Lists
  <2> QED
    BY <2>1, <2>2 DEF PickInv
<1> QED
  BY <1>2, <1>7, <1>8, <1>9, <1>10 DEF GInv, ShapeInv

(* applyTarget, from a job that is not a recovery.                         *)
LEMMA BeginApplyKeeps ==
    ASSUME GInv, TypeOK', NEW ed, NEW act, BeginApply(ed, act),
           editing' = ed, active' = act, chain # <<>>,
           run.pc \in {"idle", "ensured"}, ~Runs("recover"),
           Runs("deleted") => ed # Head(chain).game /\ act # Head(chain).game,
           UNCHANGED <<owned, chosen, rejects>>
    PROVE  GInv'
<1> DEFINE target == TargetOf(ed, act, owned)
<1>1. TypeOK /\ ChainInv
  BY DEF GInv, ShapeInv
<1>2. target = Target' /\ target \in Games \cup {None}
  BY DEF Target, TargetOf, TypeOK
<1>3. Runs("deleted") => target # Head(chain).game
  <2>1. Runs("deleted") => Head(chain).game \in Games
    BY <1>1, ChainTypes DEF Runs, ChainInv
  <2> QED
    BY <2>1, GameSettingsAssumption DEF TargetOf
<1>4. CASE target = applied
  <2>1. Done /\ UNCHANGED <<selected, picked, lost, restore, disk, applied>>
    BY <1>4 DEF BeginApply
  <2> QED
    BY <1>2, <1>3, <1>4, <2>1, DoneKeeps
<1>5. CASE target # applied /\ target # None
  <2>1. /\ Persist(CaptureRestorePoint) /\ Select("ctl", target)
        /\ Await("appliedCtl", target, FALSE) /\ UNCHANGED applied
    BY <1>5 DEF BeginApply
  <2> HIDE DEF target
  <2> QED
    BY <1>2, <1>3, <1>5, <2>1, BeginTargetKeeps
<1>6. CASE target # applied /\ target = None
  <2>1. BeginRestore
    BY <1>6 DEF BeginApply
  <2>2. TargetGone
    BY <1>2, <1>6 DEF TargetGone
  <2> QED
    BY <2>1, <2>2, BeginRestoreKeeps
<1> QED
  BY <1>4, <1>5, <1>6

(***************************************************************************)
(* The steps of the running job.                                           *)
(***************************************************************************)
LEMMA RecoverKeeps ==
    ASSUME GInv, TypeOK', RunRecover
    PROVE  GInv'
<1>1. /\ Runs("recover") /\ run.pc = "idle" /\ chain # <<>>
      /\ UNCHANGED <<active, editing, owned, chosen, rejects>>
  BY DEF RunRecover, Starting, Runs, bounds
<1>2. /\ TypeOK /\ ChainInv /\ RunInv /\ ConvergeInv /\ applied = None
  BY <1>1 DEF GInv, ShapeInv, RunInv
<1>3. ~Runs("deleted")
  BY <1>1 DEF Runs
<1>4. Resyncs <=> Waits(2)
  BY <1>1, <1>2, HeadWaits DEF Resyncs, Runs
<1>5. Target' = Target
  BY <1>1 DEF Target
<1>6. rejects = 0 /\ ~Waits(2) => Target' = None
  BY <1>1, <1>2, <1>4, <1>5 DEF ConvergeInv
<1>7. CASE restore # NoRestore
  <2>1. BeginRestore
    BY <1>2, <1>7 DEF RunRecover
  <2> QED
    BY <1>1, <1>3, <1>6, <2>1, BeginRestoreKeeps DEF TargetGone
<1>8. CASE restore = NoRestore
  <2>1. Done /\ UNCHANGED <<selected, picked, lost, restore, disk, applied>>
    BY <1>2, <1>8 DEF RunRecover
  <2> QED
    BY <1>1, <1>2, <1>3, <1>6, <1>8, <2>1, DoneKeeps
<1> QED
  BY <1>7, <1>8

LEMMA SyncKeeps ==
    ASSUME GInv, TypeOK', RunSync \/ RunEnsured
    PROVE  GInv'
<1>1. /\ BeginApply(editing, active)
      /\ UNCHANGED <<active, editing, owned, chosen, rejects>>
      /\ run.pc \in {"idle", "ensured"}
  BY DEF RunSync, RunEnsured, Starting, bounds
<1>2. /\ chain # <<>> /\ ~Runs("recover") /\ ~Runs("deleted")
  BY DEF GInv, ShapeInv, RunInv, ChainInv, RunSync, RunEnsured, Starting, Runs
<1> QED
  BY <1>1, <1>2, BeginApplyKeeps

LEMMA DeletedKeeps ==
    ASSUME GInv, TypeOK', RunDeleted
    PROVE  GInv'
<1> DEFINE g == Head(chain).game
           ed == IF editing = g THEN None ELSE editing
           act == IF active = g THEN None ELSE active
<1>1. /\ Runs("deleted") /\ run.pc = "idle" /\ chain # <<>>
      /\ editing' = ed /\ active' = act
      /\ UNCHANGED <<owned, chosen, rejects>>
  BY DEF RunDeleted, Starting, Runs, bounds
<1>2. TypeOK /\ ChainInv /\ ConvergeInv
  BY DEF GInv, ShapeInv
<1>3. g \in Games
  BY <1>1, <1>2, ChainTypes DEF Runs, ChainInv
<1>4. ed # g /\ act # g
  BY <1>3, GameSettingsAssumption
<1>5. ~Runs("recover")
  BY <1>1 DEF Runs
<1>6. CASE <<ed, act>> # <<editing, active>> \/ applied = g
  <2>1. BeginApply(ed, act)
    BY <1>6 DEF RunDeleted
  <2> HIDE DEF g, ed, act
  <2>2. Runs("deleted") => ed # Head(chain).game /\ act # Head(chain).game
    BY <1>4 DEF g
  <2> QED
    BY <1>1, <1>5, <2>1, <2>2, BeginApplyKeeps
<1>7. CASE ed = editing /\ act = active /\ applied # g
  <2>1. Done /\ UNCHANGED <<selected, picked, lost, restore, disk, applied>>
    BY <1>7 DEF RunDeleted
  <2>2. Resyncs <=> Waits(2)
    BY <1>1, <1>2, HeadWaits DEF Resyncs, Runs
  <2>3. Target' = Target
    BY <1>1, <1>7 DEF Target
  <2>4. rejects = 0 /\ ~Waits(2) => applied = Target'
    BY <1>1, <1>2, <2>2, <2>3 DEF ConvergeInv
  <2>5. active' # Head(chain).game /\ applied # Head(chain).game
    BY <1>1, <1>4, <1>7
  <2> HIDE DEF g, ed, act
  <2> QED
    BY <1>1, <1>5, <2>1, <2>4, <2>5, DoneKeeps
<1> QED
  BY <1>6, <1>7

(* The enter job makes the game's profiles before it applies them.         *)
LEMMA EnterKeeps ==
    ASSUME GInv, TypeOK', RunEnter
    PROVE  GInv'
<1>1. /\ TypeOK /\ ChainInv /\ RunInv /\ SelectInv /\ PickInv
  BY DEF GInv, ShapeInv
<1>2. /\ Runs("enter") /\ run.pc = "idle" /\ chain # <<>>
      /\ \A l \in Lists : owned[l] \subseteq owned'[l]
      /\ run' = [pc |-> "ensured", goal |-> None, remapToo |-> FALSE]
      /\ chain' = chain
      /\ UNCHANGED <<active, editing, applied, restore, selected, disk, chosen,
                     picked, lost, rejects>>
  BY DEF RunEnter, Starting, Runs, Await, history, bounds
<1>3. run'.pc = "ensured" /\ run' \in RunTypes
  BY <1>2 DEF RunTypes
<1>4. ChainInv' /\ RunInv'
  BY <1>1, <1>2, <1>3 DEF ChainInv, RunInv, Runs, Applying
<1>5. \A l \in Lists : Held(l)' = applied /\ Held(l) = applied
  BY <1>2, <1>3 DEF Held
<1>6. SelectInv'
  <2>1. OwnInv' /\ BackInv' /\ RestoreInv'
    BY <1>1, <1>2, <1>3
    DEF SelectInv, OwnInv, BackInv, RestoreInv, MayComeBack, Applying, Restoring
  <2>2. ScopeInv' /\ RejectInv'
    BY <1>1, <1>2, <1>3, <1>5
    DEF SelectInv, ScopeInv, RejectInv, Runs, Applying, Restoring
  <2> QED
    BY <2>1, <2>2 DEF SelectInv
<1>7. ConvergeInv'
  BY <1>2, <1>3 DEF ConvergeInv, Runs, Applying, Restoring
<1>8. PickInv'
  BY <1>1, <1>2, <1>3, <1>5 DEF PickInv, Restoring
<1> QED
  BY <1>4, <1>6, <1>7, <1>8 DEF GInv, ShapeInv

(* The remap list follows the controller list.                             *)
LEMMA AppliedCtlKeeps ==
    ASSUME GInv, TypeOK', AppliedCtl
    PROVE  GInv'
<1> DEFINE goal == run.goal
<1>1. /\ TypeOK /\ ChainInv /\ RunInv /\ OwnInv /\ RestoreInv /\ PickInv
      /\ ScopeInv /\ ConvergeInv
  BY DEF GInv, ShapeInv, SelectInv
<1>2. /\ run.pc = "appliedCtl" /\ Select("remap", goal)
      /\ Await("appliedRemap", goal, FALSE)
      /\ UNCHANGED <<active, editing, applied, restore, owned, disk, chosen,
                     rejects>>
  BY DEF AppliedCtl, bounds
<1>3. goal \in Games /\ chain # <<>> /\ ~Runs("recover")
  BY <1>1, <1>2 DEF RunInv, ChainInv, Applying
<1>4. /\ chain' = chain /\ ChainInv' /\ run'.pc = "appliedRemap"
      /\ run'.goal = goal
      /\ Resyncs' <=> Waits(2)
  <2> HIDE DEF goal
  <2> QED
    BY <1>1, <1>2, <1>3, AwaitChain DEF Applying, Restoring
<1>5. Resyncs <=> Waits(2)
  BY <1>2 DEF Resyncs
<1>6. /\ selected'["ctl"] = selected["ctl"] /\ picked'["ctl"] = picked["ctl"]
      /\ lost \subseteq lost'
      /\ goal \in owned["remap"] => selected'["remap"] = goal
      /\ goal \notin owned["remap"] =>
             /\ selected'["remap"] = Default /\ "remap" \in lost'
             /\ picked' = picked
  BY <1>1, <1>2, <1>3, SelectFacts DEF Lists, Ids
<1> HIDE DEF goal
<1>7. Default \notin Games /\ Default \in UserIds
  BY GameSettingsAssumption
<1>8. \A l \in Lists : MayComeBack(l) \subseteq MayComeBack(l)'
  BY <1>2, <1>6 DEF MayComeBack
<1>9. RunInv'
  BY <1>1, <1>2, <1>3, <1>4 DEF RunInv, Runs, Applying, goal
<1>10. SelectInv'
  <2>1. OwnInv'
    BY <1>1, <1>2, <1>6, <1>7 DEF OwnInv, Lists
  <2>2. ScopeInv'
    <3>1. selected["ctl"] \in Games => "ctl" \in lost \/ selected["ctl"] = goal
      BY <1>1, <1>2, <1>3 DEF ScopeInv, Held, Lists, goal
    <3> QED
      BY <1>4, <1>6, <1>7, <3>1 DEF ScopeInv, Held, Lists
  <2>3. RestoreInv'
    <3>1. \A l \in Lists :
              selected'[l] \in UserIds => selected'[l] \in MayComeBack(l)'
      <4>1. selected'["ctl"] \in UserIds =>
                selected'["ctl"] \in MayComeBack("ctl")'
        BY <1>1, <1>6, <1>8 DEF RestoreInv, Lists
      <4>2. selected'["remap"] \in UserIds =>
                selected'["remap"] \in MayComeBack("remap")'
        BY <1>3, <1>6, GameSettingsAssumption DEF MayComeBack
      <4> QED
        BY <4>1, <4>2 DEF Lists
    <3>2. restore # NoRestore
      BY <1>1, <1>2 DEF RestoreInv, Applying
    <3> QED
      BY <1>1, <1>2, <1>8, <3>1, <3>2 DEF RestoreInv
  <2>4. BackInv' /\ RejectInv'
    BY <1>4 DEF BackInv, RejectInv, Applying, Restoring
  <2> QED
    BY <2>1, <2>2, <2>3, <2>4 DEF SelectInv
<1>11. ConvergeInv'
  <2>1. Target' = Target
    BY <1>2 DEF Target
  <2> QED
    BY <1>1, <1>2, <1>4, <1>5, <2>1
    DEF ConvergeInv, Applying, Restoring, Runs, goal
<1>12. PickInv'
  <2>1. \A l \in Lists, g \in Games : g \notin owned'[l] => g \in picked'[l]
    <3>1. \A g \in Games : g \notin owned["remap"] => g \in picked'["remap"]
      <4>1. CASE goal \in owned["remap"]
        <5>1. \A g \in Games : g # goal /\ g \in picked["remap"]
                               => g \in picked'["remap"]
          BY <1>1, <1>2, <4>1 DEF Select, Resolved, TypeOK, Lists
        <5> QED
          BY <1>1, <4>1, <5>1 DEF PickInv, Lists
      <4>2. CASE goal \notin owned["remap"]
        BY <1>1, <1>6, <4>2 DEF PickInv, Lists
      <4> QED
        BY <4>1, <4>2
    <3> QED
      BY <1>1, <1>2, <1>6, <3>1 DEF PickInv, Lists
  <2>2. ASSUME rejects = 0, NEW l \in Lists
        PROVE  goal \in picked'[l] \/ selected'[l] = goal
    <3>1. CASE l = "ctl"
      <4>1. Held("ctl") = goal /\ goal # None
        BY <1>2, <1>3, GameSettingsAssumption DEF Held, goal
      <4>2. goal \in picked["ctl"] \/ selected["ctl"] = goal
        BY <1>1, <1>2, <2>2, <4>1 DEF PickInv, Lists, Restoring
      <4> QED
        BY <1>6, <3>1, <4>2
    <3>2. CASE l = "remap"
      BY <1>1, <1>3, <1>6, <3>2 DEF PickInv, Lists
    <3> QED
      BY <3>1, <3>2 DEF Lists
  <2>3. \A l \in Lists : Held(l)' = goal
    BY <1>4 DEF Held
  <2> QED
    BY <1>2, <2>1, <2>2, <2>3 DEF PickInv
<1> QED
  BY <1>4, <1>9, <1>10, <1>11, <1>12 DEF GInv, ShapeInv

(* Both lists are selected: the goal is applied and the job is done.       *)
LEMMA AppliedRemapKeeps ==
    ASSUME GInv, TypeOK', AppliedRemap
    PROVE  GInv'
<1>1. /\ TypeOK /\ ChainInv /\ RunInv /\ OwnInv /\ RestoreInv /\ PickInv
      /\ ScopeInv /\ ConvergeInv
  BY DEF GInv, ShapeInv, SelectInv
<1>2. /\ run.pc = "appliedRemap" /\ applied' = run.goal /\ Done
      /\ UNCHANGED <<active, editing, restore, selected, owned, disk, chosen,
                     picked, lost, rejects>>
  BY DEF AppliedRemap, store, history, bounds
<1>3. run.goal \in Games /\ chain # <<>> /\ ~Runs("recover")
      /\ (Runs("deleted") => run.goal # Head(chain).game)
  BY <1>1, <1>2 DEF RunInv, ChainInv, Applying
<1>4. /\ chain' \in Seq(Jobs) /\ ChainInv' /\ ~Runs("recover")'
      /\ run'.pc \in {"idle", "removing"}
      /\ run'.pc = "removing" => /\ Runs("deleted") /\ Runs("deleted")'
                                 /\ Head(chain') = Head(chain)
      /\ Resyncs' <=> Waits(2)
  BY <1>1, <1>2, <1>3, DoneChain
<1>5. Resyncs <=> Waits(2)
  BY <1>2 DEF Resyncs
<1>6. run'.pc \notin Applying \cup Restoring
  BY <1>4 DEF Applying, Restoring
<1>7. \A l \in Lists : Held(l)' = run.goal /\ Held(l) = run.goal
  BY <1>2, <1>4 DEF Held
<1>8. restore # NoRestore /\ applied' # None
  BY <1>1, <1>2, <1>3, GameSettingsAssumption DEF RestoreInv, Applying
<1>9. RunInv'
  BY <1>2, <1>3, <1>4, <1>6 DEF RunInv
<1>10. SelectInv'
  <2>1. OwnInv' /\ BackInv' /\ RejectInv'
    BY <1>1, <1>2, <1>6, <1>8 DEF OwnInv, BackInv, RejectInv, Restoring
  <2>2. ScopeInv'
    BY <1>1, <1>2, <1>3, <1>7 DEF ScopeInv
  <2>3. RestoreInv'
    BY <1>1, <1>2, <1>8 DEF RestoreInv, MayComeBack
  <2> QED
    BY <2>1, <2>2, <2>3 DEF SelectInv
<1>11. ConvergeInv'
  <2>1. Target' = Target
    BY <1>2 DEF Target
  <2>2. Runs("deleted")' /\ run'.pc # "idle" =>
            Runs("deleted") /\ Head(chain') = Head(chain)
    BY <1>4
  <2> QED
    BY <1>1, <1>2, <1>4, <1>5, <1>6, <2>1, <2>2
    DEF ConvergeInv, Applying, Restoring
<1>12. PickInv'
  BY <1>1, <1>2, <1>6, <1>7 DEF PickInv, Restoring
<1> QED
  BY <1>4, <1>9, <1>10, <1>11, <1>12 DEF GInv, ShapeInv

LEMMA RestoredKeeps ==
    ASSUME GInv, TypeOK', RestoredCtl \/ RestoredRemap
    PROVE  GInv'
<1>1. /\ TypeOK /\ ChainInv /\ RunInv /\ BackInv /\ ConvergeInv
  BY DEF GInv, ShapeInv, SelectInv
<1>2. /\ run.pc \in Restoring /\ run.pc # "idle"
      /\ UNCHANGED <<active, editing, owned, chosen, rejects>>
  BY DEF RestoredCtl, RestoredRemap, Restoring, store, history, bounds
<1>3. chain # <<>> /\ selected["ctl"] \notin Games
  BY <1>1, <1>2 DEF ChainInv, BackInv
<1>4. TargetGone
  <2>1. Target' = Target
    BY <1>2 DEF Target
  <2> QED
    BY <1>1, <1>2, <2>1 DEF ConvergeInv, TargetGone, Resyncs
<1>5. CASE RestoredCtl /\ run.remapToo
  <2>1. RestoreRemap /\ restore # NoRestore
    BY <1>1, <1>5 DEF RestoredCtl, BackInv
  <2> QED
    BY <1>2, <1>3, <1>4, <2>1, RestoreRemapKeeps
<1>6. CASE RestoredRemap \/ (RestoredCtl /\ ~run.remapToo)
  <2>1. EndRestore /\ UNCHANGED <<selected, picked, lost>>
    BY <1>6 DEF RestoredCtl, RestoredRemap, store, history
  <2>2. selected["remap"] \notin Games
    BY <1>1, <1>6 DEF RestoredCtl, RestoredRemap, BackInv
  <2> QED
    BY <1>2, <1>3, <1>4, <2>1, <2>2, EndRestoreKeeps DEF Lists
<1> QED
  BY <1>5, <1>6

(* A failed round trip ends the job; nothing is promised of the lists then. *)
LEMMA RejectedKeeps ==
    ASSUME GInv, TypeOK', Rejected
    PROVE  GInv'
<1>1. /\ TypeOK /\ ChainInv /\ OwnInv /\ RestoreInv /\ PickInv
  BY DEF GInv, ShapeInv, SelectInv
<1>2. /\ Answered /\ Ends /\ lost' = Lists /\ rejects' = rejects + 1
      /\ UNCHANGED <<applied, restore, selected, owned, disk, chosen, picked>>
      /\ rejects \in Nat
  <2>1. rejects \in Nat
    BY DEF GInv, ShapeInv, TypeOK
  <2> QED
    BY <2>1 DEF Rejected, store
<1>3. chain # <<>> /\ chain' = Tail(chain) /\ run' = Idle /\ rejects' # 0
  BY <1>1, <1>2 DEF Answered, ChainInv, Ends
<1>4. ChainInv' /\ run'.pc = "idle" /\ ~Runs("recover")'
  BY <1>1, <1>3, TailChain
<1>5. RunInv' /\ BackInv' /\ RejectInv' /\ ConvergeInv'
  BY <1>3, <1>4
  DEF RunInv, BackInv, RejectInv, ConvergeInv, Applying, Restoring
<1>6. OwnInv' /\ ScopeInv' /\ PickInv'
  BY <1>1, <1>2, <1>3 DEF OwnInv, ScopeInv, PickInv
<1>7. RestoreInv'
  BY <1>1, <1>2, <1>4 DEF RestoreInv, MayComeBack, Applying, TypeOK
<1> QED
  BY <1>4, <1>5, <1>6, <1>7 DEF GInv, ShapeInv, SelectInv

(* The profiles of a deleted game go, and with them their selections.      *)
LEMMA RemoveKeeps ==
    ASSUME GInv, TypeOK', RemoveGameSettings
    PROVE  GInv'
<1> DEFINE g == Head(chain).game
<1>1. /\ TypeOK /\ ChainInv /\ RunInv /\ OwnInv /\ ScopeInv /\ RestoreInv
      /\ RejectInv /\ ConvergeInv /\ PickInv
  BY DEF GInv, ShapeInv, SelectInv
<1>2. /\ run.pc = "removing" /\ chain # <<>> /\ Runs("deleted") /\ applied # g
      /\ ~Runs("recover") /\ g \in Games
  <2>1. run.pc = "removing" /\ chain # <<>> /\ Runs("deleted") /\ applied # g
    BY <1>1 DEF RemoveGameSettings, RunInv, Runs
  <2> QED
    BY <1>1, <2>1, ChainTypes DEF Runs, ChainInv
<1>3. /\ \A l \in Lists : selected'[l] = IF selected[l] = g THEN Default ELSE selected[l]
      /\ \A l \in Lists : owned'[l] = owned[l] \ {g}
      /\ \A l \in Lists : picked'[l] = picked[l] \cup {g}
      /\ chain' = Tail(chain) /\ run' = Idle
      /\ UNCHANGED <<active, editing, applied, restore, disk, chosen, lost, rejects>>
  BY DEF RemoveGameSettings, Ends, bounds
<1>4. ChainInv' /\ run'.pc = "idle" /\ ~Runs("recover")' /\ (Resyncs' <=> Waits(2))
  BY <1>1, <1>2, <1>3, TailChain
<1>5. \A l \in Lists : Held(l) = applied /\ Held(l)' = applied
  BY <1>2, <1>3, <1>4 DEF Held
<1> HIDE DEF g
<1>6. Default \notin Games
  BY GameSettingsAssumption
<1>7. RunInv' /\ BackInv'
  BY <1>4 DEF RunInv, BackInv, Applying, Restoring
<1>8. OwnInv' /\ ScopeInv'
  BY <1>1, <1>2, <1>3, <1>5, <1>6 DEF OwnInv, ScopeInv
<1>9. RestoreInv'
  <2>1. ASSUME NEW l \in Lists, selected'[l] \in UserIds
        PROVE  selected'[l] \in MayComeBack(l)'
    <3>1. CASE selected[l] = g
      BY <1>1, <1>2, <1>3, <1>5, <3>1 DEF ScopeInv, MayComeBack
    <3>2. CASE selected[l] # g
      BY <1>1, <1>3, <2>1, <3>2 DEF RestoreInv, MayComeBack
    <3> QED
      BY <3>1, <3>2
  <2>2. \A l \in Lists : selected'[l] \in Games => restore # NoRestore
    BY <1>1, <1>3, <1>6 DEF RestoreInv
  <2> QED
    BY <1>1, <1>3, <1>4, <2>1, <2>2 DEF RestoreInv, MayComeBack, Applying
<1>10. RejectInv'
  BY <1>1, <1>2, <1>3 DEF RejectInv, Applying, Restoring
<1>11. ConvergeInv'
  <2>1. ASSUME rejects = 0, ~Resyncs'
        PROVE  applied = Target'
    <3>1. active # g /\ applied = Target
      BY <1>1, <1>2, <1>4, <2>1 DEF ConvergeInv, Resyncs, g
    <3>2. active \in Games => (active \in owned'["ctl"] <=> active \in owned["ctl"])
      BY <1>3, <3>1 DEF Lists
    <3>3. active \in Games \cup {None}
      BY <1>1 DEF TypeOK
    <3> QED
      BY <1>3, <3>1, <3>2, <3>3 DEF Target, TargetOf, HasGameSettings
  <2> QED
    BY <1>3, <1>4, <2>1 DEF ConvergeInv, Applying, Restoring
<1>12. PickInv'
  BY <1>1, <1>2, <1>3, <1>4, <1>5 DEF PickInv, Restoring
<1> QED
  BY <1>4, <1>7, <1>8, <1>9, <1>10, <1>11, <1>12 DEF GInv, ShapeInv, SelectInv

(***************************************************************************)
(* The engine, the user and crashes.                                       *)
(***************************************************************************)
LEMMA SameKeeps ==
    ASSUME GInv, TypeOK',
           UNCHANGED <<coordinator, store, disk, chosen, picked, lost, rejects>>
    PROVE  GInv'
<1>1. UNCHANGED <<active, editing, applied, restore, chain, run, selected, owned,
                  disk, chosen, picked, lost, rejects>>
  BY DEF coordinator, store
<1>2. ChainInv' /\ RunInv'
  BY <1>1 DEF GInv, ShapeInv, ChainInv, RunInv, Runs
<1>3. SelectInv'
  BY <1>1 DEF GInv, SelectInv, OwnInv, ScopeInv, RestoreInv, BackInv, RejectInv,
              MayComeBack, Held, Runs
<1>4. ConvergeInv' /\ PickInv'
  BY <1>1 DEF GInv, ConvergeInv, PickInv, Held, Runs, Resyncs, Waits, Target
<1> QED
  BY <1>2, <1>3, <1>4 DEF GInv, ShapeInv

(* A job queued behind those that wait disturbs none of them.              *)
LEMMA EnqueueKeeps ==
    ASSUME GInv, TypeOK', NEW job \in Jobs, job.kind # "recover",
           job.kind \in {"enter", "deleted"} => job.game \in Games,
           Enqueue(job), ConvergeInv',
           UNCHANGED <<applied, restore, run, selected, owned, disk, chosen,
                       picked, lost, rejects>>
    PROVE  GInv'
<1>1. /\ TypeOK /\ ChainInv /\ RunInv /\ SelectInv /\ PickInv
  BY DEF GInv, ShapeInv
<1>2. /\ ChainInv'
      /\ chain # <<>> => Head(chain') = Head(chain)
      /\ \A kind : kind # job.kind => (Runs(kind)' <=> Runs(kind))
      /\ chain' # <<>>
  BY <1>1, AppendChain
<1>3. run.pc # "idle" => Head(chain') = Head(chain)
                         /\ \A kind : Runs(kind)' <=> Runs(kind)
  BY <1>1, <1>2 DEF ChainInv, Runs
<1>4. Runs("recover")' <=> Runs("recover")
  BY <1>2
<1>5. RunInv'
  BY <1>1, <1>3, <1>4 DEF RunInv, Applying
<1>6. SelectInv' /\ PickInv'
  BY <1>1, <1>4 DEF SelectInv, OwnInv, ScopeInv, RestoreInv, BackInv, RejectInv,
                    MayComeBack, Held, PickInv
<1> QED
  BY <1>2, <1>5, <1>6 DEF GInv, ShapeInv

LEMMA ResyncKeeps ==
    ASSUME GInv, TypeOK', NEW job \in Jobs, job.kind \in {"enter", "sync"},
           job.kind = "enter" => job.game \in Games, Enqueue(job),
           UNCHANGED <<applied, restore, run, selected, owned, disk, chosen,
                       picked, lost, rejects>>
    PROVE  GInv'
<1>1. Resyncs'
  <2>1. TypeOK /\ ChainInv
    BY DEF GInv, ShapeInv
  <2> QED
    BY <2>1, AppendChain
<1>2. ConvergeInv'
  BY <1>1 DEF ConvergeInv
<1> QED
  BY <1>2, EnqueueKeeps

LEMMA StatusKeeps ==
    ASSUME GInv, TypeOK', EngineStatus
    PROVE  GInv'
<1>1. CASE watched = active
  BY <1>1, SameKeeps
  DEF EngineStatus, coordinator, store, history, bounds
<1>2. CASE watched # active
  <2>1. Job("sync", None) \in Jobs /\ Job("sync", None).kind = "sync"
    BY DEF Job, Jobs
  <2>2. Enqueue(Job("sync", None))
    BY <1>2 DEF EngineStatus
  <2>3. UNCHANGED <<applied, restore, run, selected, owned, disk, chosen,
                    picked, lost, rejects>>
    BY DEF EngineStatus, store, history, bounds
  <2> QED
    BY <2>1, <2>2, <2>3, ResyncKeeps
<1> QED
  BY <1>1, <1>2

LEMMA EditKeeps ==
    ASSUME GInv, TypeOK', ExitEditScope \/ \E g \in Games : EnterEditScope(g)
    PROVE  GInv'
<1>1. UNCHANGED <<applied, restore, run, selected, owned, disk, chosen,
                  picked, lost, rejects>>
  BY DEF ExitEditScope, EnterEditScope, Event, store, history
<1>2. CASE ExitEditScope
  <2>1. Job("sync", None) \in Jobs /\ Job("sync", None).kind = "sync"
    BY DEF Job, Jobs
  <2> QED
    BY <1>1, <1>2, <2>1, ResyncKeeps DEF ExitEditScope
<1>3. ASSUME NEW g \in Games, EnterEditScope(g)
      PROVE  GInv'
  <2>1. /\ Job("enter", g) \in Jobs /\ Job("enter", g).kind = "enter"
        /\ Job("enter", g).game = g
    BY DEF Job, Jobs
  <2> QED
    BY <1>1, <1>3, <2>1, ResyncKeeps DEF EnterEditScope
<1> QED
  BY <1>2, <1>3

LEMMA DeleteKeeps ==
    ASSUME GInv, TypeOK', NEW g \in Games, NEW keep \in BOOLEAN, DeleteGame(g, keep)
    PROVE  GInv'
<1> DEFINE job == Job("deleted", g)
<1>1. /\ Enqueue(job)
      /\ UNCHANGED <<active, editing, applied, restore, run, selected, owned, disk,
                     chosen, picked, lost, rejects>>
  BY DEF DeleteGame, Event, store
<1>2. job \in Jobs /\ job.kind = "deleted" /\ job.game = g
  BY DEF Job, Jobs
<1> HIDE DEF job
<1>3. TypeOK /\ ChainInv /\ ConvergeInv
  BY DEF GInv, ShapeInv
<1>4. /\ chain # <<>> => Head(chain') = Head(chain)
      /\ Resyncs => Resyncs'
      /\ chain' # <<>>
  BY <1>1, <1>2, <1>3, AppendChain
<1>5. run.pc # "idle" => Head(chain') = Head(chain)
                         /\ (Runs("deleted")' <=> Runs("deleted"))
  BY <1>3, <1>4 DEF ChainInv, Runs
<1>6. Target' = Target
  BY <1>1 DEF Target
<1>7. ConvergeInv'
  BY <1>1, <1>3, <1>4, <1>5, <1>6 DEF ConvergeInv
<1> QED
  BY <1>1, <1>2, <1>7, EnqueueKeeps

(* The user's own choice.                                                  *)
LEMMA PickKeeps ==
    ASSUME GInv, TypeOK', NEW list \in Lists, NEW id \in UserIds, Pick(list, id)
    PROVE  GInv'
<1>1. /\ TypeOK /\ ChainInv /\ RunInv /\ OwnInv /\ ScopeInv /\ RestoreInv /\ BackInv
      /\ RejectInv /\ ConvergeInv /\ PickInv
  BY DEF GInv, ShapeInv, SelectInv
<1>2. UNCHANGED <<active, editing, applied, restore, chain, run, owned, disk, rejects>>
  BY DEF Pick, Event, coordinator
<1>3. /\ selected'[list] = id /\ picked'[list] = Games /\ id \in chosen'[list]
      /\ \A l \in Lists \ {list} : /\ selected'[l] = selected[l]
                                   /\ picked'[l] = picked[l]
                                   /\ MayComeBack(l)' = MayComeBack(l)
      /\ Undisturbed \/ MayComeBack(list) \subseteq MayComeBack(list)'
      /\ lost \ {list} \subseteq lost'
  BY <1>1 DEF Pick, TypeOK, MayComeBack
<1>4. id \notin Games
  BY GameSettingsAssumption
<1>5. \A l \in Lists : Held(l)' = Held(l) /\ Held(l) \in Games \cup {None}
  BY <1>1, <1>2 DEF Held, TypeOK
<1>6. ChainInv' /\ RunInv'
  BY <1>1, <1>2 DEF ChainInv, RunInv, Runs
<1>7. OwnInv' /\ BackInv' /\ RejectInv' /\ ScopeInv'
  BY <1>1, <1>2, <1>3, <1>4, <1>5
  DEF OwnInv, BackInv, RejectInv, ScopeInv, Runs, Lists
<1>8. RestoreInv'
  <2>1. id \in MayComeBack(list)'
    BY <1>3 DEF MayComeBack
  <2>2. restore # NoRestore => \A l \in Lists : MayComeBack(l) \subseteq MayComeBack(l)'
    BY <1>3 DEF Undisturbed
  <2> QED
    BY <1>1, <1>2, <1>3, <1>4, <2>1, <2>2 DEF RestoreInv
<1>9. ConvergeInv'
  BY <1>1, <1>2 DEF ConvergeInv, Resyncs, Waits, Runs, Target
<1>10. PickInv'
  BY <1>1, <1>2, <1>3, <1>5 DEF PickInv
<1> QED
  BY <1>6, <1>7, <1>8, <1>9, <1>10 DEF GInv, ShapeInv, SelectInv

LEMMA DefaultsKeep ==
    ASSUME GInv, TypeOK', RestoreDefaults
    PROVE  GInv'
<1>1. /\ TypeOK /\ ChainInv /\ RunInv /\ RestoreInv /\ RejectInv /\ ConvergeInv
  BY DEF GInv, ShapeInv, SelectInv
<1>2. UNCHANGED <<active, editing, applied, restore, chain, run, disk, rejects>>
  BY DEF RestoreDefaults, Event, coordinator
<1>3. /\ \A l \in Lists : /\ selected'[l] = Default /\ picked'[l] = Games
                          /\ Default \in MayComeBack(l)'
      /\ Undisturbed \/ \A l \in Lists : MayComeBack(l) \subseteq MayComeBack(l)'
      /\ owned'["ctl"] = owned["ctl"]
  BY <1>1 DEF RestoreDefaults, TypeOK, MayComeBack, Lists
<1>4. Default \notin Games
  BY GameSettingsAssumption
<1>5. \A l \in Lists : Held(l)' = Held(l) /\ Held(l) \in Games \cup {None}
  BY <1>1, <1>2 DEF Held, TypeOK
<1>6. ChainInv' /\ RunInv'
  BY <1>1, <1>2 DEF ChainInv, RunInv, Runs
<1>7. OwnInv' /\ BackInv' /\ RejectInv' /\ ScopeInv'
  <2>1. BackInv'
    <3>1. BackInv
      BY DEF GInv, SelectInv
    <3> QED
      BY <1>2, <1>3, <1>4, <3>1 DEF BackInv, Lists
  <2> QED
    BY <1>1, <1>2, <1>3, <1>4, <2>1 DEF OwnInv, RejectInv, ScopeInv, Runs
<1>8. RestoreInv'
  <2>1. restore # NoRestore => \A l \in Lists : MayComeBack(l) \subseteq MayComeBack(l)'
    BY <1>3 DEF Undisturbed
  <2> QED
    BY <1>1, <1>2, <1>3, <1>4, <2>1 DEF RestoreInv
<1>9. ConvergeInv'
  <2>1. Target' = Target
    BY <1>2, <1>3 DEF Target, TargetOf, HasGameSettings
  <2> QED
    BY <1>1, <1>2, <2>1 DEF ConvergeInv, Resyncs, Waits, Runs
<1>10. PickInv'
  BY <1>3, <1>5 DEF PickInv
<1> QED
  BY <1>6, <1>7, <1>8, <1>9, <1>10 DEF GInv, ShapeInv, SelectInv

LEMMA SaveKeeps ==
    ASSUME GInv, TypeOK', NEW g \in Games, SaveGame(g)
    PROVE  GInv'
<1>1. /\ TypeOK /\ ChainInv /\ RunInv /\ SelectInv /\ ConvergeInv /\ PickInv
  BY DEF GInv, ShapeInv
<1>2. UNCHANGED <<active, editing, applied, restore, chain, run, selected, disk,
                  chosen, picked, lost, rejects>>
  BY DEF SaveGame, Event, coordinator, history
<1>3. /\ \A l \in Lists : owned[l] \subseteq owned'[l]
      /\ owned'["ctl"] = owned["ctl"]
  <2>1. CASE g \in owned["ctl"]
    BY <1>1, <2>1 DEF SaveGame, TypeOK, Lists
  <2>2. CASE g \notin owned["ctl"]
    BY <2>2 DEF SaveGame
  <2> QED
    BY <2>1, <2>2
<1>4. ChainInv' /\ RunInv'
  BY <1>1, <1>2 DEF ChainInv, RunInv, Runs
<1>5. SelectInv'
  BY <1>1, <1>2, <1>3 DEF SelectInv, OwnInv, ScopeInv, RestoreInv, BackInv,
                          RejectInv, MayComeBack, Held, Runs
<1>6. ConvergeInv'
  <2>1. Target' = Target
    BY <1>2, <1>3 DEF Target, TargetOf, HasGameSettings
  <2> QED
    BY <1>1, <1>2, <2>1 DEF ConvergeInv, Resyncs, Waits, Runs
<1>7. PickInv'
  BY <1>1, <1>2, <1>3 DEF PickInv, Held
<1> QED
  BY <1>4, <1>5, <1>6, <1>7 DEF GInv, ShapeInv

(* What the state file names is what the next start goes back to.          *)
LEMMA DiskRestore ==
    ASSUME TypeOK
    PROVE  SanitizedRestore(disk) = disk
BY GameSettingsAssumption DEF TypeOK, SanitizedRestore, Sanitized

LEMMA CrashKeeps ==
    ASSUME GInv, TypeOK', Crash
    PROVE  GInv'
<1>1. /\ TypeOK /\ SelectInv /\ PickInv /\ disk = restore
  BY DEF GInv, ShapeInv, SelectInv, RestoreInv
<1>2. /\ active' = None /\ editing' = None /\ applied' = None
      /\ chain' = <<Job("recover", None)>> /\ run' = Idle
      /\ UNCHANGED <<selected, owned, disk, chosen, picked, lost, rejects>>
  BY DEF Crash, store, history
<1>3. restore' = disk
  BY <1>1, DiskRestore DEF Crash
<1>4. /\ chain' # <<>> /\ Len(chain') = 1 /\ Head(chain') = chain'[1]
      /\ chain'[1].kind = "recover"
  BY <1>2 DEF Job
<1>5. Runs("recover")' /\ ~Runs("deleted")' /\ ~Resyncs'
  BY <1>2, <1>4 DEF Runs, Resyncs, Waits, Idle
<1>6. run' \in RunTypes /\ run'.pc = "idle"
  BY <1>2 DEF RunTypes, Idle
<1>7. ChainInv' /\ RunInv'
  BY <1>2, <1>4, <1>5, <1>6 DEF ChainInv, RunInv, Applying
<1>8. SelectInv'
  BY <1>1, <1>2, <1>3, <1>5, <1>6
  DEF SelectInv, OwnInv, ScopeInv, RestoreInv, BackInv, RejectInv, MayComeBack,
      Applying, Restoring
<1>9. ConvergeInv' /\ PickInv'
  BY <1>1, <1>2, <1>5, <1>6
  DEF ConvergeInv, PickInv, Held, Target, TargetOf, Applying, Restoring
<1> QED
  BY <1>7, <1>8, <1>9 DEF GInv, ShapeInv

(***************************************************************************)
(* The types.                                                              *)
(***************************************************************************)
(* What the steps of the coordinator leave of the types, the chain apart.  *)
ChainTypesKept == chain' \in Seq(Jobs) /\ run'.goal \in Games \cup {None}

LEMMA DoneTypes ==
    ASSUME TypeOK, ChainInv, chain # <<>>, Done
    PROVE  ChainTypesKept
<1>1. chain' \in Seq(Jobs) /\ ChainInv'
  BY DoneChain
<1> QED
  BY <1>1 DEF ChainInv, RunTypes, ChainTypesKept

LEMMA AwaitTypes ==
    ASSUME TypeOK, NEW pc, NEW goal \in Games \cup {None}, NEW remapToo,
           Await(pc, goal, remapToo)
    PROVE  ChainTypesKept
BY DEF TypeOK, Await, ChainTypesKept

(* The selections and what restores them.                                  *)
SelectTypes ==
    /\ selected' \in [Lists -> Ids] /\ picked' \in [Lists -> SUBSET Games]
    /\ lost' \subseteq Lists
    /\ restore' \in [Lists -> UserIds \cup {None}]
    /\ disk' \in [Lists -> UserIds \cup {None}]
    /\ applied' \in Games \cup {None}

LEMMA EndRestoreTypes ==
    ASSUME TypeOK, ChainInv, chain # <<>>, EndRestore,
           UNCHANGED <<selected, picked, lost>>
    PROVE  SelectTypes /\ ChainTypesKept
BY DoneTypes DEF EndRestore, TypeOK, SelectTypes, NoRestore

LEMMA RestoreRemapTypes ==
    ASSUME TypeOK, ChainInv, RestoreRemap, restore["remap"] \in UserIds
    PROVE  SelectTypes /\ ChainTypesKept
<1>1. /\ Select("remap", restore["remap"]) /\ Await("restoredRemap", None, FALSE)
      /\ UNCHANGED <<restore, disk, applied>>
  BY DEF RestoreRemap
<1>2. "remap" \in Lists /\ restore["remap"] \in Ids
  BY DEF Lists, Ids
<1>3. /\ selected' \in [Lists -> Ids] /\ picked' \in [Lists -> SUBSET Games]
      /\ lost' \subseteq Lists
  BY <1>1, <1>2, SelectFacts
<1>4. ChainTypesKept
  BY <1>1, AwaitTypes
<1> QED
  BY <1>1, <1>3, <1>4 DEF TypeOK, SelectTypes

LEMMA BeginRestoreTypes ==
    ASSUME GInv, BeginRestore, chain # <<>>
    PROVE  SelectTypes /\ ChainTypesKept
<1>1. TypeOK /\ ChainInv /\ RestoreInv
  BY DEF GInv, ShapeInv, SelectInv
<1>2. restore # NoRestore => \A l \in Lists : restore[l] \in UserIds
  BY <1>1 DEF RestoreInv
<1>3. CASE restore # NoRestore /\ selected["ctl"] \in Games
  <2> DEFINE remapToo == selected["remap"] \in Games
  <2>1. /\ Select("ctl", restore["ctl"]) /\ Await("restoredCtl", None, remapToo)
        /\ UNCHANGED <<restore, disk, applied>>
    BY <1>3 DEF BeginRestore
  <2> HIDE DEF remapToo
  <2>2. "ctl" \in Lists /\ restore["ctl"] \in Ids
    BY <1>2, <1>3 DEF Lists, Ids
  <2>3. /\ selected' \in [Lists -> Ids] /\ picked' \in [Lists -> SUBSET Games]
        /\ lost' \subseteq Lists
    BY <1>1, <2>1, <2>2, SelectFacts
  <2>4. ChainTypesKept
    BY <1>1, <2>1, AwaitTypes
  <2> QED
    BY <1>1, <2>1, <2>3, <2>4 DEF TypeOK, SelectTypes
<1>4. CASE /\ restore # NoRestore /\ selected["ctl"] \notin Games
           /\ selected["remap"] \in Games
  <2>1. RestoreRemap
    BY <1>4 DEF BeginRestore
  <2> QED
    BY <1>1, <1>2, <1>4, <2>1, RestoreRemapTypes DEF Lists
<1>5. CASE /\ ~(restore # NoRestore /\ selected["ctl"] \in Games)
           /\ ~(/\ restore # NoRestore /\ selected["ctl"] \notin Games
                /\ selected["remap"] \in Games)
  <2>1. EndRestore /\ UNCHANGED <<selected, picked, lost>>
    BY <1>5 DEF BeginRestore
  <2> QED
    BY <1>1, <2>1, EndRestoreTypes
<1> QED
  BY <1>3, <1>4, <1>5

LEMMA BeginApplyTypes ==
    ASSUME GInv, NEW ed \in Games \cup {None}, NEW act \in Games \cup {None},
           BeginApply(ed, act), chain # <<>>
    PROVE  SelectTypes /\ ChainTypesKept
<1> DEFINE target == TargetOf(ed, act, owned)
<1>1. TypeOK /\ ChainInv /\ RestoreInv
  BY DEF GInv, ShapeInv, SelectInv
<1>2. target \in Games \cup {None}
  BY DEF TargetOf
<1>3. CASE target = applied
  <2>1. Done /\ UNCHANGED <<selected, picked, lost, restore, disk, applied>>
    BY <1>3 DEF BeginApply
  <2> HIDE DEF target
  <2> QED
    BY <1>1, <2>1, DoneTypes DEF TypeOK, SelectTypes
<1>4. CASE target # applied /\ target # None
  <2>1. /\ Persist(CaptureRestorePoint) /\ Select("ctl", target)
        /\ Await("appliedCtl", target, FALSE) /\ UNCHANGED applied
    BY <1>4 DEF BeginApply
  <2> HIDE DEF target
  <2>2. CaptureRestorePoint \in [Lists -> UserIds \cup {None}]
    BY <1>1, GameSettingsAssumption
    DEF CaptureRestorePoint, SanitizedRestore, Sanitized, TypeOK, Ids
  <2>3. "ctl" \in Lists /\ target \in Ids
    BY <1>2, <1>4 DEF Lists, Ids
  <2>4. /\ selected' \in [Lists -> Ids] /\ picked' \in [Lists -> SUBSET Games]
        /\ lost' \subseteq Lists
    BY <1>1, <2>1, <2>3, SelectFacts
  <2>5. ChainTypesKept
    BY <1>1, <1>2, <2>1, AwaitTypes
  <2> QED
    BY <1>1, <2>1, <2>2, <2>4, <2>5 DEF TypeOK, SelectTypes, Persist
<1>5. CASE target # applied /\ target = None
  <2>1. BeginRestore
    BY <1>5 DEF BeginApply
  <2> QED
    BY <2>1, BeginRestoreTypes
<1> QED
  BY <1>3, <1>4, <1>5

LEMMA JobTypes ==
    ASSUME GInv, JobStep
    PROVE  TypeOK'
<1>1. /\ TypeOK /\ ChainInv /\ RunInv /\ RestoreInv /\ BackInv
  BY DEF GInv, ShapeInv, SelectInv
<1>2. ASSUME SelectTypes, ChainTypesKept,
             UNCHANGED <<owned, engine, chosen, deleted, bounds>>,
             {active', editing'} \subseteq Games \cup {None}
      PROVE  TypeOK'
  BY <1>1, <1>2 DEF TypeOK, SelectTypes, ChainTypesKept, engine, bounds
<1>3. CASE RunRecover
  <2>1. chain # <<>>
    BY <1>3 DEF RunRecover, Starting
  <2>2. SelectTypes /\ ChainTypesKept
    <3>1. CASE BeginRestore
      BY <2>1, <3>1, BeginRestoreTypes
    <3>2. CASE Done /\ UNCHANGED <<selected, picked, lost, restore, disk, applied>>
      BY <1>1, <2>1, <3>2, DoneTypes DEF TypeOK, SelectTypes
    <3> QED
      BY <1>3, <3>1, <3>2 DEF RunRecover
  <2> QED
    BY <1>1, <1>2, <1>3, <2>2 DEF RunRecover, TypeOK
<1>4. CASE RunSync \/ RunEnsured
  <2>1. chain # <<>>
    BY <1>1, <1>4 DEF RunSync, RunEnsured, Starting, ChainInv
  <2>2. BeginApply(editing, active)
        /\ UNCHANGED <<active, editing, owned, engine, chosen, deleted, bounds>>
    BY <1>4 DEF RunSync, RunEnsured
  <2>3. active \in Games \cup {None} /\ editing \in Games \cup {None}
    BY <1>1 DEF TypeOK
  <2>4. SelectTypes /\ ChainTypesKept
    BY <2>1, <2>2, <2>3, BeginApplyTypes
  <2> QED
    BY <1>2, <2>2, <2>3, <2>4
<1>5. CASE RunEnter
  <2>1. Head(chain).game \in Games
    BY <1>1, <1>5, ChainTypes DEF RunEnter, Starting, ChainInv
  <2>2. owned' \in [Lists -> SUBSET Games]
    BY <1>1, <1>5, <2>1 DEF RunEnter, TypeOK
  <2>3. ChainTypesKept
    BY <1>1, <1>5, AwaitTypes DEF RunEnter
  <2> QED
    BY <1>1, <1>5, <2>2, <2>3
    DEF RunEnter, TypeOK, ChainTypesKept, engine, history, bounds
<1>6. CASE RunDeleted
  <2> DEFINE g == Head(chain).game
             ed == IF editing = g THEN None ELSE editing
             act == IF active = g THEN None ELSE active
  <2>1. chain # <<>> /\ editing' = ed /\ active' = act
        /\ UNCHANGED <<owned, engine, chosen, deleted, bounds>>
    BY <1>6 DEF RunDeleted, Starting
  <2>2. ed \in Games \cup {None} /\ act \in Games \cup {None}
    BY <1>1 DEF TypeOK
  <2>3. \/ BeginApply(ed, act)
        \/ Done /\ UNCHANGED <<selected, picked, lost, restore, disk, applied>>
    BY <1>6 DEF RunDeleted
  <2> HIDE DEF ed, act
  <2>4. SelectTypes /\ ChainTypesKept
    <3>1. CASE BeginApply(ed, act)
      BY <2>1, <2>2, <3>1, BeginApplyTypes
    <3>2. CASE Done /\ UNCHANGED <<selected, picked, lost, restore, disk, applied>>
      BY <1>1, <2>1, <3>2, DoneTypes DEF TypeOK, SelectTypes
    <3> QED
      BY <2>3, <3>1, <3>2
  <2> QED
    BY <1>2, <2>1, <2>2, <2>4
<1>7. CASE RemoveGameSettings
  <2>1. chain # <<>> /\ Head(chain).game \in Games
    BY <1>1, <1>7, ChainTypes DEF RemoveGameSettings, RunInv, Runs, ChainInv
  <2>2. /\ selected' \in [Lists -> Ids] /\ owned' \in [Lists -> SUBSET Games]
        /\ picked' \in [Lists -> SUBSET Games]
    BY <1>1, <1>7, <2>1, GameSettingsAssumption DEF RemoveGameSettings, TypeOK, Ids
  <2>3. chain' \in Seq(Jobs) /\ ChainInv'
    BY <1>1, <1>7, <2>1, TailChain DEF RemoveGameSettings, Ends
  <2> QED
    BY <1>1, <1>7, <2>2, <2>3
    DEF RemoveGameSettings, TypeOK, ChainInv, RunTypes, engine, bounds
<1>8. CASE AppliedCtl
  <2>1. run.goal \in Games
    BY <1>1, <1>8 DEF AppliedCtl, RunInv, Applying
  <2>2. ChainTypesKept
    BY <1>1, <1>8, <2>1, AwaitTypes DEF AppliedCtl
  <2>3. /\ selected' \in [Lists -> Ids] /\ picked' \in [Lists -> SUBSET Games]
        /\ lost' \subseteq Lists
    BY <1>1, <1>8, <2>1, SelectFacts DEF AppliedCtl, Lists, Ids
  <2> QED
    BY <1>1, <1>2, <1>8, <2>2, <2>3 DEF AppliedCtl, TypeOK, SelectTypes
<1>9. CASE AppliedRemap
  <2>1. chain # <<>> /\ run.goal \in Games \cup {None}
    BY <1>1, <1>9 DEF AppliedRemap, ChainInv, TypeOK
  <2>2. ChainTypesKept
    BY <1>1, <1>9, <2>1, DoneTypes DEF AppliedRemap
  <2> QED
    BY <1>1, <1>9, <2>1, <2>2
    DEF AppliedRemap, TypeOK, ChainTypesKept, store, engine, history, bounds
<1>10. CASE RestoredCtl \/ RestoredRemap
  <2>1. /\ chain # <<>>
        /\ UNCHANGED <<active, editing, owned, engine, chosen, deleted, bounds>>
    BY <1>1, <1>10 DEF RestoredCtl, RestoredRemap, ChainInv, store, history
  <2>2. SelectTypes /\ ChainTypesKept
    <3>1. CASE EndRestore /\ UNCHANGED <<selected, picked, lost>>
      BY <1>1, <2>1, <3>1, EndRestoreTypes
    <3>2. CASE RestoredCtl /\ RestoreRemap
      <4>1. restore["remap"] \in UserIds
        BY <1>1, <3>2 DEF RestoredCtl, BackInv, RestoreInv, Lists
      <4> QED
        BY <1>1, <3>2, <4>1, RestoreRemapTypes
    <3> QED
      BY <1>10, <3>1, <3>2 DEF RestoredCtl, RestoredRemap, store, history
  <2> QED
    BY <1>1, <1>2, <2>1, <2>2 DEF TypeOK
<1>11. CASE Rejected
  <2>1. chain # <<>>
    BY <1>1, <1>11 DEF Rejected, Answered, ChainInv
  <2>2. chain' \in Seq(Jobs) /\ ChainInv'
    BY <1>1, <1>11, <2>1, TailChain DEF Rejected, Ends
  <2>3. rejects' \in Nat
    BY <1>1, <1>11 DEF Rejected, TypeOK
  <2> QED
    BY <1>1, <1>11, <2>2, <2>3 DEF Rejected, TypeOK, ChainInv, RunTypes, store, engine
<1> QED
  BY <1>3, <1>4, <1>5, <1>6, <1>7, <1>8, <1>9, <1>10, <1>11 DEF JobStep

LEMMA EnvironmentTypes ==
    ASSUME GInv, Environment
    PROVE  TypeOK'
<1>1. /\ TypeOK /\ ChainInv
  BY DEF GInv, ShapeInv
<1>2. ASSUME NEW job \in Jobs, Enqueue(job) PROVE chain' \in Seq(Jobs)
  BY <1>1, <1>2 DEF Enqueue, TypeOK
<1>3. \A g \in Games : /\ Job("enter", g) \in Jobs /\ Job("deleted", g) \in Jobs
  BY DEF Job, Jobs
<1>4. Job("sync", None) \in Jobs /\ Job("recover", None) \in Jobs
  BY DEF Job, Jobs
<1>5. ASSUME NEW g \in Games \cup {None}, GameChanges(g) PROVE TypeOK'
  BY <1>1, <1>5
  DEF GameChanges, Event, TypeOK, coordinator, store, history
<1>6. CASE EngineStatus
  <2>1. chain' \in Seq(Jobs) /\ active' \in Games \cup {None}
    BY <1>1, <1>2, <1>4, <1>6 DEF EngineStatus, TypeOK
  <2> QED
    BY <1>1, <1>6, <2>1 DEF EngineStatus, TypeOK, store, history, bounds
<1>7. ASSUME NEW g \in Games, EnterEditScope(g) PROVE TypeOK'
  <2>1. chain' \in Seq(Jobs)
    BY <1>2, <1>3, <1>7 DEF EnterEditScope
  <2> QED
    BY <1>1, <1>7, <2>1 DEF EnterEditScope, Event, TypeOK, store, engine, history
<1>8. CASE ExitEditScope
  <2>1. chain' \in Seq(Jobs)
    BY <1>2, <1>4, <1>8 DEF ExitEditScope
  <2> QED
    BY <1>1, <1>8, <2>1 DEF ExitEditScope, Event, TypeOK, store, engine, history
<1>9. ASSUME NEW g \in Games, SaveGame(g) PROVE TypeOK'
  <2>1. owned' \in [Lists -> SUBSET Games]
    BY <1>1, <1>9 DEF SaveGame, TypeOK
  <2> QED
    BY <1>1, <1>9, <2>1 DEF SaveGame, Event, TypeOK, coordinator, history
<1>10. ASSUME NEW g \in Games, NEW keep \in BOOLEAN, DeleteGame(g, keep) PROVE TypeOK'
  <2>1. chain' \in Seq(Jobs)
    BY <1>2, <1>3, <1>10 DEF DeleteGame
  <2> QED
    BY <1>1, <1>10, <2>1 DEF DeleteGame, Event, TypeOK, store
<1>11. ASSUME NEW list \in Lists, NEW id \in UserIds, Pick(list, id) PROVE TypeOK'
  <2>1. /\ selected' \in [Lists -> Ids] /\ picked' \in [Lists -> SUBSET Games]
        /\ chosen' \in [Lists -> SUBSET UserIds] /\ lost' \subseteq Lists
    BY <1>1, <1>11 DEF Pick, TypeOK, Ids
  <2> QED
    BY <1>1, <1>11, <2>1 DEF Pick, Event, TypeOK, coordinator, engine
<1>12. CASE RestoreDefaults
  <2>1. /\ selected' \in [Lists -> Ids] /\ picked' \in [Lists -> SUBSET Games]
        /\ chosen' \in [Lists -> SUBSET UserIds] /\ lost' \subseteq Lists
        /\ owned' \in [Lists -> SUBSET Games]
    BY <1>1, <1>12, GameSettingsAssumption DEF RestoreDefaults, TypeOK, Ids
  <2> QED
    BY <1>1, <1>12, <2>1 DEF RestoreDefaults, Event, TypeOK, coordinator, engine
<1>13. CASE Crash
  <2>1. chain' \in Seq(Jobs) /\ run'.goal \in Games \cup {None}
    BY <1>4, <1>13 DEF Crash, Idle
  <2>2. restore' = disk
    BY <1>1, <1>13, DiskRestore DEF Crash
  <2>3. /\ active' = None /\ editing' = None /\ applied' = None
        /\ watched' = None /\ owed' = FALSE /\ crashes' = crashes + 1
        /\ UNCHANGED <<selected, owned, disk, triggers, chosen, picked, lost, deleted,
                       events, rejects>>
    BY <1>13 DEF Crash, store, history
  <2>4. crashes' \in Nat
    BY <1>1, <2>3 DEF TypeOK
  <2>5. restore' \in [Lists -> UserIds \cup {None}]
    BY <1>1, <2>2 DEF TypeOK
  <2> QED
    BY <1>1, <2>1, <2>3, <2>4, <2>5 DEF TypeOK
<1> QED
  BY <1>5, <1>6, <1>7, <1>8, <1>9, <1>10, <1>11, <1>12, <1>13 DEF Environment

(***************************************************************************)
(* The theorems.                                                           *)
(***************************************************************************)
LEMMA InitGInv == Init => GInv
<1> SUFFICES ASSUME Init PROVE GInv
  OBVIOUS
<1>1. /\ chain = <<Job("recover", None)>> /\ run = Idle /\ applied = None
      /\ active = None /\ editing = None /\ rejects = 0 /\ lost = {}
      /\ restore = NoRestore /\ disk = NoRestore
      /\ \A l \in Lists : /\ selected[l] = Default /\ chosen[l] = {Default}
                          /\ picked[l] = Games
  BY DEF Init
<1>2. /\ chain # <<>> /\ Len(chain) = 1 /\ Head(chain) = chain[1]
      /\ chain[1] = Job("recover", None) /\ Job("recover", None) \in Jobs
      /\ chain[1].kind = "recover"
  BY <1>1 DEF Job, Jobs
<1>3. run \in RunTypes /\ run.pc = "idle" /\ run.goal = None
  BY <1>1 DEF RunTypes, Idle
<1>4. Runs("recover") /\ ~Runs("deleted") /\ Default \notin Games
  BY <1>2, GameSettingsAssumption DEF Runs
<1>5. TypeOK
  <2>1. chain \in Seq(Jobs)
    BY <1>1, <1>2
  <2> QED
    BY <1>3, <2>1, GameSettingsAssumption DEF Init, TypeOK, Ids, NoRestore
<1>6. ChainInv /\ RunInv
  BY <1>1, <1>2, <1>3, <1>4 DEF ChainInv, RunInv, Applying
<1>7. SelectInv
  BY <1>1, <1>3, <1>4
  DEF SelectInv, OwnInv, ScopeInv, RestoreInv, BackInv, RejectInv, MayComeBack,
      Applying, Restoring
<1>8. ConvergeInv /\ PickInv
  BY <1>1, <1>3, <1>4
  DEF ConvergeInv, PickInv, Held, Target, TargetOf, Applying, Restoring
<1> QED
  BY <1>5, <1>6, <1>7, <1>8 DEF GInv, ShapeInv

LEMMA NextGInv == GInv /\ [Next]_vars => GInv'
<1> SUFFICES ASSUME GInv, [Next]_vars PROVE GInv'
  OBVIOUS
<1>1. CASE JobStep
  <2>1. TypeOK'
    BY <1>1, JobTypes
  <2> QED
    BY <1>1, <2>1, RecoverKeeps, SyncKeeps, EnterKeeps, DeletedKeeps, RemoveKeeps,
       AppliedCtlKeeps, AppliedRemapKeeps, RestoredKeeps, RejectedKeeps
    DEF JobStep
<1>2. CASE Environment
  <2>1. TypeOK'
    BY <1>2, EnvironmentTypes
  <2>2. ASSUME NEW g \in Games \cup {None}, GameChanges(g) PROVE GInv'
    BY <2>1, <2>2, SameKeeps DEF GameChanges, Event, history
  <2> QED
    BY <1>2, <2>1, <2>2, StatusKeeps, EditKeeps, SaveKeeps, DeleteKeeps, PickKeeps,
       DefaultsKeep, CrashKeeps
    DEF Environment
<1>3. CASE UNCHANGED vars
  <2>1. UNCHANGED <<coordinator, store, disk, engine, history, bounds>>
    BY <1>3 DEF vars
  <2>2. TypeOK'
    BY <2>1 DEF GInv, ShapeInv, TypeOK, coordinator, store, engine, history, bounds
  <2> QED
    BY <2>1, <2>2, SameKeeps DEF history, bounds
<1> QED
  BY <1>1, <1>2, <1>3 DEF Next

(* The inductive invariant holds in every state the coordinator reaches.    *)
THEOREM InvariantHolds == Spec => []GInv
<1> QED
  BY InitGInv, NextGInv, PTL DEF Spec

(* Every variable keeps its type.                                          *)
THEOREM TypeCorrect == Spec => []TypeOK
<1>1. GInv => TypeOK
  BY DEF GInv, ShapeInv
<1> QED
  BY <1>1, InvariantHolds, PTL

(* The profiles of a game that was deleted are never selected in either    *)
(* list: removeGameSettings runs after the scope of the game has ended,    *)
(* and what an earlier failure left selected falls back to Default.        *)
THEOREM OwnedCorrect == Spec => []SelectedIsOwned
<1>1. GInv => SelectedIsOwned
  BY DEF GInv, ShapeInv, SelectInv, OwnInv, SelectedIsOwned
<1> QED
  BY <1>1, InvariantHolds, PTL

(* Whatever was interrupted by a crash, the state file names a selection   *)
(* of the user for every list in which a game's profile is selected.       *)
THEOREM CrashCorrect == Spec => []CrashSafe
<1>1. GInv => CrashSafe
  BY DEF GInv, SelectInv, RestoreInv, CrashSafe
<1> QED
  BY <1>1, InvariantHolds, PTL

(* With nothing queued and no game to apply, the user's own selections are *)
(* back, however the jobs overlapped, failed or were cut short.            *)
THEOREM GlobalsCorrect == Spec => []GlobalsComeBack
<1>1. ASSUME GInv PROVE GlobalsComeBack
  <2>1. /\ TypeOK /\ ChainInv /\ RestoreInv /\ RejectInv
    BY <1>1 DEF GInv, ShapeInv, SelectInv
  <2> SUFFICES ASSUME AtRest, applied = None, rejects = 0 \/ restore = NoRestore,
                      NEW l \in Lists
               PROVE  selected[l] \in MayComeBack(l)
    BY DEF GlobalsComeBack
  <2>2. chain = <<>> /\ run.pc = "idle"
    BY <2>1 DEF AtRest, ChainInv
  <2>3. restore = NoRestore
    BY <2>1, <2>2 DEF RejectInv, Runs, Applying, Restoring
  <2>4. selected[l] \in UserIds
    BY <2>1, <2>3 DEF RestoreInv, TypeOK, Ids
  <2> QED
    BY <2>1, <2>4 DEF RestoreInv
<1> QED
  BY <1>1, InvariantHolds, PTL

(* At rest, unless a round trip was rejected, the coordinator has applied  *)
(* the profile of the game that runs or is edited, and where the user made *)
(* no other choice since, that game's profiles are the ones selected.      *)
THEOREM ScopeCorrect == Spec => []ScopeConverges
<1>1. ASSUME GInv PROVE ScopeConverges
  <2>1. /\ TypeOK /\ ChainInv /\ ConvergeInv /\ PickInv
    BY <1>1 DEF GInv, ShapeInv
  <2> SUFFICES ASSUME AtRest, rejects = 0
               PROVE  /\ applied = Target
                      /\ applied # None => \A l \in Lists :
                            applied \in picked[l] \/ selected[l] = Resolved(l, applied)
    BY DEF ScopeConverges
  <2>2. chain = <<>> /\ Len(chain) = 0 /\ run.pc = "idle"
    BY <2>1 DEF AtRest, ChainInv
  <2>3. ~Resyncs
    BY <2>2 DEF Resyncs, Waits
  <2>4. applied = Target
    BY <2>1, <2>2, <2>3 DEF ConvergeInv
  <2>5. ASSUME applied # None, NEW l \in Lists
        PROVE  applied \in picked[l] \/ selected[l] = Resolved(l, applied)
    <3>1. Held(l) = applied /\ applied \in Games
      BY <2>1, <2>2, <2>5 DEF Held, TypeOK
    <3>2. applied \in picked[l] \/ selected[l] = applied
      BY <2>1, <2>2, <2>5, <3>1 DEF PickInv, Restoring
    <3>3. applied \notin owned[l] => applied \in picked[l]
      BY <2>1, <3>1 DEF PickInv
    <3> QED
      BY <3>1, <3>2, <3>3 DEF Resolved
  <2> QED
    BY <2>4, <2>5
<1> QED
  BY <1>1, InvariantHolds, PTL

=============================================================================
