----------------------- MODULE KubernetesUpgradeProofs -----------------------
(***************************************************************************)
(* Type correctness of the refresh on Kubernetes, and that the partition   *)
(* holds the controller back until the higher units answer, from the       *)
(* second unit until the operator resumed, and from all but the first of   *)
(* an incompatible revision, for any number of units and refreshes; and    *)
(* that a resumed refresh always has a next step.                          *)
(***************************************************************************)
EXTENDS KubernetesUpgrade, WellFoundedInduction, TLAPS

(* A pod and its mongod go together; only the upgrade-charm hook runs in a *)
(* pod just created.                                                       *)
PodOK(u) ==
  /\ phase[u] = "gone" <=> pod[u] = 0
  /\ phase[u] \in {"gone", "created"} => u \notin serving
  /\ phase[u] \in {"upgraded", "running"} => u \in serving
HookOK(u) ==
  /\ Busy(u) => phase[u] \notin {"gone", "stepping"}
  /\ Busy(u) /\ phase[u] = "created" => hook.kind = "upgrade_charm"

(* A unit whose mongod is down has said so.                                *)
SaidSo(u) == u \notin serving => unit_state[u] = "RESTARTING"

(* A unit is away with the partition below it only when no pod that the    *)
(* partition lets the controller replace is of another revision.           *)
NothingToReplace ==
  \A x \in Units : x >= partition => pod[x] \in {0, revision}
Covered(w) == Away(w) /\ partition < w => NothingToReplace

IInv ==
  /\ TypeOK
  /\ \A u \in Units : PodOK(u) /\ HookOK(u)
  /\ ~excused => \A u \in Units : SaidSo(u) /\ Covered(u)

(* The variables that only the handlers and the hooks of juju write.       *)
SetTypeOK ==
  /\ revision \in Revisions /\ base \in Revisions /\ partition \in Units
  /\ pod \in [Units -> Revisions \cup {0}]
HookTypeOK ==
  \/ hook = NoHook
  \/ hook \in [kind : Handlers \cup Actions, unit : Units, view : Views]
UnitsTypeOK ==
  /\ phase \in [Units -> Phases]
  /\ synced \subseteq serving /\ serving \subseteq Units
  /\ unit_state \in [Units -> UnitState] /\ deferred \subseteq Units
HistoryTypeOK == epoch \in 1..MaxRefreshes /\ resumed \in BOOLEAN /\ excused \in BOOLEAN

LEMMA TypeParts ==
  TypeOK <=> /\ SetTypeOK /\ HookTypeOK /\ UnitsTypeOK /\ HistoryTypeOK
             /\ versions \in Revisions /\ leader \in Units /\ faults \in 0..MaxFaults
BY DEF TypeOK, SetTypeOK, HookTypeOK, UnitsTypeOK, HistoryTypeOK

-----------------------------------------------------------------------------
(* What the charm computes.                                                *)

(* The loop of _determine_partition stops at the highest lagging unit.     *)
LEMMA LastIsGreatest ==
  ASSUME NEW S \in SUBSET Units, S # {}
  PROVE  Last(S) \in S /\ \A w \in S : w <= Last(S)
<1> USE HighestAssumption DEF Units
<1> DEFINE T == {Highest - w : w \in S}
<1>1. T \subseteq Nat /\ T # {}
  <2>1. \A w \in S : w \in 0..Highest
    OBVIOUS
  <2>2. \A w \in S : Highest - w \in Nat
    BY <2>1
  <2> QED
    BY <2>2
<1>2. PICK x \in T : \A y \in T : ~(<<y, x>> \in OpToRel(<, Nat))
  BY <1>1, NatLessThanWellFounded, WFMin
<1>3. \A y \in T : ~(y < x)
  BY <1>1, <1>2 DEF OpToRel
<1>4. PICK m \in S : x = Highest - m
  OBVIOUS
<1>5. \A w \in S : w <= m
  BY <1>3, <1>4
<1> QED
  BY <1>4, <1>5 DEF Last

LEMMA DetermineType ==
  ASSUME NEW view, NEW states, NEW from_event, NEW force
  PROVE  DeterminePartition(view, states, from_event, force) \in Units
<1> DEFINE lagging == Lagging(view, states, force)
<1>1. lagging \in SUBSET Units
  BY DEF Lagging
<1>2. lagging # {} => Last(lagging) \in Units
  BY <1>1, LastIsGreatest
<1> QED
  BY <1>2, HighestAssumption DEF DeterminePartition, Units

(* Every unit above the partition reports itself healthy, unless there is  *)
(* nothing to refresh.                                                     *)
LEMMA DetermineCovers ==
  ASSUME NEW view, NEW states, NEW from_event, NEW w \in Units,
         InProgress(view),
         DeterminePartition(view, states, from_event, FALSE) < w
  PROVE  states[w] = "HEALTHY"
<1> DEFINE lagging == Lagging(view, states, FALSE)
           found == DeterminePartition(view, states, from_event, FALSE)
<1>1. lagging \in SUBSET Units
  BY DEF Lagging
<1>2. CASE lagging = {}
  BY <1>2 DEF Lagging
<1>3. CASE lagging # {}
  <2>1. Last(lagging) \in Units /\ \A x \in lagging : x <= Last(lagging)
    BY <1>1, <1>3, LastIsGreatest
  <2>2. found \in {Highest, Last(lagging)} /\ found < w
    BY <1>3 DEF DeterminePartition
  <2> HIDE DEF lagging, found
  <2>3. Last(lagging) < w
    BY <2>1, <2>2, HighestAssumption DEF Units
  <2>4. \A x \in lagging : x <= Last(lagging)
    BY <2>1
  <2>5. w \notin lagging
    BY <2>3, <2>4, <2>1, HighestAssumption DEF Units
  <2> QED
    BY <2>5 DEF Lagging, lagging
<1> QED
  BY <1>2, <1>3

(* A partition that was lowered without an excuse leaves no unit above it  *)
(* that is restarting, or no pod to replace.                               *)
LowerOK(states) ==
  /\ partition' \in Units /\ excused' \in BOOLEAN /\ (excused => excused')
  /\ ~excused' /\ partition' # partition =>
       \/ \A x \in Units : pod[x] \in {0, revision}
       \/ \A w \in Units : partition' < w =>
            phase[w] # "stepping" /\ states[w] = "HEALTHY"

LEMMA LowerCovers ==
  ASSUME TypeOK, NEW view \in Views, NEW states \in [Units -> UnitState],
         NEW from_event \in BOOLEAN, NEW force \in BOOLEAN,
         Lower(view, states, from_event, force)
  PROVE  LowerOK(states)
<1> DEFINE wanted == DeterminePartition(view, states, from_event, force)
           due == DeterminePartition(Now, ToCome(states), from_event, force)
<1>1. wanted \in Units /\ due \in Units
  BY DetermineType
<1>2. CASE ~(wanted < view.partition)
  <2>1. partition' = partition /\ excused' = excused
    BY <1>2 DEF Lower
  <2> QED
    BY <2>1 DEF LowerOK, TypeOK
<1>3. CASE wanted < view.partition
  <2>1. partition' = wanted /\ excused' = (excused \/ force \/ wanted < due)
    BY <1>3 DEF Lower
  <2>2. partition' \in Units /\ excused' \in BOOLEAN /\ (excused => excused')
    BY <1>1, <2>1 DEF TypeOK
  <2>3. ASSUME ~excused', InProgress(Now), NEW w \in Units, partition' < w
        PROVE  phase[w] # "stepping" /\ states[w] = "HEALTHY"
    <3>1. ~force /\ ~(wanted < due)
      BY <2>1, <2>3
    <3>2. force = FALSE
      BY <3>1
    <3>3. due < w
      BY <1>1, <2>1, <2>3, <3>1, HighestAssumption DEF Units
    <3> HIDE DEF wanted
    <3>4. DeterminePartition(Now, ToCome(states), from_event, FALSE) < w
      BY <3>2, <3>3
    <3>5. ToCome(states)[w] = "HEALTHY"
      BY <2>3, <3>4, DetermineCovers
    <3> QED
      BY <3>5 DEF ToCome
  <2>4. ~InProgress(Now) => \A x \in Units : pod[x] \in {0, revision}
    BY DEF InProgress, Now
  <2> QED
    BY <2>2, <2>3, <2>4 DEF LowerOK
<1> QED
  BY <1>2, <1>3

-----------------------------------------------------------------------------
(* The handlers, whatever view of the set they decide on.                  *)

HandleOK(u) ==
  /\ SetTypeOK' /\ UnitsTypeOK' /\ HistoryTypeOK' /\ versions' \in Revisions
  /\ phase'[u] \notin {"gone", "created", "stepping"}
  /\ \A x \in Units \ {u} : phase'[x] = phase[x]
  /\ \A x \in Units : PodOK(x)'
  /\ ~excused' => \A x \in Units : SaidSo(x)' /\ Covered(x)'

LEMMA HandleKeeps ==
  ASSUME IInv, NEW u \in Units, NEW k \in Handlers, NEW view \in Views,
         Handle(u, k, view), phase[u] \notin {"gone", "stepping"},
         phase[u] = "created" => k = "upgrade_charm"
  PROVE  HandleOK(u)
<1> DEFINE states == [unit_state EXCEPT ![u] = Reported(u, k)]
           checked == k = "upgrade_charm" /\ IsCompatible(versions', pod[u])
<1> TypeOK /\ UnitsTypeOK /\ SetTypeOK /\ HistoryTypeOK
  BY TypeParts DEF IInv
<1>1. /\ serving' = IF k \in {"upgrade_charm", "start"} THEN serving \cup {u} ELSE serving
      /\ phase' = IF phase[u] = "created" THEN [phase EXCEPT ![u] = "upgraded"]
                  ELSE IF phase[u] = "upgraded" THEN [phase EXCEPT ![u] = "running"]
                  ELSE phase
      /\ UNCHANGED <<revision, base, pod, synced, epoch, resumed>>
  BY DEF Handle
<1>2. /\ versions' = SavedVersions(u, view)
      /\ unit_state' = IF checked /\ synced = Units
                       THEN [states EXCEPT ![u] = "HEALTHY"] ELSE states
      /\ deferred' \in {deferred, deferred \cup {u}}
  BY DEF Handle, Reconcile
<1>3. states \in [Units -> UnitState] /\ states[u] = Reported(u, k)
      /\ \A x \in Units \ {u} : states[x] = unit_state[x]
  BY DEF UnitsTypeOK, Reported, UnitState
<1>4. LowerOK(states)
  <2>1. CASE u = leader /\ ~Held(u)
    <3>1. Lower(view, states, FALSE, FALSE)
      BY <2>1 DEF Handle, Reconcile
    <3> QED
      BY <1>3, <3>1, LowerCovers
  <2>2. CASE ~(u = leader /\ ~Held(u))
    <3>1. partition' = partition /\ excused' = excused
      BY <2>2 DEF Handle, Reconcile
    <3> QED
      BY <3>1 DEF LowerOK, TypeOK
  <2> QED
    BY <2>1, <2>2
<1>5. /\ serving \subseteq serving' /\ serving' \subseteq Units
      /\ phase' \in [Units -> Phases] /\ phase'[u] \notin {"gone", "created", "stepping"}
      /\ \A x \in Units \ {u} : phase'[x] = phase[x]
  BY <1>1 DEF UnitsTypeOK, Phases, Ready
<1>6. /\ unit_state' \in [Units -> UnitState]
      /\ \A x \in Units \ {u} : unit_state'[x] = unit_state[x]
      /\ unit_state'[u] \in {states[u], "HEALTHY"}
      /\ unit_state'[u] # states[u] => synced = Units
  BY <1>2, <1>3 DEF UnitsTypeOK, UnitState
<1>7. SetTypeOK' /\ UnitsTypeOK' /\ HistoryTypeOK'
  <2>1. SetTypeOK'
    BY <1>1, <1>4 DEF SetTypeOK, LowerOK
  <2>2. UnitsTypeOK'
    BY <1>1, <1>2, <1>5, <1>6 DEF UnitsTypeOK
  <2>3. HistoryTypeOK'
    BY <1>1, <1>4 DEF HistoryTypeOK, LowerOK
  <2> QED
    BY <2>1, <2>2, <2>3
<1>8. versions' \in Revisions
  <2>1. pod[u] \in Revisions
    BY DEF IInv, PodOK, SetTypeOK
  <2> QED
    BY <1>2, <2>1 DEF SavedVersions, TypeOK
<1>9. ASSUME NEW x \in Units PROVE PodOK(x)'
  <2>1. PodOK(x)
    BY DEF IInv
  <2>2. CASE x # u
    BY <1>1, <1>5, <2>1, <2>2 DEF PodOK
  <2>3. CASE x = u
    BY <1>1, <1>5, <2>1, <2>3 DEF PodOK, UnitsTypeOK
  <2> QED
    BY <2>2, <2>3
<1>10. ASSUME ~excused', NEW x \in Units PROVE SaidSo(x)'
  <2> SUFFICES ASSUME x \notin serving' PROVE unit_state'[x] = "RESTARTING"
    BY DEF SaidSo
  <2>1. unit_state[x] = "RESTARTING"
    BY <1>4, <1>5, <1>10 DEF IInv, SaidSo, LowerOK
  <2>2. synced # Units
    BY <1>5 DEF UnitsTypeOK
  <2>3. CASE x # u
    BY <1>6, <2>1, <2>3
  <2>4. CASE x = u
    <3>1. Reported(u, k) = unit_state[u]
      BY <2>4 DEF Reported
    <3> QED
      BY <1>3, <1>6, <2>1, <2>2, <2>4, <3>1
  <2> QED
    BY <2>3, <2>4
<1>11. ASSUME ~excused', NEW x \in Units PROVE Covered(x)'
  <2> SUFFICES ASSUME Away(x)', partition' < x PROVE NothingToReplace'
    BY DEF Covered
  <2>1. ~excused /\ partition' \in Units /\ partition \in Units
    BY <1>4, <1>11 DEF LowerOK, SetTypeOK
  <2>2. Away(x)
    BY <1>5 DEF Away
  <2>3. CASE partition' = partition
    BY <1>1, <2>1, <2>2, <2>3 DEF IInv, Covered, NothingToReplace
  <2>4. CASE \A w \in Units : pod[w] \in {0, revision}
    BY <1>1, <2>4 DEF NothingToReplace
  <2>5. CASE phase[x] # "stepping" /\ states[x] = "HEALTHY"
    <3>1. phase'[x] # "stepping"
      BY <1>5, <2>5
    <3>2. x \notin serving' /\ x \notin serving
      BY <1>5, <3>1 DEF Away
    <3>3. unit_state[x] = "RESTARTING"
      BY <2>1, <3>2 DEF IInv, SaidSo
    <3>4. states[x] = unit_state[x]
      BY <1>3, <3>2 DEF Reported
    <3> QED
      BY <2>5, <3>3, <3>4
  <2> QED
    BY <1>4, <1>11, <2>3, <2>4, <2>5 DEF LowerOK
<1> QED
  BY <1>5, <1>7, <1>8, <1>9, <1>10, <1>11 DEF HandleOK
-----------------------------------------------------------------------------
(* Every action.                                                           *)

LEMMA RunKeeps ==
  ASSUME IInv, NEW u \in Units, NEW k \in Handlers, Run(u, k)
  PROVE  IInv'
<1> TypeOK /\ HookTypeOK
  BY TypeParts DEF IInv
<1>1. Now \in Views
  BY DEF Now, Views, TypeOK
<1>2. /\ ~Busy(u) /\ phase[u] \notin {"gone", "stepping"}
      /\ phase[u] = "created" => k = "upgrade_charm"
      /\ Handle(u, k, Now) /\ UNCHANGED <<leader, hook, faults>>
  BY DEF Run, CanRun
<1>3. HandleOK(u)
  BY <1>1, <1>2, HandleKeeps
<1>4. TypeOK'
  BY <1>2, <1>3
     DEF HandleOK, TypeOK, SetTypeOK, UnitsTypeOK, HistoryTypeOK, HookTypeOK
<1>5. ASSUME NEW x \in Units PROVE HookOK(x)'
  BY <1>2, <1>3 DEF HandleOK, HookOK, Busy, IInv
<1> QED
  BY <1>3, <1>4, <1>5 DEF HandleOK, IInv

LEMMA EndKeeps ==
  ASSUME IInv, NEW u \in Units, End(u)
  PROVE  IInv'
<1> TypeOK /\ HookTypeOK
  BY TypeParts DEF IInv
<1>1. /\ Busy(u) /\ hook.kind \in Handlers /\ hook.view \in Views
      /\ Handle(u, hook.kind, hook.view)
      /\ hook' = NoHook /\ UNCHANGED <<leader, faults>>
  BY DEF End, Busy, HookTypeOK
<1>2. HandleOK(u)
  BY <1>1, HandleKeeps DEF IInv, HookOK
<1>3. TypeOK'
  BY <1>1, <1>2
     DEF HandleOK, TypeOK, SetTypeOK, UnitsTypeOK, HistoryTypeOK, HookTypeOK
<1>4. ASSUME NEW x \in Units PROVE HookOK(x)'
  BY <1>1 DEF HookOK, Busy
<1> QED
  BY <1>2, <1>3, <1>4 DEF HandleOK, IInv

(* The leader enters a hook, or leaves it and nothing behind.              *)
OnlyHook(u) ==
  /\ UNCHANGED <<stateful_set, phase, mongod, databag, leader, deferred, history, faults>>
  /\ HookTypeOK' /\ HookOK(u)'
  /\ \A x \in Units \ {u} : ~Busy(x)'

LEMMA OnlyHookKeeps ==
  ASSUME IInv, NEW u \in Units, OnlyHook(u)
  PROVE  IInv'
<1> USE DEF OnlyHook, stateful_set, mongod, databag, history
<1>1. TypeOK'
  BY DEF IInv, TypeOK, HookTypeOK
<1>2. ASSUME NEW x \in Units PROVE PodOK(x)' /\ HookOK(x)'
  BY DEF IInv, PodOK, HookOK
<1>3. ~excused' => \A x \in Units : SaidSo(x)' /\ Covered(x)'
  BY DEF IInv, SaidSo, Covered, Away, NothingToReplace
<1> QED
  BY <1>1, <1>2, <1>3 DEF IInv

LEMMA BeginKeeps ==
  ASSUME IInv, NEW u \in Units,
         \/ \E k \in Handlers : Begin(u, k)
         \/ \E k \in Actions : Resume(u, k)
  PROVE  IInv'
<1>1. PICK k \in Handlers \cup Actions :
         /\ hook' = [kind |-> k, unit |-> u, view |-> Now]
         /\ phase[u] \notin {"gone", "stepping"}
         /\ phase[u] = "created" => k = "upgrade_charm"
  BY DEF Begin, Resume, CanRun, Ready, Actions
<1>2. UNCHANGED <<stateful_set, phase, mongod, databag, leader, deferred, history, faults>>
  BY DEF Begin, Resume
<1>3. Now \in Views
  BY DEF Now, Views, IInv, TypeOK
<1>4. HookTypeOK'
  <2> HIDE DEF Now
  <2> QED
    BY <1>1, <1>3 DEF HookTypeOK
<1>5. hook'.unit = u /\ hook'.kind = k /\ phase' = phase
  BY <1>1, <1>2
<1>6. HookOK(u)' /\ \A x \in Units \ {u} : ~Busy(x)'
  BY <1>1, <1>5 DEF HookOK, Busy
<1> QED
  BY <1>2, <1>4, <1>6, OnlyHookKeeps DEF OnlyHook

LEMMA RaiseKeeps ==
  ASSUME IInv, NEW u \in Units, Raise(u)
  PROVE  IInv'
<1>1. hook' = NoHook
      /\ UNCHANGED <<stateful_set, phase, mongod, databag, leader, deferred, history, faults>>
  BY DEF Raise
<1>2. HookTypeOK' /\ \A x \in Units : HookOK(x)' /\ ~Busy(x)'
  BY <1>1 DEF HookTypeOK, HookOK, Busy
<1> QED
  BY <1>1, <1>2, OnlyHookKeeps DEF OnlyHook

LEMMA EndResumeKeeps ==
  ASSUME IInv, NEW u \in Units, EndResume(u)
  PROVE  IInv'
<1> DEFINE force == hook.kind # "resume"
<1> TypeOK /\ HookTypeOK
  BY TypeParts DEF IInv
<1>1. /\ Busy(u) /\ hook.view \in Views /\ hook' = NoHook
      /\ UNCHANGED <<revision, base, pod, phase, mongod, databag, leader, deferred, epoch,
                     faults>>
  BY DEF EndResume, Busy, HookTypeOK
<1>2. LowerOK(unit_state) /\ resumed' \in BOOLEAN
  <2>1. CASE Lower(hook.view, unit_state, TRUE, force) /\ resumed' = TRUE
    BY <1>1, <2>1, LowerCovers DEF TypeOK
  <2>2. CASE UNCHANGED <<partition, resumed, excused>>
    BY <2>2 DEF LowerOK, TypeOK
  <2> QED
    BY <2>1, <2>2 DEF EndResume
<1>3. TypeOK'
  BY <1>1, <1>2 DEF TypeOK, LowerOK, mongod, databag
<1>4. ASSUME NEW x \in Units PROVE PodOK(x)' /\ HookOK(x)'
  BY <1>1 DEF IInv, PodOK, HookOK, Busy, mongod
<1>5. ASSUME ~excused', NEW x \in Units PROVE SaidSo(x)' /\ Covered(x)'
  <2>1. ~excused /\ SaidSo(x)' /\ SaidSo(x)
    BY <1>1, <1>2, <1>5 DEF LowerOK, IInv, SaidSo, mongod, databag
  <2> SUFFICES ASSUME Away(x)', partition' < x PROVE NothingToReplace'
    BY <2>1 DEF Covered
  <2>2. Away(x)
    BY <1>1 DEF Away, mongod
  <2>3. CASE partition' = partition
    BY <1>1, <2>1, <2>2, <2>3 DEF IInv, Covered, NothingToReplace
  <2>4. CASE \A w \in Units : pod[w] \in {0, revision}
    BY <1>1, <2>4 DEF NothingToReplace
  <2>5. CASE phase[x] # "stepping" /\ unit_state[x] = "HEALTHY"
    BY <2>1, <2>2, <2>5 DEF Away, SaidSo
  <2> QED
    BY <1>2, <1>5, <2>3, <2>4, <2>5 DEF LowerOK
<1> QED
  BY <1>3, <1>4, <1>5 DEF IInv
LEMMA PostAppUpgradeKeeps ==
  ASSUME IInv, NEW u \in Units, PostAppUpgrade(u)
  PROVE  IInv'
<1> USE DEF PostAppUpgrade, stateful_set, mongod, history
<1>1. TypeOK'
  BY DEF IInv, TypeOK, UnitState
<1>2. ASSUME NEW x \in Units PROVE PodOK(x)' /\ HookOK(x)'
  BY DEF IInv, PodOK, HookOK, Busy
<1>3. serving' = Units
  BY DEF IInv, TypeOK
<1>4. ASSUME ~excused', NEW x \in Units PROVE SaidSo(x)' /\ Covered(x)'
  BY <1>3, <1>4 DEF IInv, SaidSo, Covered, Away, NothingToReplace
<1> QED
  BY <1>1, <1>2, <1>4 DEF IInv

LEMMA BeginStopKeeps ==
  ASSUME IInv, NEW u \in Units, BeginStop(u)
  PROVE  IInv'
<1>1. /\ phase[u] = "stopping" /\ ~Busy(u) /\ phase' = [phase EXCEPT ![u] = "stepping"]
      /\ partition' = Raised(u)
      /\ UNCHANGED <<revision, base, pod, serving, synced, databag, leader, deferred, hook,
                     history, faults>>
  BY DEF BeginStop, mongod
<1>2. partition' \in Units /\ u <= partition' /\ partition <= partition'
  BY <1>1, HighestAssumption DEF Raised, IInv, TypeOK, Units
<1>3. phase' \in [Units -> Phases] /\ phase'[u] = "stepping"
      /\ \A x \in Units \ {u} : phase'[x] = phase[x]
  BY <1>1 DEF IInv, TypeOK, Phases
<1>4. TypeOK'
  BY <1>1, <1>2, <1>3 DEF IInv, TypeOK, databag, history
<1>5. ASSUME NEW x \in Units PROVE PodOK(x)' /\ HookOK(x)'
  BY <1>1, <1>3 DEF IInv, PodOK, HookOK, Busy
<1>6. ASSUME ~excused', NEW x \in Units PROVE SaidSo(x)' /\ Covered(x)'
  <2>1. ~excused /\ SaidSo(x)'
    BY <1>1, <1>6 DEF IInv, SaidSo, databag, history
  <2> SUFFICES ASSUME Away(x)', partition' < x PROVE NothingToReplace'
    BY <2>1 DEF Covered
  <2>2. x # u /\ partition < x
    BY <1>2, HighestAssumption DEF Units, IInv, TypeOK
  <2>3. Away(x)
    BY <1>1, <1>3, <2>2 DEF Away
  <2>4. \A y \in Units : y >= partition' => y >= partition
    BY <1>2, HighestAssumption DEF Units, IInv, TypeOK
  <2> QED
    BY <1>1, <2>1, <2>2, <2>3, <2>4 DEF IInv, Covered, NothingToReplace
<1> QED
  BY <1>4, <1>5, <1>6 DEF IInv

(* A pod that goes leaves the set as it was, but for itself.               *)
LEMMA PodGoneKeeps ==
  ASSUME IInv, NEW u \in Units, PodGone(u), phase[u] \in {"stopping", "stepping"},
         UNCHANGED <<revision, base, partition, versions, leader, deferred, epoch, resumed>>
  PROVE  /\ SetTypeOK' /\ UNCHANGED <<revision, partition>>
         /\ phase' \in [Units -> Phases] /\ synced' \subseteq serving'
         /\ serving' \subseteq Units /\ HookTypeOK'
         /\ \A x \in Units : PodOK(x)' /\ HookOK(x)'
         /\ \A x \in Units : x # u => (x \in serving' <=> x \in serving)
         /\ phase[u] = "stepping" => \A x \in Units : Away(x)' => Away(x)
         /\ \A x \in Units : pod'[x] \in {0, pod[x]}
<1>1. /\ phase' \in [Units -> Phases] /\ phase'[u] = "gone"
      /\ \A x \in Units \ {u} : phase'[x] = phase[x]
      /\ pod' \in [Units -> Revisions \cup {0}] /\ pod'[u] = 0
      /\ \A x \in Units \ {u} : pod'[x] = pod[x]
      /\ serving' = serving \ {u} /\ synced' = synced \ {u}
  BY DEF PodGone, IInv, TypeOK, Phases
<1>2. SetTypeOK' /\ UNCHANGED <<revision, partition>>
  BY <1>1 DEF SetTypeOK, IInv, TypeOK
<1>3. synced' \subseteq serving' /\ serving' \subseteq Units
  BY <1>1 DEF IInv, TypeOK
<1>4. /\ hook' \in {hook, NoHook} /\ ~Busy(u)'
      /\ \A x \in Units : Busy(x)' => Busy(x) /\ hook' = hook
  BY DEF PodGone, Busy
<1>5. HookTypeOK'
  BY <1>4 DEF HookTypeOK, IInv, TypeOK
<1>6. ASSUME NEW x \in Units PROVE PodOK(x)' /\ HookOK(x)'
  <2>1. CASE x = u
    BY <1>1, <1>4, <2>1 DEF PodOK, HookOK
  <2>2. CASE x # u
    BY <1>1, <1>4, <2>2 DEF PodOK, HookOK, IInv
  <2> QED
    BY <2>1, <2>2
<1> QED
  BY <1>1, <1>2, <1>3, <1>5, <1>6 DEF Away

LEMMA EndStopKeeps ==
  ASSUME IInv, NEW u \in Units, EndStop(u)
  PROVE  IInv'
<1>1. /\ PodGone(u) /\ phase[u] = "stepping"
      /\ unit_state' = [unit_state EXCEPT ![u] = "RESTARTING"]
      /\ UNCHANGED <<revision, base, partition, versions, leader, deferred, epoch, resumed,
                     excused, faults>>
  BY DEF EndStop, history
<1>2. /\ SetTypeOK' /\ UNCHANGED <<revision, partition>>
      /\ phase' \in [Units -> Phases] /\ synced' \subseteq serving'
      /\ serving' \subseteq Units /\ HookTypeOK'
      /\ \A x \in Units : PodOK(x)' /\ HookOK(x)'
      /\ \A x \in Units : x # u => (x \in serving' <=> x \in serving)
      /\ \A x \in Units : Away(x)' => Away(x)
      /\ \A x \in Units : pod'[x] \in {0, pod[x]}
  BY <1>1, PodGoneKeeps
<1>3. /\ unit_state' \in [Units -> UnitState] /\ unit_state'[u] = "RESTARTING"
      /\ \A x \in Units \ {u} : unit_state'[x] = unit_state[x]
  BY <1>1 DEF IInv, TypeOK, UnitState
<1>4. TypeOK'
  BY <1>1, <1>2, <1>3 DEF IInv, TypeOK, SetTypeOK, HookTypeOK
<1>5. ASSUME ~excused', NEW x \in Units PROVE SaidSo(x)'
  BY <1>1, <1>2, <1>3, <1>5 DEF IInv, SaidSo
<1>6. ASSUME ~excused', NEW x \in Units PROVE Covered(x)'
  BY <1>1, <1>2, <1>6 DEF IInv, Covered, NothingToReplace
<1> QED
  BY <1>2, <1>4, <1>5, <1>6 DEF IInv

LEMMA KillStopKeeps ==
  ASSUME IInv, NEW u \in Units, KillStop(u)
  PROVE  IInv'
<1>1. /\ PodGone(u) /\ phase[u] \in {"stopping", "stepping"}
      /\ excused' = TRUE /\ faults < MaxFaults /\ faults' = faults + 1
      /\ UNCHANGED <<revision, base, partition, databag, leader, deferred, epoch, resumed>>
  BY DEF KillStop
<1>2. /\ SetTypeOK' /\ phase' \in [Units -> Phases] /\ synced' \subseteq serving'
      /\ serving' \subseteq Units /\ HookTypeOK'
      /\ \A x \in Units : PodOK(x)' /\ HookOK(x)'
  BY <1>1, PodGoneKeeps DEF databag
<1>3. faults' \in 0..MaxFaults
  BY <1>1, BoundsAssumption DEF IInv, TypeOK
<1>4. TypeOK'
  BY <1>1, <1>2, <1>3 DEF IInv, TypeOK, SetTypeOK, HookTypeOK, databag
<1> QED
  BY <1>1, <1>2, <1>4 DEF IInv

LEMMA RefreshKeeps ==
  ASSUME IInv, NEW r \in Revisions, Refresh(r)
  PROVE  IInv'
<1> USE DEF Refresh, mongod, databag
<1>1. epoch' \in 1..MaxRefreshes
  BY BoundsAssumption DEF IInv, TypeOK
<1>2. TypeOK'
  BY <1>1 DEF IInv, TypeOK
<1>3. ASSUME NEW x \in Units PROVE PodOK(x)' /\ HookOK(x)'
  BY DEF IInv, PodOK, HookOK, Busy
<1>4. ASSUME ~excused', NEW x \in Units PROVE SaidSo(x)' /\ Covered(x)'
  BY <1>4 DEF IInv, SaidSo, Covered, Away
<1> QED
  BY <1>2, <1>3, <1>4 DEF IInv

(* Kubernetes has asked a pod to stop.                                     *)
LEMMA StoppingKeeps ==
  ASSUME IInv, NEW u \in Units, phase[u] \in Ready, phase' = [phase EXCEPT ![u] = "stopping"],
         resumed' \in BOOLEAN, faults' \in 0..MaxFaults,
         UNCHANGED <<stateful_set, mongod, databag, leader, deferred, hook, epoch, excused>>
  PROVE  IInv'
<1> USE DEF stateful_set, mongod, databag
<1>1. phase' \in [Units -> Phases] /\ phase'[u] = "stopping"
      /\ \A x \in Units \ {u} : phase'[x] = phase[x]
  BY DEF IInv, TypeOK, Phases
<1>2. TypeOK'
  BY <1>1 DEF IInv, TypeOK
<1>3. ASSUME NEW x \in Units PROVE PodOK(x)' /\ HookOK(x)'
  <2>1. CASE x = u
    BY <1>1, <2>1 DEF IInv, PodOK, HookOK, Busy, Ready
  <2>2. CASE x # u
    BY <1>1, <2>2 DEF IInv, PodOK, HookOK, Busy
  <2> QED
    BY <2>1, <2>2
<1>4. ASSUME ~excused', NEW x \in Units PROVE SaidSo(x)' /\ Covered(x)'
  BY <1>1, <1>4 DEF IInv, SaidSo, Covered, Away, NothingToReplace
<1> QED
  BY <1>2, <1>3, <1>4 DEF IInv

LEMMA ReplacePodKeeps ==
  ASSUME IInv, NEW u \in Units, ReplacePod(u)
  PROVE  IInv'
BY StoppingKeeps DEF ReplacePod, IInv, TypeOK

LEMMA EvictKeeps ==
  ASSUME IInv, NEW u \in Units, Evict(u)
  PROVE  IInv'
<1>1. faults' \in 0..MaxFaults /\ resumed' \in BOOLEAN
  BY BoundsAssumption DEF Evict, IInv, TypeOK
<1> QED
  BY <1>1, StoppingKeeps DEF Evict

LEMMA CreatePodKeeps ==
  ASSUME IInv, NEW u \in Units, CreatePod(u)
  PROVE  IInv'
<1> DEFINE new == IF u >= partition THEN revision ELSE base
<1>1. /\ phase[u] = "gone" /\ phase' = [phase EXCEPT ![u] = "created"]
      /\ pod' = [pod EXCEPT ![u] = new]
      /\ base' \in {revision, base} /\ deferred' = deferred \ {u}
      /\ UNCHANGED <<revision, partition, serving, synced, databag, leader, hook, history,
                     faults>>
  BY DEF CreatePod, mongod
<1>2. new \in Revisions /\ new # 0
  BY RevisionsAssumption DEF IInv, TypeOK
<1> HIDE DEF new
<1>3. /\ phase' \in [Units -> Phases] /\ phase'[u] = "created"
      /\ \A x \in Units \ {u} : phase'[x] = phase[x]
      /\ pod' \in [Units -> Revisions \cup {0}] /\ pod'[u] = new
      /\ \A x \in Units \ {u} : pod'[x] = pod[x]
  BY <1>1, <1>2 DEF IInv, TypeOK, Phases, Ready
<1>4. TypeOK'
  BY <1>1, <1>3 DEF IInv, TypeOK, databag, history
<1>5. ASSUME NEW x \in Units PROVE PodOK(x)' /\ HookOK(x)'
  <2>1. CASE x = u
    BY <1>1, <1>2, <1>3, <2>1 DEF IInv, PodOK, HookOK, Busy
  <2>2. CASE x # u
    BY <1>1, <1>3, <2>2 DEF IInv, PodOK, HookOK, Busy
  <2> QED
    BY <2>1, <2>2
<1>6. ASSUME ~excused', NEW x \in Units PROVE SaidSo(x)' /\ Covered(x)'
  <2>1. ~excused /\ SaidSo(x)'
    BY <1>1, <1>6 DEF IInv, SaidSo, databag, history
  <2> SUFFICES ASSUME Away(x)', partition' < x PROVE NothingToReplace'
    BY <2>1 DEF Covered
  <2>2. Away(x)
    BY <1>1, <1>3 DEF Away, IInv, PodOK
  <2>3. NothingToReplace
    BY <1>1, <2>1, <2>2 DEF IInv, Covered
  <2>4. u >= partition => new = revision
    BY DEF new
  <2> QED
    BY <1>1, <1>3, <2>3, <2>4 DEF NothingToReplace
<1> QED
  BY <1>4, <1>5, <1>6 DEF IInv

LEMMA SyncKeeps ==
  ASSUME IInv, NEW u \in Units, Sync(u)
  PROVE  IInv'
<1> USE DEF Sync, stateful_set, databag, history
<1>1. TypeOK'
  BY DEF IInv, TypeOK
<1>2. ASSUME NEW x \in Units PROVE PodOK(x)' /\ HookOK(x)'
  BY DEF IInv, PodOK, HookOK, Busy
<1>3. ASSUME ~excused', NEW x \in Units PROVE SaidSo(x)' /\ Covered(x)'
  BY <1>3 DEF IInv, SaidSo, Covered, Away, NothingToReplace
<1> QED
  BY <1>1, <1>2, <1>3 DEF IInv

LEMMA ElectLeaderKeeps ==
  ASSUME IInv, NEW u \in Units, ElectLeader(u)
  PROVE  IInv'
<1> USE DEF ElectLeader, stateful_set, mongod, databag, history
<1>1. TypeOK'
  BY BoundsAssumption DEF IInv, TypeOK
<1>2. ASSUME NEW x \in Units PROVE PodOK(x)' /\ HookOK(x)'
  BY DEF IInv, PodOK, HookOK, Busy
<1>3. ASSUME ~excused', NEW x \in Units PROVE SaidSo(x)' /\ Covered(x)'
  BY <1>3 DEF IInv, SaidSo, Covered, Away, NothingToReplace
<1> QED
  BY <1>1, <1>2, <1>3 DEF IInv

-----------------------------------------------------------------------------
LEMMA InitIInv == Init => IInv
<1> SUFFICES ASSUME Init PROVE IInv
  OBVIOUS
<1> PICK r \in Revisions, l \in FirstLeaders :
      /\ revision = r /\ base = r /\ versions = r
      /\ partition = 0 /\ leader = l
      /\ pod = [u \in Units |-> r]
      /\ phase = [u \in Units |-> "running"]
      /\ serving = Units /\ synced = Units
      /\ unit_state = [u \in Units |-> "HEALTHY"]
      /\ deferred = {} /\ hook = NoHook
      /\ epoch = 1 /\ resumed = TRUE /\ excused = FALSE
      /\ faults = 0
  BY DEF Init
<1>1. TypeOK
  <2>1. 0 \in Units /\ epoch \in 1..MaxRefreshes /\ faults \in 0..MaxFaults
    BY HighestAssumption, BoundsAssumption DEF Units
  <2>2. /\ pod \in [Units -> Revisions \cup {0}] /\ phase \in [Units -> Phases]
        /\ unit_state \in [Units -> UnitState]
    BY DEF Phases, Ready, UnitState
  <2> QED
    BY <2>1, <2>2, LeadersAssumption DEF TypeOK
<1>2. ASSUME NEW u \in Units PROVE PodOK(u) /\ HookOK(u) /\ SaidSo(u) /\ Covered(u)
  BY RevisionsAssumption DEF PodOK, HookOK, Busy, SaidSo, Covered, Away
<1> QED
  BY <1>1, <1>2 DEF IInv

LEMMA NextKeeps == IInv /\ [Next]_vars => IInv'
<1> SUFFICES ASSUME IInv, [Next]_vars PROVE IInv'
  OBVIOUS
<1>1. CASE UNCHANGED vars
  <2> USE <1>1 DEF vars, stateful_set, mongod, databag, history
  <2>1. TypeOK'
    BY DEF IInv, TypeOK
  <2>2. ASSUME NEW x \in Units PROVE PodOK(x)' /\ HookOK(x)'
    BY DEF IInv, PodOK, HookOK, Busy
  <2>3. ASSUME ~excused', NEW x \in Units PROVE SaidSo(x)' /\ Covered(x)'
    BY <2>3 DEF IInv, SaidSo, Covered, Away, NothingToReplace
  <2> QED
    BY <2>1, <2>2, <2>3 DEF IInv
<1>2. CASE \E r \in Revisions : Refresh(r)
  BY <1>2, RefreshKeeps
<1>3. ASSUME NEW u \in Units, NEW k \in Handlers, Run(u, k) PROVE IInv'
  BY <1>3, RunKeeps
<1>4. ASSUME NEW u \in Units,
             \/ \E k \in Handlers : Begin(u, k)
             \/ \E k \in Actions : Resume(u, k)
      PROVE  IInv'
  BY <1>4, BeginKeeps
<1>5. ASSUME NEW u \in Units, End(u) \/ Raise(u) \/ EndResume(u) PROVE IInv'
  BY <1>5, EndKeeps, RaiseKeeps, EndResumeKeeps
<1>6. ASSUME NEW u \in Units, PostAppUpgrade(u) \/ Sync(u) \/ ElectLeader(u) PROVE IInv'
  BY <1>6, PostAppUpgradeKeeps, SyncKeeps, ElectLeaderKeeps
<1>7. ASSUME NEW u \in Units, BeginStop(u) \/ EndStop(u) \/ KillStop(u) PROVE IInv'
  BY <1>7, BeginStopKeeps, EndStopKeeps, KillStopKeeps
<1>8. ASSUME NEW u \in Units, ReplacePod(u) \/ Evict(u) \/ CreatePod(u) PROVE IInv'
  BY <1>8, ReplacePodKeeps, EvictKeeps, CreatePodKeeps
<1> QED
  BY <1>1, <1>2, <1>3, <1>4, <1>5, <1>6, <1>7, <1>8 DEF Next

(* What the partition, the databags and the hooks in progress say of the   *)
(* pods holds in every state.                                              *)
THEOREM IInvAlways == Spec => []IInv
<1> QED
  BY InitIInv, NextKeeps, PTL DEF Spec

-----------------------------------------------------------------------------
(* The state of the set, of the pods and of the databags is well formed.   *)
THEOREM TypeCorrect == Spec => []TypeOK
<1>1. IInv => TypeOK
  BY DEF IInv
<1> QED
  BY <1>1, IInvAlways, PTL

(* The one action that takes a unit without a fault.                       *)
LEMMA OnlyReplacePodTakes ==
  ASSUME IInv, Next, NEW u \in Units, Taken(u)
  PROVE  ReplacePod(u)
<1> USE DEF Taken, Ready
<1>1. ASSUME NEW x \in Units, NEW k \in Handlers, Run(x, k) PROVE FALSE
  <2>1. HandleOK(x)
    BY <1>1, HandleKeeps DEF Run, CanRun, Now, Views, IInv, TypeOK
  <2>2. phase' = phase \/ phase'[x] \in {"upgraded", "running"}
    BY <1>1 DEF Run, Handle, IInv, TypeOK
  <2> QED
    BY <2>1, <2>2 DEF HandleOK
<1>2. ASSUME NEW x \in Units, End(x) PROVE FALSE
  <2>1. /\ phase' = phase \/ phase'[x] \in {"upgraded", "running"}
        /\ \A y \in Units \ {x} : phase'[y] = phase[y]
    BY <1>2 DEF End, Handle, IInv, TypeOK
  <2> QED
    BY <2>1
<1>3. ASSUME NEW x \in Units, ReplacePod(x), x # u PROVE FALSE
  BY <1>3 DEF ReplacePod, IInv, TypeOK
<1>4. ASSUME NEW x \in Units, Evict(x) PROVE FALSE
  BY <1>4 DEF Evict, IInv, TypeOK
<1>5. ASSUME NEW x \in Units, BeginStop(x) \/ EndStop(x) \/ KillStop(x) \/ CreatePod(x)
      PROVE  FALSE
  BY <1>5 DEF BeginStop, EndStop, KillStop, PodGone, CreatePod, IInv, TypeOK
<1>6. ASSUME phase' = phase PROVE FALSE
  BY <1>6
<1>7. ASSUME NEW x \in Units,
             \/ \E k \in Handlers : Begin(x, k)
             \/ \E k \in Actions : Resume(x, k)
             \/ Raise(x) \/ PostAppUpgrade(x) \/ EndResume(x) \/ Sync(x) \/ ElectLeader(x)
      PROVE  FALSE
  BY <1>6, <1>7 DEF Begin, Resume, Raise, PostAppUpgrade, EndResume, Sync, ElectLeader
<1>8. ASSUME NEW r \in Revisions, Refresh(r) PROVE FALSE
  BY <1>6, <1>8 DEF Refresh
<1> QED
  BY <1>1, <1>2, <1>3, <1>4, <1>5, <1>7, <1>8 DEF Next

(* The controller takes a unit to refresh it only when mongod answers on   *)
(* every higher unit, but for the excuses the model names: forced units,   *)
(* stop hooks that were killed, a leader whose view was out of date.       *)
THEOREM HigherBackAlways == Spec => HigherBack
<1> DEFINE Step == \A u \in Units : Taken(u) => excused \/ Higher(u) \subseteq serving
<1>1. IInv /\ [Next]_vars => [Step]_vars
  <2> SUFFICES ASSUME IInv, Next, NEW u \in Units, Taken(u), ~excused,
                      NEW w \in Higher(u), w \notin serving
               PROVE  FALSE
    OBVIOUS
  <2>1. ReplacePod(u)
    BY OnlyReplacePodTakes
  <2>2. /\ u \in Units /\ w \in Units /\ u < w /\ u >= partition /\ pod[u] # revision
        /\ phase[u] \in Ready /\ phase[w] \in Ready /\ partition \in Units
    BY <2>1 DEF ReplacePod, Higher, IInv, TypeOK
  <2>3. Away(w)
    BY DEF Away
  <2>4. partition < w
    BY <2>2, HighestAssumption DEF Units
  <2>5. NothingToReplace
    BY <2>2, <2>3, <2>4 DEF IInv, Covered
  <2>6. pod[u] # 0
    BY <2>2 DEF IInv, PodOK, Ready
  <2> QED
    BY <2>2, <2>5, <2>6 DEF NothingToReplace
<1> QED
  BY <1>1, IInvAlways, PTL DEF Spec, HigherBack

-----------------------------------------------------------------------------
(* The confirmation of the second unit.                                    *)

(* A handler of the leader leaves the partition below the first unit only  *)
(* when the second one, if outdated, is not the next.                      *)
LEMMA DetermineFirst ==
  ASSUME NEW view, NEW states, NEW from_event, InProgress(view),
         DeterminePartition(view, states, from_event, FALSE) < Highest
  PROVE  /\ states[Highest] = "HEALTHY" /\ view.pod[Highest] = view.revision
         /\ ~from_event => view.pod[Highest - 1] = view.revision
<1> DEFINE lagging == Lagging(view, states, FALSE)
           last == Last(lagging)
<1>1. lagging \in SUBSET Units /\ lagging # {}
  BY DEF InProgress, Lagging
<1>2. last \in lagging /\ \A w \in lagging : w <= last
  BY <1>1, LastIsGreatest
<1>3. Highest \in Units /\ Highest - 1 \in Units /\ last \in Int
  <2>1. last \in Units
    BY <1>1, <1>2
  <2> HIDE DEF last
  <2> QED BY <2>1, HighestAssumption DEF Units
<1>4. last < Highest /\ (~from_event => last # Highest - 1)
  <2>1. (IF ~from_event /\ last = Highest - 1 THEN Highest ELSE last) < Highest
    BY <1>1 DEF DeterminePartition
  <2> HIDE DEF last
  <2> QED BY <1>3, <2>1, HighestAssumption
<1>5. Highest \notin lagging /\ (~from_event => Highest - 1 \notin lagging)
  <2> HIDE DEF last, lagging
  <2> QED BY <1>2, <1>3, <1>4, HighestAssumption
<1> QED BY <1>3, <1>5 DEF Lagging

(* While the operator's confirmation is due, the partition holds the second *)
(* unit, or it has nothing to go to.                                       *)
SecondHeld ==
  ~excused /\ ~resumed =>
    \/ partition = Highest \/ phase[Highest] = "stopping"
    \/ pod[Highest] # revision \/ pod[Highest - 1] \in {0, revision}

LEMMA FirstAndSecond == Highest \in Units /\ Highest - 1 \in Units /\ 0 \in Units
  BY HighestAssumption DEF Units

LEMMA LowerHoldsSecond ==
  ASSUME TypeOK, SecondHeld, NEW view \in Views, NEW states, NEW force \in BOOLEAN,
         Lower(view, states, FALSE, force), ~excused', ~resumed
  PROVE  \/ partition' = Highest \/ phase[Highest] = "stopping"
         \/ pod[Highest] # revision \/ pod[Highest - 1] \in {0, revision}
<1> DEFINE wanted == DeterminePartition(view, states, FALSE, force)
           due == DeterminePartition(Now, ToCome(states), FALSE, force)
<1>1. CASE partition' = partition
  BY <1>1 DEF SecondHeld, Lower
<1>2. CASE partition' # partition /\ partition' # Highest /\ InProgress(Now)
  <2>1. partition' = wanted /\ ~force /\ ~(wanted < due)
    BY <1>2 DEF Lower
  <2>2. wanted \in Units /\ due \in Units
    BY DetermineType
  <2>3. due < Highest
    <3> HIDE DEF due, wanted
    <3> QED BY <1>2, <2>1, <2>2, HighestAssumption DEF Units
  <2>4. force = FALSE
    BY <2>1
  <2>5. DeterminePartition(Now, ToCome(states), FALSE, FALSE) < Highest
    BY <2>3, <2>4
  <2>6. Now.pod[Highest - 1] = Now.revision
    BY <1>2, <2>5, DetermineFirst
  <2> QED BY <2>6 DEF Now
<1>3. CASE ~InProgress(Now)
  BY <1>3, FirstAndSecond DEF InProgress, Now
<1> QED BY <1>1, <1>2, <1>3

LEMMA HandleHoldsSecond ==
  ASSUME IInv, SecondHeld, NEW u \in Units, NEW k \in Handlers, NEW view \in Views,
         Handle(u, k, view), phase[u] \notin {"gone", "stepping"}
  PROVE  SecondHeld'
<1> SUFFICES ASSUME ~excused', ~resumed' PROVE SecondHeld'
  BY DEF SecondHeld
<1> DEFINE states == [unit_state EXCEPT ![u] = Reported(u, k)]
<1> TypeOK
  BY DEF IInv
<1>1. /\ UNCHANGED <<revision, base, pod, resumed>>
      /\ phase[Highest] = "stopping" => phase'[Highest] = "stopping"
  BY FirstAndSecond DEF Handle, TypeOK
<1>2. CASE Lower(view, states, FALSE, FALSE)
  BY <1>1, <1>2, LowerHoldsSecond DEF SecondHeld
<1>3. CASE UNCHANGED <<partition, excused>>
  BY <1>1, <1>3 DEF SecondHeld
<1> QED BY <1>2, <1>3 DEF Handle, Reconcile

(* A resume is the confirmation itself; one that is refused does nothing.  *)
LEMMA EndResumeHoldsSecond ==
  ASSUME TypeOK, SecondHeld, NEW u \in Units, EndResume(u)
  PROVE  SecondHeld'
<1>1. CASE resumed' = TRUE
  BY <1>1 DEF SecondHeld
<1>2. CASE UNCHANGED <<partition, resumed, excused>>
  BY <1>2 DEF EndResume, SecondHeld
<1> QED BY <1>1, <1>2 DEF EndResume

(* A refresh back to what the first unit runs, above the partition, has no  *)
(* part for it; one that finds it away is excused.                         *)
LEMMA RefreshHoldsSecond ==
  ASSUME IInv, SecondHeld, NEW r \in Revisions, Refresh(r)
  PROVE  SecondHeld'
<1> SUFFICES ASSUME ~excused', ~resumed', partition # Highest,
                    phase[Highest] # "stopping", pod[Highest] = r
             PROVE  FALSE
  BY DEF SecondHeld, Refresh
<1>1. partition < Highest
  BY HighestAssumption DEF IInv, TypeOK, Units
<1>2. phase[Highest] \notin Ready
  BY <1>1 DEF Refresh
<1>3. phase[Highest] \in {"stepping", "gone"}
  BY <1>2, FirstAndSecond DEF IInv, TypeOK, Phases
<1>4. Away(Highest)
  BY <1>3, FirstAndSecond DEF Away, IInv, PodOK
<1> QED BY <1>1, <1>4, FirstAndSecond DEF Refresh

(* A first unit created anew with the partition below it has left nothing  *)
(* outdated there; the second one takes the revision of the set.           *)
LEMMA CreatePodHoldsSecond ==
  ASSUME IInv, SecondHeld, NEW u \in Units, CreatePod(u)
  PROVE  SecondHeld'
<1>1. /\ phase[u] = "gone" /\ phase' = [phase EXCEPT ![u] = "created"]
      /\ pod' = [pod EXCEPT ![u] = IF u >= partition THEN revision ELSE base]
      /\ UNCHANGED <<revision, partition, history>>
  BY DEF CreatePod
<1> SUFFICES ASSUME ~excused, ~resumed, partition # Highest, phase'[Highest] # "stopping",
                    pod'[Highest] = revision
             PROVE  pod'[Highest - 1] \in {0, revision}
  BY <1>1 DEF SecondHeld, history
<1>2. partition <= Highest - 1 /\ partition \in Units
  BY HighestAssumption DEF IInv, TypeOK, Units
<1>3. CASE u = Highest
  <2>1. Away(Highest)
    BY <1>1, <1>3 DEF Away, IInv, PodOK
  <2>2. NothingToReplace
    BY <1>2, <2>1, FirstAndSecond, HighestAssumption DEF IInv, Covered, Units
  <2>3. Highest - 1 >= partition /\ Highest - 1 # Highest
    BY <1>2, HighestAssumption DEF Units
  <2> QED BY <1>1, <1>3, <2>2, <2>3, FirstAndSecond DEF NothingToReplace, IInv, TypeOK
<1>4. CASE u = Highest - 1
  <2>1. u >= partition
    BY <1>2, <1>4, HighestAssumption DEF Units
  <2> QED BY <1>1, <1>4, <2>1 DEF IInv, TypeOK
<1>5. CASE u \notin {Highest, Highest - 1}
  BY <1>1, <1>5, FirstAndSecond DEF SecondHeld, IInv, TypeOK
<1> QED BY <1>3, <1>4, <1>5

(* The steps that touch neither the set's revision nor the pods, and that  *)
(* never lower the partition.                                              *)
HoldsSecond ==
  /\ UNCHANGED revision
  /\ excused => excused'
  /\ resumed => resumed' \/ phase'[Highest] = "stopping"
  /\ partition = Highest => partition' = Highest
  /\ \A x \in Units : pod'[x] \in {0, pod[x]}
  /\ phase[Highest] = "stopping" =>
       phase'[Highest] = "stopping" \/ partition' = Highest \/ excused'

LEMMA HoldsSecondKeeps ==
  ASSUME IInv, SecondHeld, HoldsSecond
  PROVE  SecondHeld'
<1>1. revision # 0
  BY RevisionsAssumption DEF IInv, TypeOK
<1> QED BY <1>1, FirstAndSecond DEF SecondHeld, HoldsSecond

LEMMA StopHoldsSecond ==
  ASSUME IInv, SecondHeld, NEW u \in Units, BeginStop(u) \/ EndStop(u) \/ KillStop(u)
  PROVE  SecondHeld'
<1>1. CASE BeginStop(u)
  <2>1. partition' = Raised(u) /\ partition \in Units
    BY <1>1 DEF BeginStop, IInv, TypeOK
  <2>2. /\ partition = Highest => partition' = Highest
        /\ u = Highest => partition' = Highest
    BY <2>1, HighestAssumption DEF Raised, Units
  <2> QED BY <1>1, <2>2, FirstAndSecond, HoldsSecondKeeps
          DEF HoldsSecond, BeginStop, IInv, TypeOK, history
<1>2. CASE EndStop(u)
  BY <1>2, FirstAndSecond, HoldsSecondKeeps
     DEF HoldsSecond, EndStop, PodGone, IInv, TypeOK, history
<1>3. CASE KillStop(u)
  BY <1>3 DEF KillStop, SecondHeld
<1> QED BY <1>1, <1>2, <1>3

LEMMA NextHoldsSecond == IInv /\ SecondHeld /\ [Next]_vars => SecondHeld'
<1> SUFFICES ASSUME IInv, SecondHeld, [Next]_vars PROVE SecondHeld'
  OBVIOUS
<1> TypeOK
  BY DEF IInv
<1>1. CASE UNCHANGED vars
  BY <1>1 DEF SecondHeld, vars, stateful_set, history
<1>2. ASSUME NEW u \in Units, NEW k \in Handlers, Run(u, k) PROVE SecondHeld'
  BY <1>2, HandleHoldsSecond DEF Run, CanRun, Now, Views, TypeOK
<1>3. ASSUME NEW u \in Units, End(u) PROVE SecondHeld'
  <2>1. hook.view \in Views /\ phase[u] \notin {"gone", "stepping"}
    BY <1>3 DEF End, Busy, TypeOK, IInv, HookOK
  <2> QED BY <1>3, <2>1, HandleHoldsSecond DEF End
<1>4. ASSUME NEW u \in Units,
             \/ \E k \in Handlers : Begin(u, k)
             \/ \E k \in Actions : Resume(u, k)
             \/ Raise(u) \/ PostAppUpgrade(u) \/ Sync(u) \/ ElectLeader(u)
      PROVE  SecondHeld'
  <2>1. UNCHANGED <<stateful_set, phase, history>>
    BY <1>4 DEF Begin, Resume, Raise, PostAppUpgrade, Sync, ElectLeader
  <2> QED BY <2>1, HoldsSecondKeeps DEF HoldsSecond, stateful_set, history
<1>5. ASSUME NEW u \in Units, ReplacePod(u) \/ Evict(u) PROVE SecondHeld'
  BY <1>5, FirstAndSecond, HoldsSecondKeeps
     DEF HoldsSecond, ReplacePod, Evict, stateful_set, TypeOK
<1> QED
  BY <1>1, <1>2, <1>3, <1>4, <1>5, EndResumeHoldsSecond, RefreshHoldsSecond,
     CreatePodHoldsSecond, StopHoldsSecond DEF Next

(* The second unit is held by the partition while its confirmation is due, *)
(* whatever the refreshes, rollbacks, evictions and changes of leader.     *)
THEOREM SecondHeldAlways == Spec => []SecondHeld
<1>1. Init => SecondHeld
  BY DEF Init, SecondHeld
<1> QED BY <1>1, NextHoldsSecond, IInvAlways, PTL DEF Spec

(* The controller takes the second unit only after the operator resumed,   *)
(* but for the excuses the model names.                                    *)
THEOREM SecondUnitConfirmedAlways == Spec => SecondUnitConfirmed
<1> DEFINE Step == \A u \in Units : Taken(u) /\ u = Highest - 1 => excused \/ resumed
<1>1. IInv /\ SecondHeld /\ [Next]_vars => [Step]_vars
  <2> SUFFICES ASSUME IInv, SecondHeld, Next, Taken(Highest - 1), ~excused, ~resumed
               PROVE  FALSE
    OBVIOUS
  <2>1. ReplacePod(Highest - 1)
    BY FirstAndSecond, OnlyReplacePodTakes
  <2>2. Highest \in Higher(Highest - 1)
    BY FirstAndSecond, HighestAssumption DEF Higher
  <2>3. /\ phase[Highest] \in Ready /\ pod[Highest] = revision
        /\ pod[Highest - 1] # revision /\ phase[Highest - 1] \in Ready
        /\ Highest - 1 >= partition
    BY <2>1, <2>2 DEF ReplacePod
  <2>4. partition # Highest /\ phase[Highest] # "stopping" /\ pod[Highest - 1] # 0
    BY <2>3, FirstAndSecond, HighestAssumption DEF Ready, IInv, PodOK
  <2> QED BY <2>3, <2>4 DEF SecondHeld
<1> QED BY <1>1, IInvAlways, SecondHeldAlways, PTL DEF Spec, SecondUnitConfirmed

-----------------------------------------------------------------------------
(* An incompatible revision stops at the first unit.                       *)

(* What the handler of the leader has cached of the set is of the refresh  *)
(* under way, its own pod is still there, and the first unit has not gone  *)
(* back to another revision since.                                         *)
ViewOK ==
  hook # NoHook =>
    /\ hook.view.pod[hook.unit] = pod[hook.unit]
    /\ hook.kind \in Actions => InProgress(hook.view)
    /\ ~excused =>
         /\ hook.view.revision = revision
         /\ hook.view.pod[Highest] \in {0, revision} => pod[Highest] \in {0, revision}

(* A first unit that says it is healthy, or will once the set is, runs a   *)
(* revision compatible with the last finished refresh.                     *)
Vouched ==
  ~excused /\ pod[Highest] # 0 /\ (unit_state[Highest] = "HEALTHY" \/ Highest \in deferred)
    => IsCompatible(versions, pod[Highest])

(* The partition is below the first unit only when what that unit runs, or *)
(* will run when its pod is back, is compatible.                           *)
FirstFits ==
  ~excused /\ partition < Highest =>
    /\ pod[Highest] # 0 => IsCompatible(versions, pod[Highest])
    /\ phase[Highest] \in {"stepping", "gone"} => IsCompatible(versions, revision)

FitInv == ViewOK /\ Vouched /\ FirstFits

(* IsCompatible compares a revision with itself favourably.                *)
LEMMA SameIsCompatible == \A r \in Revisions : IsCompatible(r, r)
  BY RevisionsAssumption DEF IsCompatible

(* Who lowers the partition below the first unit finds it healthy and      *)
(* refreshed in the view it decides on.                                    *)
LEMMA LowerLooksAtFirst ==
  ASSUME TypeOK, NEW view \in Views, NEW states, NEW from_event, NEW force \in BOOLEAN,
         InProgress(view), Lower(view, states, from_event, force), ~excused',
         partition' # partition, partition' < Highest
  PROVE  states[Highest] = "HEALTHY" /\ view.pod[Highest] = view.revision
<1>1. /\ partition' = DeterminePartition(view, states, from_event, force)
      /\ force = FALSE
  BY DEF Lower
<1>2. DeterminePartition(view, states, from_event, FALSE) < Highest
  BY <1>1
<1> QED BY <1>2, DetermineFirst

LEMMA HandleFits ==
  ASSUME IInv, Vouched, FirstFits, NEW u \in Units, NEW k \in Handlers, NEW view \in Views,
         Handle(u, k, view), phase[u] \notin {"gone", "stepping"},
         view.pod[u] = pod[u],
         ~excused =>
           /\ view.revision = revision
           /\ view.pod[Highest] \in {0, revision} => pod[Highest] \in {0, revision}
  PROVE  Vouched' /\ FirstFits'
<1> SUFFICES ASSUME ~excused' PROVE Vouched' /\ FirstFits'
  BY DEF Vouched, FirstFits
<1> DEFINE states == [unit_state EXCEPT ![u] = Reported(u, k)]
           checked == k = "upgrade_charm" /\ IsCompatible(versions', pod[u])
           decides == u = leader /\ ~Held(u)
<1> TypeOK
  BY DEF IInv
<1>1. /\ UNCHANGED <<revision, pod>>
      /\ versions' = SavedVersions(u, view)
      /\ unit_state' = IF checked /\ synced = Units
                       THEN [states EXCEPT ![u] = "HEALTHY"] ELSE states
      /\ deferred' = IF checked /\ synced # Units THEN deferred \cup {u} ELSE deferred
      /\ IF decides THEN Lower(view, states, FALSE, FALSE) ELSE UNCHANGED <<partition, excused>>
  BY DEF Handle, Reconcile
<1>2. /\ phase[Highest] # "gone" => phase'[Highest] # "gone"
      /\ phase'[Highest] \in {"stepping", "gone"} => phase'[Highest] = phase[Highest]
  BY FirstAndSecond DEF Handle, TypeOK
<1>3. ~excused
  BY <1>1 DEF Lower
<1>4. Highest \in Units /\ revision \in Revisions /\ pod[u] # 0
  BY FirstAndSecond DEF IInv, PodOK, TypeOK
<1> HIDE DEF states, checked, decides
<1>5. u = leader /\ ~InProgress(view) =>
        versions' = revision /\ pod[Highest] \in {0, revision}
  <2> SUFFICES ASSUME u = leader, ~InProgress(view)
               PROVE  versions' = revision /\ pod[Highest] \in {0, revision}
    OBVIOUS
  <2>1. view.pod[u] \in {0, revision} /\ view.pod[Highest] \in {0, revision}
    BY <1>3, <1>4 DEF InProgress
  <2> QED BY <1>1, <1>3, <1>4, <2>1 DEF SavedVersions
<1>6. versions' = versions \/ (versions' = revision /\ pod[Highest] \in {0, revision})
  <2>1. CASE u = leader /\ ~InProgress(view)
    BY <1>5, <2>1
  <2>2. CASE ~(u = leader /\ ~InProgress(view))
    <3>1. versions' = SavedVersions(u, view)
      BY <1>1
    <3> QED BY <2>2, <3>1 DEF SavedVersions
  <2> QED BY <2>1, <2>2
<1>7. CASE versions' = revision /\ pod[Highest] \in {0, revision}
  BY <1>1, <1>4, <1>7, SameIsCompatible DEF Vouched, FirstFits
<1>8. CASE versions' = versions /\ (u = leader => InProgress(view))
  <2>1. Vouched'
    <3> SUFFICES ASSUME pod[Highest] # 0,
                        unit_state'[Highest] = "HEALTHY" \/ Highest \in deferred'
                 PROVE  IsCompatible(versions', pod[Highest])
      BY <1>1 DEF Vouched
    <3>1. CASE unit_state[Highest] = "HEALTHY" \/ Highest \in deferred
      BY <1>3, <1>8, <3>1 DEF Vouched
    <3>2. CASE unit_state[Highest] = "RESTARTING" /\ Highest \notin deferred
      <4>1. u = Highest
        BY <1>1, <1>4, <3>2 DEF states, TypeOK
      <4>2. checked \/ Reported(u, k) = "HEALTHY"
        BY <1>1, <3>2, <4>1 DEF states, TypeOK
      <4> QED BY <3>2, <4>1, <4>2 DEF checked, Reported, Held
    <3> QED BY <1>4, <3>1, <3>2 DEF TypeOK, UnitState
  <2>2. FirstFits'
    <3>1. CASE partition' = partition
      BY <1>1, <1>2, <1>3, <1>8, <3>1 DEF FirstFits
    <3>2. CASE partition' # partition /\ partition' < Highest
      <4>1. decides /\ Lower(view, states, FALSE, FALSE) /\ InProgress(view)
        BY <1>1, <1>8, <3>2 DEF decides
      <4>2. states[Highest] = "HEALTHY" /\ view.pod[Highest] = view.revision
        BY <3>2, <4>1, LowerLooksAtFirst
      <4>3. pod[Highest] \in {0, revision}
        BY <1>3, <4>2
      <4>4. unit_state'[Highest] = "HEALTHY"
        BY <1>1, <1>4, <4>2 DEF states, TypeOK
      <4>5. pod[Highest] # 0
        <5> SUFFICES ASSUME pod[Highest] = 0 PROVE FALSE
          OBVIOUS
        <5>1. Highest # u /\ Highest \notin serving
          BY <1>4 DEF IInv, PodOK
        <5>2. unit_state[Highest] = "RESTARTING"
          BY <1>3, <1>4, <5>1 DEF IInv, SaidSo
        <5> QED BY <4>2, <5>1, <5>2 DEF states, TypeOK
      <4>6. IsCompatible(versions', revision)
        BY <1>1, <2>1, <4>3, <4>4, <4>5 DEF Vouched
      <4> QED BY <1>1, <4>3, <4>5, <4>6 DEF FirstFits
    <3> QED BY <3>1, <3>2 DEF FirstFits
  <2> QED BY <2>1, <2>2
<1> QED BY <1>5, <1>6, <1>7, <1>8

LEMMA RunFits ==
  ASSUME IInv, FitInv, NEW u \in Units, NEW k \in Handlers, Run(u, k)
  PROVE  FitInv'
<1>1. Vouched' /\ FirstFits'
  BY HandleFits DEF Run, CanRun, Now, Views, IInv, TypeOK, FitInv
<1>2. UNCHANGED <<hook, pod, revision>> /\ (excused => excused')
  BY DEF Run, Handle, Reconcile, Lower
<1>3. ViewOK'
  BY <1>2 DEF FitInv, ViewOK, InProgress
<1> QED BY <1>1, <1>3 DEF FitInv

LEMMA EndFits ==
  ASSUME IInv, FitInv, NEW u \in Units, End(u)
  PROVE  FitInv'
<1>1. /\ hook # NoHook /\ hook.unit = u /\ hook.view \in Views /\ hook' = NoHook
      /\ phase[u] \notin {"gone", "stepping"} /\ Handle(u, hook.kind, hook.view)
      /\ hook.kind \in Handlers
  BY DEF End, Busy, IInv, TypeOK, HookOK
<1>2. Vouched' /\ FirstFits'
  BY <1>1, HandleFits DEF FitInv, ViewOK
<1> QED BY <1>1, <1>2 DEF FitInv, ViewOK

LEMMA EndResumeFits ==
  ASSUME IInv, FitInv, NEW u \in Units, EndResume(u)
  PROVE  FitInv'
<1> DEFINE force == hook.kind # "resume"
<1> TypeOK
  BY DEF IInv
<1>1. /\ hook # NoHook /\ hook.view \in Views /\ hook' = NoHook /\ InProgress(hook.view)
      /\ UNCHANGED <<revision, pod, phase, versions, unit_state, deferred>>
  BY DEF EndResume, Busy, TypeOK, FitInv, ViewOK, databag
<1>2. \/ UNCHANGED <<partition, excused>>
      \/ Lower(hook.view, unit_state, TRUE, force)
  BY DEF EndResume
<1>3. excused => excused'
  BY <1>2 DEF Lower
<1>4. ViewOK' /\ Vouched'
  BY <1>1, <1>3 DEF ViewOK, Vouched, FitInv
<1>5. FirstFits'
  <2> SUFFICES ASSUME ~excused', partition' < Highest PROVE FirstFits'
    BY DEF FirstFits
  <2>1. CASE partition' = partition
    BY <1>1, <1>3, <2>1 DEF FirstFits, FitInv
  <2>2. CASE partition' # partition
    <3>1. unit_state[Highest] = "HEALTHY" /\ hook.view.pod[Highest] = hook.view.revision
      <4>1. Lower(hook.view, unit_state, TRUE, force)
        BY <1>2, <2>2
      <4> QED BY <1>1, <2>2, <4>1, LowerLooksAtFirst
    <3>2. pod[Highest] \in {0, revision}
      BY <1>1, <1>3, <3>1 DEF FitInv, ViewOK
    <3>3. Highest \in serving
      BY <1>3, <3>1, FirstAndSecond DEF IInv, SaidSo
    <3>4. pod[Highest] # 0
      BY <3>3, FirstAndSecond DEF IInv, PodOK
    <3> QED BY <1>1, <1>3, <3>1, <3>2, <3>4 DEF FitInv, Vouched, FirstFits
  <2> QED BY <2>1, <2>2
<1> QED BY <1>4, <1>5 DEF FitInv

(* The leader begins a handler or an action, on the set as it is.          *)
LEMMA BeginFits ==
  ASSUME IInv, FitInv, NEW u \in Units,
         \/ \E k \in Handlers : Begin(u, k)
         \/ \E k \in Actions : Resume(u, k)
  PROVE  FitInv'
<1>1. /\ hook'.unit = u /\ hook'.view = Now
      /\ hook'.kind \in Actions => InProgress(Now)
      /\ UNCHANGED <<stateful_set, phase, databag, deferred, history>>
  BY DEF Begin, Resume, Actions, Handlers
<1> QED BY <1>1
    DEF FitInv, ViewOK, Vouched, FirstFits, Now, InProgress, stateful_set, databag, history

LEMMA RefreshFits ==
  ASSUME IInv, FitInv, NEW r \in Revisions, Refresh(r)
  PROVE  FitInv'
<1> SUFFICES ASSUME ~excused' PROVE FitInv'
  BY DEF FitInv, ViewOK, Vouched, FirstFits, Refresh, InProgress
<1>1. ~excused /\ hook = NoHook
      /\ UNCHANGED <<partition, pod, phase, versions, unit_state, deferred, hook>>
  BY DEF Refresh, databag
<1>2. phase[Highest] \in {"stepping", "gone"} => Away(Highest)
  BY FirstAndSecond DEF Away, IInv, PodOK
<1>3. ~(phase[Highest] \in {"stepping", "gone"} /\ partition < Highest)
  BY <1>2, FirstAndSecond DEF Refresh
<1> QED BY <1>1, <1>3 DEF FitInv, ViewOK, Vouched, FirstFits

LEMMA CreatePodFits ==
  ASSUME IInv, FitInv, NEW u \in Units, CreatePod(u)
  PROVE  FitInv'
<1> DEFINE new == IF u >= partition THEN revision ELSE base
<1>1. /\ phase[u] = "gone" /\ phase' = [phase EXCEPT ![u] = "created"]
      /\ pod' = [pod EXCEPT ![u] = new] /\ deferred' = deferred \ {u}
      /\ UNCHANGED <<revision, partition, versions, unit_state, hook, excused>>
  BY DEF CreatePod, databag, history
<1>2. u = Highest => new = revision
  BY HighestAssumption DEF IInv, TypeOK, Units
<1>3. u = Highest => phase[Highest] = "gone" /\ (~excused => unit_state[Highest] # "HEALTHY")
  BY <1>1, FirstAndSecond DEF IInv, PodOK, SaidSo
<1>4. hook # NoHook => hook.unit \in Units /\ hook.unit # u
  BY <1>1 DEF IInv, HookOK, Busy, TypeOK
<1> HIDE DEF new
<1>5. pod \in [Units -> Revisions \cup {0}] /\ phase \in [Units -> Phases]
  BY DEF IInv, TypeOK
<1>6. ViewOK'
  BY <1>1, <1>2, <1>4, <1>5, FirstAndSecond DEF FitInv, ViewOK, InProgress
<1>7. Vouched'
  BY <1>1, <1>3, <1>5, FirstAndSecond DEF FitInv, Vouched
<1>8. FirstFits'
  BY <1>1, <1>2, <1>3, <1>5, FirstAndSecond DEF FitInv, FirstFits
<1> QED BY <1>6, <1>7, <1>8 DEF FitInv

(* The steps that bring no revision and lower no partition.                *)
KeepsFit ==
  /\ UNCHANGED <<revision, versions>>
  /\ excused => excused'
  /\ pod'[Highest] \in {0, pod[Highest]}
  /\ unit_state'[Highest] = "HEALTHY" \/ Highest \in deferred' =>
       unit_state[Highest] = "HEALTHY" \/ Highest \in deferred
  /\ partition' < Highest => partition < Highest
  /\ phase'[Highest] \in {"stepping", "gone"} =>
       \/ phase[Highest] \in {"stepping", "gone"}
       \/ ~(partition' < Highest) \/ excused'
  /\ hook' = NoHook \/ (hook' = hook /\ pod'[hook.unit] = pod[hook.unit])

LEMMA KeepsFitInv ==
  ASSUME IInv, FitInv, KeepsFit
  PROVE  FitInv'
<1>1. pod[Highest] # 0 \/ pod'[Highest] = 0
  BY DEF KeepsFit
<1>2. ViewOK'
  BY DEF FitInv, KeepsFit, ViewOK, InProgress
<1>3. Vouched' /\ FirstFits'
  BY <1>1 DEF FitInv, KeepsFit, Vouched, FirstFits
<1> QED BY <1>2, <1>3 DEF FitInv

LEMMA StopFits ==
  ASSUME IInv, FitInv, NEW u \in Units, BeginStop(u) \/ EndStop(u) \/ KillStop(u)
  PROVE  FitInv'
<1> TypeOK
  BY DEF IInv
<1>1. CASE BeginStop(u)
  <2>1. partition' = Raised(u) /\ partition \in Units
    BY <1>1 DEF BeginStop, TypeOK
  <2>2. /\ partition' < Highest => partition < Highest
        /\ u = Highest => ~(partition' < Highest)
    BY <2>1, HighestAssumption DEF Raised, Units
  <2>3. /\ UNCHANGED <<revision, pod, versions, unit_state, deferred, hook, excused>>
        /\ u # Highest => phase'[Highest] = phase[Highest]
    BY <1>1, FirstAndSecond DEF BeginStop, TypeOK, databag, history
  <2>4. KeepsFit
    BY <2>2, <2>3 DEF KeepsFit
  <2> QED BY <2>4, KeepsFitInv
<1>2. CASE EndStop(u) \/ KillStop(u)
  <2>1. /\ UNCHANGED <<revision, partition, versions, deferred>> /\ (excused => excused')
        /\ PodGone(u)
        /\ \/ phase[u] = "stepping"
           \/ excused'
        /\ \/ unit_state' = [unit_state EXCEPT ![u] = "RESTARTING"]
           \/ UNCHANGED unit_state
    BY <1>2 DEF EndStop, KillStop, databag, history
  <2>2. /\ pod' = [pod EXCEPT ![u] = 0] /\ phase' = [phase EXCEPT ![u] = "gone"]
        /\ hook' = NoHook \/ (hook' = hook /\ (hook = NoHook \/ hook.unit # u))
    BY <2>1 DEF PodGone, Busy
  <2>3. hook # NoHook => hook.unit \in Units
    BY DEF TypeOK
  <2>4. hook' = NoHook \/ (hook' = hook /\ pod'[hook.unit] = pod[hook.unit])
    BY <2>2, <2>3 DEF TypeOK
  <2>5. /\ pod'[Highest] \in {0, pod[Highest]}
        /\ unit_state'[Highest] = "HEALTHY" => unit_state[Highest] = "HEALTHY"
        /\ phase'[Highest] = phase[Highest] \/ u = Highest
    BY <2>1, <2>2, FirstAndSecond DEF TypeOK
  <2>6. KeepsFit
    BY <2>1, <2>4, <2>5 DEF KeepsFit
  <2> QED BY <2>6, KeepsFitInv
<1> QED BY <1>1, <1>2

LEMMA NextFits == IInv /\ FitInv /\ [Next]_vars => FitInv'
<1> SUFFICES ASSUME IInv, FitInv, [Next]_vars PROVE FitInv'
  OBVIOUS
<1> TypeOK
  BY DEF IInv
<1>1. CASE UNCHANGED vars
  BY <1>1, KeepsFitInv DEF KeepsFit, vars, stateful_set, databag, history
<1>2. ASSUME NEW u \in Units, Raise(u) \/ Sync(u) \/ ElectLeader(u) PROVE FitInv'
  <2>1. UNCHANGED <<stateful_set, phase, databag, deferred, history>>
        /\ hook' \in {hook, NoHook}
    BY <1>2 DEF Raise, Sync, ElectLeader
  <2> QED BY <2>1, KeepsFitInv DEF KeepsFit, stateful_set, databag, history
<1>3. ASSUME NEW u \in Units, PostAppUpgrade(u) PROVE FitInv'
  BY <1>3, FirstAndSecond, KeepsFitInv
     DEF PostAppUpgrade, KeepsFit, stateful_set, history, TypeOK
<1>4. ASSUME NEW u \in Units, ReplacePod(u) \/ Evict(u) PROVE FitInv'
  BY <1>4, FirstAndSecond, KeepsFitInv
     DEF ReplacePod, Evict, KeepsFit, stateful_set, databag, TypeOK
<1> QED
  BY <1>1, <1>2, <1>3, <1>4, RunFits, EndFits, EndResumeFits, BeginFits, RefreshFits,
     CreatePodFits, StopFits DEF Next

(* The partition is never below a first unit that runs, or will run, a     *)
(* revision incompatible with the last finished refresh, however long ago  *)
(* the leader's handler read the set.                                      *)
THEOREM FirstFitsAlways == Spec => []FitInv
<1>1. Init => FitInv
  <2> SUFFICES ASSUME Init PROVE FitInv
    OBVIOUS
  <2>1. versions \in Revisions /\ pod = [u \in Units |-> versions] /\ revision = versions
        /\ hook = NoHook
    BY DEF Init
  <2> QED BY <2>1, SameIsCompatible, FirstAndSecond DEF FitInv, ViewOK, Vouched, FirstFits
<1> QED BY <1>1, NextFits, IInvAlways, PTL DEF Spec

(* The controller takes no unit below the first to an incompatible         *)
(* revision, but for the excuses the model names.                          *)
THEOREM IncompatibleHeldAlways == Spec => IncompatibleHeld
<1> DEFINE Step == \A u \in Units : Taken(u) /\ u < Highest =>
                     excused \/ IsCompatible(versions, revision)
<1>1. IInv /\ FitInv /\ [Next]_vars => [Step]_vars
  <2> SUFFICES ASSUME IInv, FitInv, Next, NEW u \in Units, Taken(u), u < Highest, ~excused
               PROVE  IsCompatible(versions, revision)
    OBVIOUS
  <2>1. ReplacePod(u)
    BY OnlyReplacePodTakes
  <2>2. Highest \in Higher(u)
    BY FirstAndSecond DEF Higher
  <2>3. /\ phase[Highest] \in Ready /\ pod[Highest] = revision
        /\ u >= partition /\ partition \in Units
    BY <2>1, <2>2 DEF ReplacePod, IInv, TypeOK
  <2>4. partition < Highest
    BY <2>3, HighestAssumption DEF Units
  <2>5. pod[Highest] # 0
    BY <2>3, FirstAndSecond DEF IInv, PodOK, Ready
  <2> QED BY <2>3, <2>4, <2>5 DEF FitInv, FirstFits
<1> QED BY <1>1, IInvAlways, FirstFitsAlways, PTL DEF Spec, IncompatibleHeld

-----------------------------------------------------------------------------
(* The safety half of ResumedCompletes.                                    *)

Calm == \A u \in Units : phase[u] = "running"

(* The next unit to refresh, as the controller and the leader see it.      *)
Outdated == {u \in Units : pod[u] # revision}
Late == Last(Outdated)

(* In a resumed refresh whose pods all run the controller may take the     *)
(* next unit, or every higher one runs the new revision, answers, and      *)
(* reports itself healthy at its next update-status (none is held back).   *)
ResumedGoesOn ==
  InProgress(Now) /\ UpgradeResumed /\ ~excused /\ Calm =>
    \/ partition <= Late
    \/ \A w \in Higher(Late) :
         pod[w] = revision /\ w \in serving /\ ~HeldBack(w)

LEMMA LateIsHighest ==
  ASSUME Outdated # {}
  PROVE  /\ Late \in Outdated /\ Late \in Units
         /\ \A w \in Higher(Late) : pod[w] = revision
<1>1. Outdated \in SUBSET Units
  BY DEF Outdated
<1>2. Late \in Outdated /\ \A w \in Outdated : w <= Late
  BY <1>1, LastIsGreatest DEF Late
<1>3. Late \in Units
  BY <1>1, <1>2
<1> HIDE DEF Late
<1>4. \A w \in Higher(Late) : w \notin Outdated
  BY <1>2, <1>3, HighestAssumption DEF Higher, Units
<1> QED
  BY <1>2, <1>3, <1>4 DEF Outdated, Higher

(* With the pods all there, a refresh is in progress when a pod is not of  *)
(* the set's revision.                                                     *)
LEMMA InProgressOutdated == InProgress(Now) => Outdated # {}
  BY DEF InProgress, Now, Outdated

(* A refresh that was resumed is never stuck between the controller, which *)
(* waits for the partition, and the leader, which waits for the units.     *)
THEOREM ResumedAlwaysGoesOn == Spec => []ResumedGoesOn
<1>1. IInv /\ FitInv => ResumedGoesOn
  <2> SUFFICES ASSUME IInv, FitInv, InProgress(Now), UpgradeResumed, ~excused, Calm,
                      ~(partition <= Late), NEW w \in Higher(Late)
               PROVE  pod[w] = revision /\ w \in serving /\ ~HeldBack(w)
    BY DEF ResumedGoesOn
  <2>1. /\ Late \in Units
        /\ \A x \in Higher(Late) : pod[x] = revision
    BY InProgressOutdated, LateIsHighest
  <2>2. w \in Units /\ pod[w] = revision
    BY <2>1 DEF Higher
  <2>3. w \in serving
    BY <2>2 DEF IInv, PodOK, Calm
  <2>4. Highest \in Higher(Late)
    <3> HIDE DEF Late
    <3> QED BY <2>1, FirstAndSecond, HighestAssumption DEF Higher, Units, UpgradeResumed, IInv, TypeOK
  <2>5. pod[Highest] = revision /\ pod[Highest] # 0
    BY <2>1, <2>4, FirstAndSecond DEF IInv, PodOK, Calm
  <2>6. IsCompatible(versions, revision)
    BY <2>5 DEF FitInv, FirstFits, UpgradeResumed
  <2> QED
    BY <2>2, <2>3, <2>6 DEF HeldBack
<1> QED
  BY <1>1, IInvAlways, FirstFitsAlways, PTL

(* The leader's update-status, when the higher units have reported         *)
(* themselves, and its view of the set is not out of date, lowers the      *)
(* partition to the next unit, unless the leader is held back.             *)
LeaderLowers ==
  /\ End(leader) /\ hook.kind = "update_status" /\ hook.view = Now
  /\ InProgress(Now) /\ UpgradeResumed /\ Calm /\ ~HeldBack(leader)
  /\ Late < partition
  /\ \A w \in Higher(Late) \ {leader} : unit_state[w] = "HEALTHY"
  => partition' = Late

(* What the loop of _determine_partition finds when the units above the    *)
(* next one are healthy.                                                   *)
LEMMA DetermineLate ==
  ASSUME TypeOK, InProgress(Now), UpgradeResumed, Late < partition,
         NEW states, \A w \in Higher(Late) : states[w] = "HEALTHY"
  PROVE  DeterminePartition(Now, states, FALSE, FALSE) = Late
<1> DEFINE lagging == Lagging(Now, states, FALSE)
<1>1. /\ Late \in Outdated /\ Late \in Units
      /\ \A w \in Higher(Late) : pod[w] = revision
  BY InProgressOutdated, LateIsHighest
<1>2. lagging \in SUBSET Units /\ Late \in lagging
  BY <1>1 DEF Lagging, Now, Outdated
<1>3. Last(lagging) \in lagging /\ \A w \in lagging : w <= Last(lagging)
  BY <1>2, LastIsGreatest
<1>4. \A w \in Higher(Late) : w \notin lagging
  BY <1>1 DEF Lagging, Now
<1> DEFINE last == Last(lagging)
<1>5. last = Late
  <2>1. last \in Units /\ last \in lagging /\ Late <= last
    BY <1>2, <1>3
  <2> HIDE DEF last, lagging, Late
  <2>2. last \notin Higher(Late)
    BY <2>1, <1>4
  <2> QED
    BY <2>1, <2>2, <1>1, HighestAssumption DEF Higher, Units
<1>6. Late # Highest - 1
  <2> HIDE DEF Late
  <2> QED
    BY <1>1, HighestAssumption DEF UpgradeResumed, TypeOK, Units
<1> QED
  BY <1>2, <1>5, <1>6 DEF DeterminePartition

LEMMA LeaderLowersStep ==
  ASSUME IInv
  PROVE  LeaderLowers
<1> SUFFICES ASSUME End(leader), hook.kind = "update_status", hook.view = Now,
                    InProgress(Now), UpgradeResumed, Calm, ~HeldBack(leader),
                    Late < partition,
                    \A w \in Higher(Late) \ {leader} : unit_state[w] = "HEALTHY"
             PROVE  partition' = Late
  BY DEF LeaderLowers
<1> DEFINE states == [unit_state EXCEPT ![leader] = Reported(leader, "update_status")]
<1>1. TypeOK /\ leader \in Units
  BY DEF IInv, TypeOK
<1>2. Handle(leader, "update_status", Now)
  BY DEF End
<1>3. versions' = versions
  BY <1>2 DEF Handle, Reconcile, SavedVersions
<1>4. ~Held(leader)
  BY <1>3 DEF Held, HeldBack
<1>5. leader \in serving'
  BY <1>1, <1>2 DEF Handle, IInv, PodOK, Calm
<1>6. Reported(leader, "update_status") = "HEALTHY"
  BY <1>4, <1>5 DEF Reported
<1>7. Lower(Now, states, FALSE, FALSE)
  BY <1>2, <1>4 DEF Handle, Reconcile
<1>8. \A w \in Higher(Late) : states[w] = "HEALTHY"
  BY <1>1, <1>6 DEF TypeOK, Higher
<1>9. DeterminePartition(Now, states, FALSE, FALSE) = Late
  BY <1>1, <1>8, DetermineLate
<1>10. Late < Now.partition
  BY DEF Now
<1> HIDE DEF states
<1> QED
  BY <1>7, <1>9, <1>10 DEF Lower

(* The step that the leader takes on the way to the end of a refresh.      *)
THEOREM LeaderAlwaysLowers == Spec => [][LeaderLowers]_vars
<1>1. IInv /\ [Next]_vars => [LeaderLowers]_vars
  BY LeaderLowersStep
<1> QED
  BY <1>1, IInvAlways, PTL DEF Spec
=============================================================================
