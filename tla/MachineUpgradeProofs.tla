------------------------ MODULE MachineUpgradeProofs ------------------------
(***************************************************************************)
(* Proofs about the refresh on machines, for every set of units, every     *)
(* history of refreshes and every number of faults.                        *)
(***************************************************************************)
EXTENDS MachineUpgrade, FiniteSetTheorems, TLAPS

(* The code a unit runs is the one its refresh brought; a unit that juju    *)
(* has no upgrade-charm queued for runs the latest.                        *)
CodeIsRefresh ==
  \A u \in Units :
    /\ charm[u] = refreshes[charm_epoch[u]]
    /\ "upgrade_charm" \notin todo[u] => charm_epoch[u] = epoch

(* Only an outdated unit restarts, and it publishes its old snap meanwhile. *)
RestartPending ==
  \A u \in Units :
    running[u] # "none" =>
      /\ restart_epoch[u] = charm_epoch[u]
      /\ snap_revision[u] # SnapOf[charm[u]]
      /\ charm_epoch[u] = epoch \/ overlapped

(* A unit out of sync never looks ready to the units below it.             *)
DownNotReady ==
  \A u \in down : snap_revision[u] # Goal(u) \/ unit_state[u] # "HEALTHY"

(* OneUnitDown already holds of the units that are about to stop mongod.   *)
Away == down \cup {u \in Units : running[u] # "none"}
OneAway ==
  \A u, w \in Away :
    \/ u = w
    \/ restart_epoch[u] # restart_epoch[w]
    \/ u \in forced \/ w \in forced
    \/ overlapped

InRestart == \A u \in Units : stage[u] # "none" => running[u] # "none"

(* A unit that looked and has not stopped mongod yet still sees another    *)
(* primary, or has stepped down and is not elected again.                  *)
Calm == elections = 0 /\ forced = {} /\ ~overlapped
PrimaryKept ==
  Calm => \A u \in Units : Units # {u} =>
    /\ stage[u] = "saw another" => primary # u /\ primary # Nobody
    /\ stage[u] = "stepped down" => primary # u

IInv ==
  /\ TypeOK /\ CodeIsRefresh /\ RestartPending /\ DownNotReady
  /\ HigherFirst /\ OneAway /\ InRestart /\ PrimaryKept

(* Found through the well-founded order of subsets: the smallest of the    *)
(* sets {w \in Units : w <= u} is that of the lowest unit.                 *)
LEMMA LowestIsAUnit == Lowest \in Units /\ \A w \in Units : Lowest <= w
<1> DEFINE Below(u) == {w \in Units : w <= u}
           T == {Below(u) : u \in Units}
<1>1. T \subseteq FiniteSubsetsOf(Units) /\ T # {}
  <2>1. FiniteSubsetsOf(Units) = SUBSET Units
    BY FS_FiniteSubsetsOfFinite, UnitsAssumption
  <2>2. T \subseteq SUBSET Units
    BY SMT
  <2>3. PICK u \in Units : TRUE
    BY UnitsAssumption
  <2>4. Below(u) \in T
    OBVIOUS
  <2> QED BY <2>1, <2>2, <2>4
<1>2. PICK s \in T : \A t \in T : <<t, s>> \notin StrictSubsetOrdering(Units)
  <2> HIDE DEF T
  <2> QED BY <1>1, FS_StrictSubsetOrderingWellFounded, WFMin
<1>3. PICK u \in Units : s = Below(u)
  BY <1>2
<1>4. \A w \in Units : u <= w
  <2> SUFFICES ASSUME NEW w \in Units, w < u PROVE FALSE
    BY UnitsAssumption
  <2>1. Below(w) \in T
    OBVIOUS
  <2>2. Below(w) \subseteq Below(u)
    <3> SUFFICES ASSUME NEW v \in Units, v <= w PROVE v <= u
      BY Zenon
    <3> QED BY UnitsAssumption
  <2>3. u \in Below(u) /\ u \notin Below(w)
    BY UnitsAssumption
  <2>4. <<Below(w), Below(u)>> \in StrictSubsetOrdering(Units)
    <3>1. Below(w) \in SUBSET Units /\ Below(u) \in SUBSET Units
      OBVIOUS
    <3> HIDE DEF Below
    <3> QED BY <2>2, <2>3, <3>1 DEF StrictSubsetOrdering
  <2> QED BY <2>1, <2>4, <1>2, <1>3
<1> QED BY <1>4 DEF Lowest

LEMMA SnapIsASnap == \A r \in Revisions : SnapOf[r] \in Snaps
  BY DEF Snaps

(* Every step has the right types.  BeginRestart and GiveUpRestart are the *)
(* ends of three handlers, so their part is proved once.                   *)

LEMMA NobodyIsNoUnit == Nobody \notin Units
  BY UnitsAssumption DEF Nobody

LEMMA PrimaryBeforeType ==
  ASSUME TypeOK, NEW u \in Units, NEW r, NEW hook
  PROVE  PrimaryBefore(u, r, hook) \in Units \cup {Nobody}
  BY LowestIsAUnit DEF TypeOK, PrimaryBefore

LEMMA BeginType ==
  ASSUME TypeOK, NEW u \in Units, NEW r, NEW hook \in Hooks \cup {"force"},
         BeginRestart(u, r, hook), charm_epoch'[u] \in 1..epoch
  PROVE  /\ snap_revision' \in [Units -> Snaps] /\ installed' \in [Units -> Snaps]
         /\ unit_state' \in [Units -> UnitState] /\ upgrade_resumed' \in BOOLEAN
         /\ versions' \in Versions /\ down' \subseteq Units /\ deferred' \subseteq Units
         /\ forced' \subseteq Units /\ primary' \in Units \cup {Nobody}
         /\ running' \in [Units -> Hooks \cup {"none", "force"}] /\ stage' \in [Units -> Stages]
         /\ restart_epoch' \in [Units -> 1..epoch] /\ confirmed' \in 0..epoch
         /\ overlapped' \in BOOLEAN /\ failures' \in 0..MaxFaults
<1>1. primary' \in Units \cup {Nobody}
  BY PrimaryBeforeType DEF BeginRestart
<1>2. stage' \in [Units -> Stages]
  BY DEF TypeOK, BeginRestart, Stages
<1> QED BY <1>1, <1>2 DEF TypeOK, BeginRestart, databag

LEMMA GiveUpType ==
  ASSUME TypeOK, NEW u \in Units, NEW r, NEW hook, GiveUpRestart(u, r, hook)
  PROVE  /\ snap_revision' \in [Units -> Snaps] /\ installed' \in [Units -> Snaps]
         /\ unit_state' \in [Units -> UnitState]
         /\ versions' \in Versions /\ down' \subseteq Units /\ deferred' \subseteq Units
         /\ forced' \subseteq Units /\ primary' \in Units \cup {Nobody}
         /\ running' \in [Units -> Hooks \cup {"none", "force"}] /\ stage' \in [Units -> Stages]
         /\ restart_epoch' \in [Units -> 1..epoch] /\ confirmed' \in 0..epoch
         /\ overlapped' \in BOOLEAN /\ failures' \in 0..MaxFaults
<1>1. failures' \in 0..MaxFaults
  BY BoundsAssumption DEF TypeOK, GiveUpRestart, Fail
<1>2. primary' \in Units \cup {Nobody}
  BY DEF TypeOK, GiveUpRestart
<1> QED
  BY <1>1, <1>2 DEF TypeOK, GiveUpRestart

LEMMA QueueType ==
  ASSUME NEW q \in [Units -> SUBSET Hooks], NEW S
  PROVE  Hear(q, S) \in [Units -> SUBSET Hooks]
  BY DEF Hear, Hooks

LEMMA DoneType ==
  ASSUME TypeOK, NEW u \in Units, NEW hook
  PROVE  Done(u, hook) \in [Units -> SUBSET Hooks]
  BY DEF TypeOK, Done

LEMMA SaveType ==
  ASSUME TypeOK, NEW u \in Units, NEW r \in Revisions, NEW q \in [Units -> SUBSET Hooks],
         SaveVersions(u, r, q)
  PROVE  /\ snap_revision' \in [Units -> Snaps] /\ installed' \in [Units -> Snaps]
         /\ unit_state' \in [Units -> UnitState]
         /\ versions' \in Versions /\ down' \subseteq Units /\ deferred' \subseteq Units
         /\ forced' \subseteq Units /\ primary' \in Units \cup {Nobody}
         /\ running' \in [Units -> Hooks \cup {"none", "force"}] /\ stage' \in [Units -> Stages]
         /\ todo' \in [Units -> SUBSET Hooks]
         /\ restart_epoch' \in [Units -> 1..epoch] /\ confirmed' \in 0..epoch
         /\ overlapped' \in BOOLEAN /\ failures' \in 0..MaxFaults
<1>1. todo' \in [Units -> SUBSET Hooks]
  BY QueueType DEF SaveVersions
<1>2. versions' \in Versions
  BY SnapIsASnap DEF TypeOK, SaveVersions, SavedVersions, Versions
<1> QED BY <1>1, <1>2 DEF TypeOK, SaveVersions, history

LEMMA LookType == ASSUME TypeOK, NEW u, NEW r, Look(u, r) PROVE refused' \in BOOLEAN
<1>1. CASE IsFirst(u)
  BY <1>1 DEF Look
<1>2. CASE ~IsFirst(u)
  BY <1>2 DEF Look, TypeOK
<1> QED BY <1>1, <1>2

-----------------------------------------------------------------------------
(* Type correctness.                                                       *)

LEMMA InitStart ==
  ASSUME Init
  PROVE  \E r \in Revisions :
           /\ refreshes = <<r>>
           /\ charm = [u \in Units |-> r]
           /\ snap_revision = [u \in Units |-> SnapOf[r]]
           /\ installed = [u \in Units |-> SnapOf[r]]
           /\ versions = [charm |-> r, workload |-> SnapOf[r]]
           /\ primary \in Units /\ leader \in Units
<1>1. PICK s \in Starts :
        /\ refreshes = <<s.charm>>
        /\ charm = [u \in Units |-> s.charm]
        /\ snap_revision = [u \in Units |-> SnapOf[s.charm]]
        /\ installed = [u \in Units |-> SnapOf[s.charm]]
        /\ versions = [charm |-> s.charm, workload |-> SnapOf[s.charm]]
        /\ primary = s.primary /\ leader = s.leader
  BY Zenon DEF Init
<1>2. s.charm \in Revisions /\ s.primary \in Units /\ s.leader \in Units
  BY StartsAssumption
<1> QED BY <1>1, <1>2

LEMMA InitType ==
  ASSUME Init PROVE TypeOK
<1>1. PICK r \in Revisions :
        /\ refreshes = <<r>>
        /\ charm = [u \in Units |-> r]
        /\ snap_revision = [u \in Units |-> SnapOf[r]]
        /\ installed = [u \in Units |-> SnapOf[r]]
        /\ versions = [charm |-> r, workload |-> SnapOf[r]]
        /\ primary \in Units /\ leader \in Units
  BY InitStart
<1>2. refreshes \in Seq(Revisions) /\ epoch = 1 /\ epoch \in 1..MaxRefreshes
  BY <1>1, BoundsAssumption DEF epoch
<1>3. versions \in Versions
  BY <1>1, SnapIsASnap DEF Versions
<1>4. /\ charm_epoch \in [Units -> 1..epoch] /\ restart_epoch \in [Units -> 1..epoch]
      /\ unit_state \in [Units -> UnitState] /\ todo \in [Units -> SUBSET Hooks]
      /\ running \in [Units -> Hooks \cup {"none", "force"}] /\ stage \in [Units -> Stages]
      /\ confirmed \in 0..epoch
  BY <1>2 DEF Init, UnitState, Stages
<1>5. snap_revision \in [Units -> Snaps] /\ installed \in [Units -> Snaps]
  BY <1>1, SnapIsASnap
<1>6. failures \in 0..MaxFaults /\ elections \in 0..MaxFaults
  BY BoundsAssumption DEF Init
<1>7. charm \in [Units -> Revisions]
  BY <1>1
<1>8. /\ upgrade_resumed \in BOOLEAN /\ overlapped \in BOOLEAN /\ refused \in BOOLEAN
      /\ down \subseteq Units /\ deferred \subseteq Units /\ forced \subseteq Units
      /\ primary \in Units \cup {Nobody} /\ leader \in Units
  BY <1>1 DEF Init
<1> QED BY <1>2, <1>3, <1>4, <1>5, <1>6, <1>7, <1>8 DEF TypeOK

LEMMA UpgradeCharmType ==
  ASSUME TypeOK, NEW u \in Units, UpgradeCharm(u)
  PROVE  TypeOK'
<1> DEFINE r == refreshes[epoch]
           queue == Done(u, "upgrade_charm")
<1>1. epoch \in 1..epoch /\ r \in Revisions
  BY DEF TypeOK, epoch
<1>2. /\ queue \in [Units -> SUBSET Hooks]
      /\ Hear(queue, AppHearers(u)) \in [Units -> SUBSET Hooks]
  BY DoneType, QueueType
<1>3. /\ refreshes' = refreshes /\ leader' = leader /\ elections' = elections
      /\ charm' \in [Units -> Revisions]
      /\ charm_epoch' \in [Units -> 1..epoch] /\ charm_epoch'[u] \in 1..epoch
  BY <1>1 DEF UpgradeCharm, TypeOK
<1>8. refused' \in BOOLEAN
  BY LookType DEF UpgradeCharm, TypeOK
<1>4. CASE u # leader /\ todo' = queue
           /\ UNCHANGED <<databag, installed, down, primary, running, stage,
                          deferred, history, failures>>
  BY <1>2, <1>3, <1>4, <1>8 DEF TypeOK, databag, history, epoch
<1>5. CASE upgrade_resumed' = FALSE /\ SaveVersions(u, r, Hear(queue, AppHearers(u)))
  BY <1>1, <1>2, <1>3, <1>5, <1>8, SaveType DEF TypeOK, epoch
<1>6. CASE todo' = queue /\ BeginRestart(u, r, "upgrade_charm")
  BY <1>2, <1>3, <1>6, <1>8, BeginType DEF TypeOK, epoch, Hooks
<1>7. CASE /\ upgrade_resumed' = FALSE /\ todo' = Hear(queue, AppHearers(u))
           /\ GiveUpRestart(u, r, "upgrade_charm")
  BY <1>2, <1>3, <1>7, <1>8, GiveUpType DEF TypeOK, epoch
<1> QED BY <1>4, <1>5, <1>6, <1>7 DEF UpgradeCharm

LEMMA RelationChangedType ==
  ASSUME TypeOK, NEW u \in Units, RelationChanged(u)
  PROVE  TypeOK'
<1> DEFINE r == charm[u]
           queue == Done(u, "relation_changed")
<1>1. r \in Revisions /\ queue \in [Units -> SUBSET Hooks]
  BY DoneType DEF TypeOK
<1>2. /\ refreshes' = refreshes /\ leader' = leader /\ elections' = elections
      /\ charm' = charm /\ charm_epoch' = charm_epoch /\ charm_epoch'[u] \in 1..epoch
      /\ refused' \in BOOLEAN
  BY LookType DEF RelationChanged, TypeOK
<1>3. CASE SaveVersions(u, r, queue) /\ UNCHANGED upgrade_resumed
  BY <1>1, <1>2, <1>3, SaveType DEF TypeOK, epoch
<1>4. CASE todo' = queue /\ BeginRestart(u, r, "relation_changed")
  BY <1>1, <1>2, <1>4, BeginType DEF TypeOK, epoch, Hooks
<1>5. CASE /\ todo' = queue /\ UNCHANGED upgrade_resumed
           /\ GiveUpRestart(u, r, "relation_changed")
  BY <1>1, <1>2, <1>5, GiveUpType DEF TypeOK, epoch
<1> QED BY <1>3, <1>4, <1>5 DEF RelationChanged

LEMMA ForceType ==
  ASSUME TypeOK, NEW u \in Units, ForceRefreshStart(u)
  PROVE  TypeOK'
<1> DEFINE r == charm[u]
<1>1. /\ refreshes' = refreshes /\ leader' = leader /\ elections' = elections
      /\ todo' = todo /\ refused' = refused
      /\ charm' = charm /\ charm_epoch' = charm_epoch /\ charm_epoch'[u] \in 1..epoch
  BY DEF ForceRefreshStart, TypeOK
<1>2. CASE BeginRestart(u, r, "force")
  BY <1>1, <1>2, BeginType DEF TypeOK, epoch
<1>3. CASE GiveUpRestart(u, r, "force") /\ UNCHANGED upgrade_resumed
  BY <1>1, <1>3, GiveUpType DEF TypeOK, epoch
<1>4. QED BY <1>2, <1>3 DEF ForceRefreshStart

LEMMA InstallType ==
  ASSUME TypeOK, NEW u \in Units, Install(u)
  PROVE  TypeOK'
<1>1. installed' \in [Units -> Snaps]
  BY SnapIsASnap DEF TypeOK, Install
<1>2. failures' \in 0..MaxFaults
  <2>1. UNCHANGED failures \/ Fail
    BY DEF Install
  <2> QED BY <2>1, BoundsAssumption DEF TypeOK, Fail
<1>3. down' \subseteq Units /\ primary' \in Units \cup {Nobody}
  BY DEF TypeOK, Install, StopMongod
<1>4. stage' \in [Units -> Stages]
  BY DEF TypeOK, Install, Stages
<1>5. UNCHANGED <<refreshes, charm, charm_epoch, databag, leader, todo, running,
                  deferred, history, refused, elections>>
  BY DEF Install
<1> QED BY <1>1, <1>2, <1>3, <1>4, <1>5 DEF TypeOK, databag, history, epoch

LEMMA EndRestartType ==
  ASSUME TypeOK, NEW u \in Units, EndRestart(u)
  PROVE  TypeOK'
<1>1. SnapOf[charm[u]] \in Snaps
  BY SnapIsASnap DEF TypeOK
<1>2. todo' \in [Units -> SUBSET Hooks] /\ upgrade_resumed' \in BOOLEAN
  <2>1. /\ Hear(todo, AppHearers(u) \cup Others(u)) \in [Units -> SUBSET Hooks]
        /\ Hear(todo, Others(u)) \in [Units -> SUBSET Hooks]
    BY QueueType DEF TypeOK
  <2> QED BY <2>1 DEF TypeOK, EndRestart
<1>3. failures' \in 0..MaxFaults
  BY BoundsAssumption DEF TypeOK, EndRestart, PostUpgradeChecks, Fail
<1>4. unit_state' \in [Units -> UnitState] /\ deferred' \subseteq Units
  BY DEF TypeOK, EndRestart, PostUpgradeChecks, UnitState
<1>5. running' \in [Units -> Hooks \cup {"none", "force"}] /\ stage' \in [Units -> Stages]
  BY DEF TypeOK, EndRestart, Stages
<1>6. snap_revision' \in [Units -> Snaps]
  BY <1>1 DEF TypeOK, EndRestart, SnapSaved
<1>7. UNCHANGED <<refreshes, charm, charm_epoch, versions, installed, down, primary,
                  leader, history, refused, elections>>
  BY DEF EndRestart
<1> QED BY <1>2, <1>3, <1>4, <1>5, <1>6, <1>7 DEF TypeOK, history, epoch

LEMMA CrashRestartType ==
  ASSUME TypeOK, NEW u \in Units, CrashRestart(u)
  PROVE  TypeOK'
<1>1. todo' \in [Units -> SUBSET Hooks]
  BY DEF TypeOK, CrashRestart, Hooks
<1>2. failures' \in 0..MaxFaults
  BY BoundsAssumption DEF TypeOK, CrashRestart, Fail
<1>3. running' \in [Units -> Hooks \cup {"none", "force"}] /\ stage' \in [Units -> Stages]
  BY DEF TypeOK, CrashRestart, Stages
<1>4. UNCHANGED <<refreshes, charm, charm_epoch, databag, installed, down, primary, leader,
                  deferred, history, refused, elections>>
  BY DEF CrashRestart
<1> QED BY <1>1, <1>2, <1>3, <1>4 DEF TypeOK, databag, history, epoch

LEMMA RefreshType ==
  ASSUME TypeOK, NEW r \in Revisions, Refresh(r)
  PROVE  TypeOK'
<1>1. /\ refreshes' \in Seq(Revisions) /\ epoch' = epoch + 1
      /\ epoch' \in 1..MaxRefreshes /\ 1..epoch \subseteq 1..epoch'
      /\ 0..epoch \subseteq 0..epoch'
  BY BoundsAssumption DEF Refresh, TypeOK, epoch
<1>2. todo' \in [Units -> SUBSET Hooks]
  BY DEF Refresh, TypeOK, Hooks
<1>3. overlapped' \in BOOLEAN
  BY DEF Refresh, TypeOK
<1>4. UNCHANGED <<charm, charm_epoch, databag, installed, down, primary, leader,
                  running, stage, deferred, restart_epoch, forced, confirmed, refused,
                  failures, elections>>
  BY DEF Refresh
<1> QED BY <1>1, <1>2, <1>3, <1>4 DEF TypeOK, databag

LEMMA ElectType ==
  ASSUME TypeOK, Elect
  PROVE  TypeOK'
  BY BoundsAssumption DEF TypeOK, Elect, Electable, Others, databag, history, epoch

LEMMA NextType == TypeOK /\ [Next]_vars => TypeOK'
<1> SUFFICES ASSUME TypeOK, [Next]_vars PROVE TypeOK'
  OBVIOUS
<1>1. ASSUME NEW u \in Units, PostAppUpgrade(u) PROVE TypeOK'
  <2>1. todo' \in [Units -> SUBSET Hooks]
    BY <1>1, QueueType DEF TypeOK, PostAppUpgrade
  <2> QED BY <1>1, <2>1 DEF TypeOK, PostAppUpgrade, history, epoch, UnitState
<1>2. ASSUME NEW u \in Units, Resume(u) PROVE TypeOK'
  <2>1. todo' \in [Units -> SUBSET Hooks]
    BY <1>2, QueueType DEF TypeOK, Resume
  <2>2. confirmed' \in 0..epoch
    BY <1>2 DEF TypeOK, Resume
  <2> QED BY <1>2, <2>1, <2>2 DEF TypeOK, Resume, epoch
<1>3. ASSUME NEW u \in Units, PreUpgradeCheck(u) PROVE TypeOK'
  <2>1. primary' \in Units \cup {Nobody}
    BY <1>3, LowestIsAUnit DEF PreUpgradeCheck
  <2>2. failures' \in 0..MaxFaults
    BY <1>3, BoundsAssumption DEF TypeOK, PreUpgradeCheck, Fail
  <2> QED BY <1>3, <2>1, <2>2 DEF TypeOK, PreUpgradeCheck, databag, history, epoch
<1>4. ASSUME NEW u \in Units, Recover(u) PROVE TypeOK'
  BY <1>4 DEF TypeOK, Recover, databag, history, epoch
<1>5. CASE ElectPrimary
  BY <1>5 DEF TypeOK, ElectPrimary, databag, history, epoch
<1>6. CASE UNCHANGED vars
  BY <1>6 DEF TypeOK, vars, databag, history, epoch
<1> QED
  BY <1>1, <1>2, <1>3, <1>4, <1>5, <1>6, InstallType, UpgradeCharmType, RelationChangedType, ForceType,
     EndRestartType, CrashRestartType, RefreshType, ElectType DEF Next

(* Every state has the types TypeOK gives: no handler publishes a snap no  *)
(* charm pins, and no unit remembers a refresh nobody asked for.           *)
THEOREM TypeCorrect == Spec => []TypeOK
<1>1. Init => TypeOK
  BY InitType
<1>2. TypeOK /\ [Next]_vars => TypeOK'
  BY NextType
<1> QED BY <1>1, <1>2, PTL DEF Spec

-----------------------------------------------------------------------------
(* The inductive invariant.                                                *)

LEMMA InitInv ==
  ASSUME Init PROVE IInv
<1>1. PICK r \in Revisions :
        /\ refreshes = <<r>>
        /\ charm = [u \in Units |-> r]
        /\ snap_revision = [u \in Units |-> SnapOf[r]]
  BY InitStart
<1>2. /\ charm_epoch = [u \in Units |-> 1] /\ restart_epoch = [u \in Units |-> 1]
      /\ down = {} /\ running = [u \in Units |-> "none"]
      /\ stage = [u \in Units |-> "none"]
  BY DEF Init
<1>3. epoch = 1 /\ refreshes[1] = r
  BY <1>1 DEF epoch
<1>4. CodeIsRefresh /\ HigherFirst
  BY <1>1, <1>2, <1>3 DEF CodeIsRefresh, HigherFirst, Goal
<1>5. RestartPending /\ DownNotReady /\ OneAway /\ InRestart /\ PrimaryKept
  BY <1>2 DEF RestartPending, DownNotReady, OneAway, Away, InRestart, PrimaryKept
<1> QED BY <1>4, <1>5, InitType DEF IInv

(* A unit about to restart runs the latest code, is outdated and, unless   *)
(* forced, authorized.  Its restart then keeps the invariant: an unforced  *)
(* unit w with a higher number that is away would not look ready to it,    *)
(* and below an unforced one that is away it would not be outdated.        *)
Begun(u, hook) ==
  LET r == refreshes[epoch] IN
  /\ BeginRestart(u, r, hook)
  /\ running[u] = "none"
  /\ Outdated(u, r)
  /\ hook # "force" => Authorized(u, r, TRUE)
  /\ UNCHANGED <<refreshes, elections>>
  /\ charm' = [charm EXCEPT ![u] = r]
  /\ charm_epoch' = [charm_epoch EXCEPT ![u] = epoch]

LEMMA BegunHigherFirst ==
  ASSUME IInv, TypeOK', NEW u \in Units, NEW hook, Begun(u, hook)
  PROVE  HigherFirst'
<1> DEFINE r == refreshes[epoch]
<1>1. /\ restart_epoch' = [restart_epoch EXCEPT ![u] = epoch]
      /\ forced' \cup {u} = forced \cup {u} /\ (u \notin forced' => hook # "force")
      /\ UNCHANGED <<refreshes, snap_revision, overlapped>>
  BY DEF Begun, BeginRestart, databag, IInv, TypeOK
<1>2. SUFFICES ASSUME NEW a \in Units, NEW b \in Units, a < b, a \notin forced',
                      charm_epoch'[b] <= restart_epoch'[a], ~overlapped
               PROVE  snap_revision[b] = SnapOf[refreshes[restart_epoch'[a]]]
  BY <1>1 DEF HigherFirst, Goal
<1>3. CASE a = u
  <2>1. restart_epoch'[a] = epoch /\ hook # "force"
    BY <1>1, <1>2, <1>3 DEF IInv, TypeOK
  <2>2. b \in Higher(u)
    BY <1>2, <1>3 DEF Higher
  <2> QED BY <2>1, <2>2 DEF Begun, Authorized
<1>4. CASE a # u
  <2>1. restart_epoch'[a] = restart_epoch[a] /\ a \notin forced
    BY <1>1, <1>2, <1>4 DEF IInv, TypeOK
  <2>2. /\ charm_epoch[b] \in 1..epoch /\ restart_epoch[a] \in Int /\ epoch \in Int
        /\ charm_epoch' = [charm_epoch EXCEPT ![u] = epoch]
        /\ charm_epoch \in [Units -> 1..epoch]
    BY BoundsAssumption DEF Begun, IInv, TypeOK
  <2>3. charm_epoch[b] <= restart_epoch[a]
    <3>1. CASE b = u
      BY <1>2, <2>1, <2>2, <3>1
    <3>2. CASE b # u
      BY <1>2, <2>1, <2>2, <3>2
    <3> QED BY <3>1, <3>2
  <2> QED BY <1>2, <2>1, <2>3 DEF IInv, HigherFirst, Goal
<1> QED BY <1>3, <1>4

(* A unit that is away does not look ready either.                         *)
LEMMA AwayNotReady ==
  ASSUME IInv, NEW w \in Away
  PROVE  w \in Units /\ (snap_revision[w] # Goal(w) \/ unit_state[w] # "HEALTHY")
<1>1. CASE w \in down
  BY <1>1 DEF IInv, TypeOK, DownNotReady
<1>2. CASE w \in Units /\ running[w] # "none"
  BY <1>2 DEF IInv, RestartPending, CodeIsRefresh, Goal
<1> QED BY <1>1, <1>2 DEF Away

LEMMA BegunOneAway ==
  ASSUME IInv, TypeOK', NEW u \in Units, NEW hook, Begun(u, hook)
  PROVE  OneAway' /\ DownNotReady'
<1> DEFINE r == refreshes[epoch]
<1>1. /\ restart_epoch' = [restart_epoch EXCEPT ![u] = epoch]
      /\ running' = [running EXCEPT ![u] = hook]
      /\ down' = down
      /\ forced' \cup {u} = forced \cup {u} /\ (u \notin forced' => hook # "force")
      /\ UNCHANGED <<refreshes, snap_revision, unit_state, overlapped>>
  BY DEF Begun, BeginRestart, databag, IInv, TypeOK
<1>2. DownNotReady'
  <2>1. SnapOf[refreshes'[restart_epoch'[u]]] = SnapOf[r]
    BY <1>1 DEF IInv, TypeOK
  <2>2. \A w \in Units \ {u} : Goal(w)' = Goal(w)
    BY <1>1 DEF IInv, TypeOK, Goal
  <2>3. snap_revision'[u] # Goal(u)'
    BY <2>1, <1>1 DEF Begun, Outdated, Goal
  <2> QED BY <1>1, <2>2, <2>3 DEF DownNotReady, IInv, TypeOK
<1>3. ASSUME NEW w \in Away, w # u, restart_epoch[w] = epoch, w \notin forced,
             u \notin forced', ~overlapped
      PROVE  FALSE
  <2>1. /\ w \in Units /\ Goal(w) = SnapOf[r]
        /\ snap_revision[w] # SnapOf[r] \/ unit_state[w] # "HEALTHY"
    BY <1>3, AwayNotReady DEF Goal
  <2>2. CASE w > u
    <3>1. w \in Higher(u)
      BY <2>1, <2>2 DEF Higher
    <3> QED BY <1>1, <1>3, <2>1, <3>1 DEF Begun, Authorized
  <2>3. CASE w < u
    <3>1. charm_epoch[u] <= restart_epoch[w]
      BY <1>3 DEF IInv, TypeOK
    <3> QED BY <1>3, <2>1, <2>3, <3>1 DEF Begun, Outdated, IInv, HigherFirst
  <2> QED BY <1>3, <2>1, <2>2, <2>3, UnitsAssumption
<1>4. \A w \in Away \ {u} : restart_epoch'[w] = restart_epoch[w]
  BY <1>1 DEF IInv, TypeOK, Away
<1>5. restart_epoch'[u] = epoch
  BY <1>1 DEF IInv, TypeOK
<1>6. Away' \subseteq Away \cup {u}
  BY <1>1 DEF IInv, TypeOK, Away
<1>7. OneAway'
  BY <1>1, <1>3, <1>4, <1>5, <1>6 DEF OneAway, IInv
<1> QED BY <1>2, <1>7

(* Of a refresh that nothing overtakes and no force disturbs, one unit     *)
(* restarts at a time.                                                     *)
LEMMA Alone ==
  ASSUME RestartPending, OneAway, forced = {}, ~overlapped,
         NEW u \in Units, NEW w \in Units, running[u] # "none", running[w] # "none"
  PROVE  u = w
<1>1. restart_epoch[u] = epoch /\ restart_epoch[w] = epoch
  BY DEF RestartPending
<1>2. u \in Away /\ w \in Away
  BY DEF Away
<1> QED BY <1>1, <1>2 DEF OneAway

LEMMA BegunPrimaryKept ==
  ASSUME IInv, TypeOK', NEW u \in Units, NEW hook \in Hooks \cup {"force"}, Begun(u, hook),
         OneAway', RestartPending'
  PROVE  PrimaryKept'
<1> DEFINE p == PrimaryBefore(u, refreshes[epoch], hook)
<1>1. SUFFICES ASSUME Calm', NEW w \in Units, Units # {w}, stage'[w] # "none"
               PROVE  /\ stage'[w] = "saw another" => primary' # w /\ primary' # Nobody
                      /\ stage'[w] = "stepped down" => primary' # w
  BY DEF PrimaryKept
<1>2. running'[u] # "none" /\ (w # u => running'[w] = running[w] /\ stage'[w] = stage[w])
  BY DEF Begun, BeginRestart, IInv, TypeOK, Hooks
<1>3. w = u
  <2> SUFFICES ASSUME w # u PROVE FALSE
    OBVIOUS
  <2>1. running'[w] # "none"
    BY <1>1, <1>2 DEF IInv, InRestart
  <2>2. forced' = {} /\ ~overlapped'
    BY <1>1 DEF Calm
  <2>3. restart_epoch'[u] = epoch' /\ restart_epoch'[w] = epoch'
    BY <1>2, <2>1, <2>2 DEF RestartPending
  <2>4. u \in Away' /\ w \in Away'
    BY <1>2, <2>1 DEF Away
  <2> QED BY <2>2, <2>3, <2>4 DEF OneAway
<1>4. CASE ~MustStepDown(u, p)
  <2>1. primary' = p /\ stage'[u] = IF p = Nobody THEN "saw nobody" ELSE "saw another"
    <3>1. stage' = [stage EXCEPT ![u] = IF p = Nobody THEN "saw nobody" ELSE "saw another"]
      BY <1>4 DEF Begun, BeginRestart
    <3> QED BY <1>4, <3>1 DEF Begun, BeginRestart, IInv, TypeOK
  <2> QED BY <1>1, <1>3, <1>4, <2>1 DEF MustStepDown
<1>5. CASE MustStepDown(u, p)
  <2>1. primary' = Nobody /\ stage'[u] = "stepped down"
    BY <1>5 DEF Begun, BeginRestart, IInv, TypeOK
  <2> QED BY <1>3, <2>1, NobodyIsNoUnit
<1> QED BY <1>4, <1>5

LEMMA BegunInv ==
  ASSUME IInv, TypeOK', NEW u \in Units, NEW hook \in Hooks \cup {"force"}, Begun(u, hook)
  PROVE  /\ HigherFirst' /\ OneAway' /\ DownNotReady' /\ RestartPending'
         /\ InRestart' /\ PrimaryKept'
<1>1. RestartPending'
  <2>1. /\ restart_epoch' = [restart_epoch EXCEPT ![u] = epoch]
        /\ charm_epoch' = [charm_epoch EXCEPT ![u] = epoch]
        /\ charm' = [charm EXCEPT ![u] = refreshes[epoch]]
        /\ running' = [running EXCEPT ![u] = hook]
        /\ snap_revision[u] # SnapOf[refreshes[epoch]]
        /\ epoch' = epoch
        /\ UNCHANGED <<snap_revision, overlapped>>
    BY DEF Begun, BeginRestart, Outdated, databag, IInv, TypeOK, epoch
  <2> QED BY <2>1 DEF RestartPending, IInv, TypeOK
<1>2. InRestart'
  BY DEF Begun, BeginRestart, InRestart, IInv, TypeOK, Hooks
<1> QED BY <1>1, <1>2, BegunHigherFirst, BegunOneAway, BegunPrimaryKept

(* The steps that restart nothing: a unit's code changes only to the latest *)
(* and only between hooks, and no unit goes down.                          *)
KeepsCode ==
  /\ UNCHANGED refreshes
  /\ \A w \in Units :
       \/ charm'[w] = charm[w] /\ charm_epoch'[w] = charm_epoch[w]
       \/ charm'[w] = refreshes[epoch] /\ charm_epoch'[w] = epoch /\ running[w] = "none"
  /\ \A w \in Units :
       "upgrade_charm" \in todo[w] => "upgrade_charm" \in todo'[w] \/ charm_epoch'[w] = epoch

Quiet ==
  /\ KeepsCode
  /\ \A w \in Units :
       \/ running'[w] = running[w] /\ stage'[w] = stage[w]
       \/ running'[w] = "none" /\ stage'[w] = "none"
  /\ UNCHANGED <<snap_revision, restart_epoch, overlapped>>
  /\ forced \subseteq forced'
  /\ down' \subseteq down
  /\ UNCHANGED unit_state \/ down = {}

LEMMA KeepsCodeInv ==
  ASSUME IInv, TypeOK', KeepsCode
  PROVE  CodeIsRefresh'
  BY DEF IInv, TypeOK, KeepsCode, CodeIsRefresh, epoch

LEMMA QuietInv ==
  ASSUME IInv, TypeOK', Quiet, PrimaryKept'
  PROVE  IInv'
<1>1. \A w \in Units : Goal(w)' = Goal(w)
  BY DEF Quiet, KeepsCode, Goal
<1>2. \A w \in Units : charm_epoch[w] <= charm_epoch'[w] /\ charm_epoch[w] \in Int
                       /\ charm_epoch'[w] \in Int /\ restart_epoch[w] \in Int
  <2>1. epoch \in Int /\ \A w \in Units : charm_epoch[w] \in 1..epoch /\ restart_epoch[w] \in Int
    BY BoundsAssumption DEF IInv, TypeOK
  <2>2. \A w \in Units : charm_epoch'[w] \in {charm_epoch[w], epoch}
    BY DEF Quiet, KeepsCode
  <2> QED BY <2>1, <2>2
<1>3. HigherFirst'
  BY <1>1, <1>2 DEF Quiet, IInv, HigherFirst
<1>4. RestartPending'
  BY DEF Quiet, KeepsCode, IInv, RestartPending, epoch
<1>5. DownNotReady'
  BY <1>1 DEF Quiet, IInv, TypeOK, DownNotReady
<1>6. OneAway'
  <2>1. Away' \subseteq Away
    BY DEF Quiet, Away
  <2> QED BY <2>1 DEF Quiet, IInv, OneAway
<1>7. InRestart'
  BY DEF Quiet, IInv, InRestart
<1>8. CodeIsRefresh'
  BY KeepsCodeInv DEF Quiet
<1> QED BY <1>3, <1>4, <1>5, <1>6, <1>7, <1>8 DEF IInv

(* A step that leaves the primary alone, and begins no restart.            *)
LEMMA PrimaryStays ==
  ASSUME IInv, primary' = primary, Calm' => Calm,
         \A w \in Units : stage'[w] \in {stage[w], "none", "installed"}
  PROVE  PrimaryKept'
  BY DEF IInv, PrimaryKept

LEMMA QuietStays ==
  ASSUME IInv, TypeOK', Quiet, primary' = primary, elections' = elections
  PROVE  IInv'
<1>1. Calm' => Calm
  BY DEF Quiet, Calm
<1>2. \A w \in Units : stage'[w] \in {stage[w], "none", "installed"}
  BY DEF Quiet
<1> QED BY <1>1, <1>2, PrimaryStays, QuietInv

LEMMA HearKeeps ==
  ASSUME NEW q, NEW S, NEW w \in Units
  PROVE  "upgrade_charm" \in Hear(q, S)[w] <=> "upgrade_charm" \in q[w]
  BY DEF Hear

LEMMA DoneKeeps ==
  ASSUME TypeOK, NEW u \in Units, NEW w \in Units
  PROVE  /\ "upgrade_charm" \in Done(u, "relation_changed")[w]
              <=> "upgrade_charm" \in todo[w]
         /\ w # u => Done(u, "upgrade_charm")[w] = todo[w]
  BY DEF Done, TypeOK

(* A unit that gives up may have moved the primary.  While another restart *)
(* of the same refresh goes on, no unit is both outdated and authorized.   *)
LEMMA GiveUpInv ==
  ASSUME IInv, TypeOK', NEW u \in Units, NEW hook, GiveUpRestart(u, refreshes[epoch], hook),
         running[u] = "none", Outdated(u, refreshes[epoch]),
         hook # "force" => Authorized(u, refreshes[epoch], TRUE),
         KeepsCode, elections' = elections
  PROVE  IInv'
<1> DEFINE r == refreshes[epoch]
<1>1. Quiet
  BY DEF Quiet, GiveUpRestart
<1>2. CASE hook = "force"
  <2>1. u \in forced'
    BY <1>2 DEF GiveUpRestart
  <2>2. PrimaryKept'
    BY <2>1 DEF PrimaryKept, Calm
  <2> QED BY <1>1, <2>2, QuietInv
<1>3. CASE hook # "force"
  <2>1. SUFFICES ASSUME Calm, NEW w \in Units, stage'[w] # "none"
                 PROVE  FALSE
    <3>1. Calm' => Calm
      BY <1>1 DEF Quiet, Calm
    <3>2. PrimaryKept'
      BY <2>1, <3>1 DEF PrimaryKept
    <3> QED BY <1>1, <3>2, QuietInv
  <2>2. running[w] # "none"
    BY <2>1 DEF GiveUpRestart, IInv, InRestart
  <2>3. ~overlapped /\ w \notin forced
    BY <2>1 DEF Calm
  <2>4. /\ restart_epoch[w] = epoch /\ charm_epoch[w] = epoch
        /\ Goal(w) = SnapOf[r] /\ snap_revision[w] # SnapOf[r]
    BY <2>2, <2>3 DEF IInv, RestartPending, CodeIsRefresh, Goal
  <2>5. CASE w > u
    <3>1. w \in Higher(u)
      BY <2>5 DEF Higher
    <3> QED BY <1>3, <2>4, <3>1 DEF Authorized
  <2>6. CASE w < u
    <3>1. charm_epoch[u] <= restart_epoch[w]
      BY <2>4 DEF IInv, TypeOK
    <3> QED BY <2>3, <2>4, <2>6, <3>1 DEF Outdated, IInv, HigherFirst
  <2> QED BY <2>2, <2>5, <2>6, UnitsAssumption
<1> QED BY <1>2, <1>3

LEMMA UpgradeCharmInv ==
  ASSUME IInv, TypeOK', NEW u \in Units, UpgradeCharm(u)
  PROVE  IInv'
<1> DEFINE r == refreshes[epoch]
           hook == "upgrade_charm"
           queue == Done(u, hook)
           heard == Hear(queue, AppHearers(u))
<1> TypeOK
  BY DEF IInv
<1>1. /\ UNCHANGED <<refreshes, elections>> /\ running[u] = "none"
      /\ charm' = [charm EXCEPT ![u] = r] /\ charm_epoch' = [charm_epoch EXCEPT ![u] = epoch]
  BY DEF UpgradeCharm
<1>2. \A q : (\A w \in Units : "upgrade_charm" \in q[w] <=> "upgrade_charm" \in queue[w])
             /\ todo' = q => KeepsCode
  BY <1>1, DoneKeeps DEF KeepsCode, TypeOK
<1>3. \A S, w : w \in Units => ("upgrade_charm" \in Hear(queue, S)[w] <=> "upgrade_charm" \in queue[w])
  BY HearKeeps
<1>4. CASE todo' = queue
           /\ UNCHANGED <<databag, installed, down, primary, running, stage,
                          deferred, history, failures>>
  BY <1>1, <1>2, <1>4, QuietStays DEF Quiet, databag, history
<1>5. CASE upgrade_resumed' = FALSE /\ SaveVersions(u, r, heard)
  <2>1. KeepsCode
    <3>1. todo' = heard \/ todo' = Hear(heard, AppHearers(u))
      BY <1>5 DEF SaveVersions
    <3>2. \A w \in Units : "upgrade_charm" \in heard[w] <=> "upgrade_charm" \in queue[w]
      BY <1>3
    <3>3. \A w \in Units : "upgrade_charm" \in Hear(heard, AppHearers(u))[w]
                            <=> "upgrade_charm" \in queue[w]
      BY <3>2, HearKeeps
    <3> QED BY <3>1, <3>2, <3>3, <1>2
  <2> QED BY <2>1, <1>1, <1>5, QuietStays DEF Quiet, SaveVersions, history
<1>6. CASE todo' = queue /\ BeginRestart(u, r, hook) /\ MayRestart(u, r, FALSE)
  <2>1. Begun(u, hook)
    BY <1>1, <1>6 DEF Begun, MayRestart, Authorized
  <2> QED BY <2>1, <1>2, <1>6, BegunInv, KeepsCodeInv DEF IInv, Hooks
<1>7. CASE todo' = heard /\ GiveUpRestart(u, r, hook) /\ MayRestart(u, r, FALSE)
  <2>1. KeepsCode
    BY <1>2, <1>3, <1>7
  <2> QED BY <1>1, <2>1, <1>7, GiveUpInv DEF MayRestart, Authorized
<1> QED BY <1>4, <1>5, <1>6, <1>7 DEF UpgradeCharm

LEMMA RelationChangedInv ==
  ASSUME IInv, TypeOK', NEW u \in Units, RelationChanged(u)
  PROVE  IInv'
<1> DEFINE r == refreshes[epoch]
           hook == "relation_changed"
           queue == Done(u, hook)
<1> TypeOK
  BY DEF IInv
<1>1. /\ UNCHANGED <<refreshes, charm, charm_epoch, elections>> /\ running[u] = "none"
      /\ charm[u] = r /\ charm_epoch[u] = epoch
      /\ charm' = [charm EXCEPT ![u] = r] /\ charm_epoch' = [charm_epoch EXCEPT ![u] = epoch]
  BY DEF RelationChanged, Idle, IInv, CodeIsRefresh, TypeOK
<1>2. todo' = queue \/ todo' = Hear(queue, AppHearers(u)) => KeepsCode
  BY <1>1, HearKeeps, DoneKeeps DEF KeepsCode
<1>3. CASE SaveVersions(u, r, queue)
  BY <1>1, <1>2, <1>3, QuietStays DEF Quiet, SaveVersions, history
<1>4. CASE todo' = queue /\ BeginRestart(u, r, hook) /\ MayRestart(u, r, upgrade_resumed)
  <2>1. Begun(u, hook)
    BY <1>1, <1>4 DEF Begun, MayRestart, Authorized
  <2> QED BY <2>1, <1>2, <1>4, BegunInv, KeepsCodeInv DEF IInv, Hooks
<1>5. CASE todo' = queue /\ GiveUpRestart(u, r, hook) /\ MayRestart(u, r, upgrade_resumed)
  BY <1>1, <1>2, <1>5, GiveUpInv DEF MayRestart, Authorized
<1> QED BY <1>1, <1>3, <1>4, <1>5 DEF RelationChanged

LEMMA ForceRefreshStartInv ==
  ASSUME IInv, TypeOK', NEW u \in Units, ForceRefreshStart(u)
  PROVE  IInv'
<1> DEFINE r == refreshes[epoch]
<1>1. /\ UNCHANGED <<refreshes, charm, charm_epoch, todo, elections>> /\ running[u] = "none"
      /\ charm[u] = r /\ charm_epoch[u] = epoch /\ Outdated(u, r)
      /\ charm' = [charm EXCEPT ![u] = r] /\ charm_epoch' = [charm_epoch EXCEPT ![u] = epoch]
  BY DEF ForceRefreshStart, Idle, IInv, CodeIsRefresh, TypeOK
<1>2. KeepsCode
  BY <1>1 DEF KeepsCode
<1>3. CASE BeginRestart(u, r, "force")
  <2>1. Begun(u, "force")
    BY <1>1, <1>3 DEF Begun
  <2> QED BY <2>1, <1>2, BegunInv, KeepsCodeInv DEF IInv
<1>4. CASE GiveUpRestart(u, r, "force")
  BY <1>1, <1>2, <1>4, GiveUpInv
<1> QED BY <1>1, <1>3, <1>4 DEF ForceRefreshStart

(* The unit that stops mongod is away already, and still publishes its old *)
(* snap.                                                                   *)
LEMMA InstallInv ==
  ASSUME IInv, TypeOK', NEW u \in Units, Install(u)
  PROVE  IInv'
<1>1. /\ UNCHANGED <<refreshes, charm, charm_epoch, todo, running, snap_revision, unit_state,
                     restart_epoch, forced, overlapped, elections>>
      /\ stage' = [stage EXCEPT ![u] = "installed"]
      /\ down' \subseteq down \cup {u}
      /\ primary' \in {primary, Nobody} /\ (primary # u => primary' = primary)
      /\ stage[u] # "none"
  BY DEF Install, StopMongod, databag, history
<1>2. running[u] # "none"
  BY <1>1 DEF IInv, InRestart
<1>3. CodeIsRefresh' /\ RestartPending' /\ HigherFirst' /\ \A w \in Units : Goal(w)' = Goal(w)
  BY <1>1 DEF IInv, CodeIsRefresh, RestartPending, HigherFirst, Goal, epoch
<1>4. DownNotReady'
  <2>1. snap_revision[u] # Goal(u)
    BY <1>2 DEF IInv, RestartPending, CodeIsRefresh, Goal
  <2> QED BY <1>1, <1>3, <2>1 DEF IInv, TypeOK, DownNotReady
<1>5. OneAway'
  <2>1. Away' \subseteq Away
    BY <1>1, <1>2 DEF Away
  <2> QED BY <1>1, <2>1 DEF IInv, OneAway
<1>6. InRestart'
  BY <1>1, <1>2 DEF IInv, InRestart, TypeOK
<1>7. PrimaryKept'
  <2>1. SUFFICES ASSUME Calm, NEW w \in Units, w # u, stage[w] # "none" PROVE FALSE
    BY <1>1 DEF PrimaryKept, Calm, IInv, TypeOK
  <2>2. running[w] # "none"
    BY <2>1 DEF IInv, InRestart
  <2> QED BY <1>2, <2>1, <2>2, Alone DEF IInv, Calm
<1> QED BY <1>3, <1>4, <1>5, <1>6, <1>7 DEF IInv

LEMMA EndRestartInv ==
  ASSUME IInv, TypeOK', NEW u \in Units, EndRestart(u)
  PROVE  IInv'
<1> DEFINE snap == SnapOf[charm[u]]
<1>1. /\ UNCHANGED <<refreshes, charm, charm_epoch, down, primary, restart_epoch,
                     forced, overlapped, elections>>
      /\ running' = [running EXCEPT ![u] = "none"] /\ stage[u] # "none"
      /\ stage' = [stage EXCEPT ![u] = "none"]
      /\ snap_revision' = [snap_revision EXCEPT ![u] = snap]
      /\ \/ down = {}
         \/ unit_state' = [unit_state EXCEPT ![u] = "UPGRADING"]
  BY DEF EndRestart, SnapSaved, PostUpgradeChecks, Healthy, history
<1>9. running[u] # "none"
  BY <1>1 DEF IInv, InRestart
<1>2. \A w \in Units : "upgrade_charm" \in todo'[w] <=> "upgrade_charm" \in todo[w]
  BY HearKeeps DEF EndRestart
<1>3. CodeIsRefresh'
  BY <1>1, <1>2, KeepsCodeInv DEF KeepsCode
<1>4. \A w \in Units : Goal(w)' = Goal(w)
  BY <1>1 DEF Goal
<1>5. RestartPending'
  BY <1>1 DEF IInv, TypeOK, RestartPending, epoch
<1>6. DownNotReady'
  BY <1>1, <1>4 DEF IInv, TypeOK, DownNotReady
<1>7. OneAway' /\ InRestart'
  <2>1. Away' \subseteq Away
    BY <1>1 DEF Away, IInv, TypeOK
  <2> QED BY <1>1, <2>1 DEF IInv, OneAway, InRestart, TypeOK
<1>10. PrimaryKept'
  <2>1. Calm' => Calm
    BY <1>1 DEF Calm
  <2>2. \A w \in Units : stage'[w] \in {stage[w], "none", "installed"}
    BY <1>1 DEF IInv, TypeOK
  <2> QED BY <1>1, <2>1, <2>2, PrimaryStays
<1>8. HigherFirst'
  <2>1. SUFFICES ASSUME NEW a \in Units, NEW b \in Units, a < b, a \notin forced,
                        charm_epoch[b] <= restart_epoch[a], ~overlapped
                 PROVE  snap_revision'[b] = Goal(a)
    BY <1>1, <1>4 DEF HigherFirst
  <2>2. CASE b # u
    BY <1>1, <2>1, <2>2 DEF IInv, TypeOK, HigherFirst
  <2>3. CASE b = u
    <3>1. charm_epoch[u] = epoch /\ charm[u] = refreshes[epoch]
      BY <1>9, <2>1 DEF IInv, RestartPending, CodeIsRefresh
    <3>2. restart_epoch[a] = epoch
      <4>1. epoch \in Int /\ restart_epoch[a] \in 1..epoch
        BY BoundsAssumption DEF IInv, TypeOK
      <4> QED BY <2>1, <2>3, <3>1, <4>1
    <3> QED BY <1>1, <2>3, <3>1, <3>2 DEF Goal, IInv, TypeOK
  <2> QED BY <2>2, <2>3
<1> QED BY <1>3, <1>5, <1>6, <1>7, <1>8, <1>10 DEF IInv

LEMMA RefreshInv ==
  ASSUME IInv, TypeOK', NEW r \in Revisions, Refresh(r)
  PROVE  IInv'
<1>1. /\ refreshes' = Append(refreshes, r) /\ epoch' = epoch + 1
      /\ \A w \in Units : "upgrade_charm" \in todo'[w]
      /\ overlapped' = (overlapped \/ \E w \in Units : running[w] # "none")
      /\ UNCHANGED <<charm, charm_epoch, snap_revision, unit_state, down, primary,
                     running, stage, restart_epoch, forced, elections>>
  BY DEF Refresh, databag, IInv, TypeOK, epoch
<1>2. \A e \in 1..epoch : refreshes'[e] = refreshes[e]
  BY <1>1 DEF IInv, TypeOK, epoch
<1>3. \A w \in Units : Goal(w)' = Goal(w)
  BY <1>1, <1>2 DEF Goal, IInv, TypeOK
<1>4. CodeIsRefresh'
  BY <1>1, <1>2 DEF IInv, TypeOK, CodeIsRefresh
<1>5. RestartPending'
  BY <1>1 DEF IInv, RestartPending
<1>6. DownNotReady'
  BY <1>1, <1>3 DEF IInv, TypeOK, DownNotReady
<1>7. HigherFirst' /\ OneAway' /\ InRestart'
  BY <1>1, <1>3 DEF IInv, HigherFirst, OneAway, Away, InRestart
<1>8. PrimaryKept'
  BY <1>1, PrimaryStays DEF Calm
<1> QED BY <1>4, <1>5, <1>6, <1>7, <1>8 DEF IInv

(* The leader prepares a refresh only while none is in progress.           *)
LEMMA PreUpgradeCheckInv ==
  ASSUME IInv, TypeOK', NEW u \in Units, PreUpgradeCheck(u)
  PROVE  IInv'
<1>1. Quiet
  BY DEF Quiet, KeepsCode, PreUpgradeCheck, databag, history
<1>2. SUFFICES ASSUME Calm, NEW w \in Units, stage[w] # "none" PROVE FALSE
  <2>1. PrimaryKept'
    BY <1>2 DEF PrimaryKept, PreUpgradeCheck, Calm, history
  <2> QED BY <1>1, <2>1, QuietInv
<1>3. running[w] # "none" /\ ~overlapped
  BY <1>2 DEF IInv, InRestart, Calm
<1>4. snap_revision[w] # SnapOf[refreshes[epoch]]
  BY <1>3 DEF IInv, RestartPending, CodeIsRefresh
<1>5. charm[u] = refreshes[epoch]
  BY DEF PreUpgradeCheck, Idle, IInv, CodeIsRefresh
<1> QED BY <1>4, <1>5 DEF PreUpgradeCheck, InProgress

LEMMA NextInv == IInv /\ [Next]_vars => IInv'
<1> SUFFICES ASSUME IInv, [Next]_vars PROVE IInv'
  OBVIOUS
<1>0. TypeOK /\ TypeOK'
  BY NextType DEF IInv
<1>1. ASSUME NEW u \in Units, PostAppUpgrade(u) PROVE IInv'
  <2>1. KeepsCode
    BY <1>1, HearKeeps DEF PostAppUpgrade, KeepsCode
  <2> QED BY <1>0, <1>1, <2>1, QuietStays DEF Quiet, PostAppUpgrade, Healthy, history
<1>2. ASSUME NEW u \in Units, Resume(u) PROVE IInv'
  <2>1. KeepsCode
    BY <1>2, HearKeeps DEF Resume, KeepsCode
  <2> QED BY <1>0, <1>2, <2>1, QuietStays DEF Quiet, Resume
<1>4. ASSUME NEW u \in Units, Recover(u) PROVE IInv'
  BY <1>0, <1>4, QuietStays DEF Quiet, KeepsCode, Recover, databag, history
<1>5. ASSUME NEW u \in Units, CrashRestart(u) PROVE IInv'
  <2>1. KeepsCode
    BY <1>0, <1>5 DEF CrashRestart, KeepsCode, TypeOK
  <2>2. \A w \in Units :
          \/ running'[w] = running[w] /\ stage'[w] = stage[w]
          \/ running'[w] = "none" /\ stage'[w] = "none"
    BY <1>0, <1>5 DEF CrashRestart, TypeOK
  <2> QED BY <1>0, <1>5, <2>1, <2>2, QuietStays DEF Quiet, CrashRestart, databag, history
<1>6. CASE Elect
  <2>1. Quiet
    BY <1>6 DEF Quiet, KeepsCode, Elect, databag, history
  <2>2. ~Calm'
    BY <1>0, <1>6, BoundsAssumption DEF Calm, Elect, TypeOK
  <2>3. PrimaryKept'
    BY <2>2 DEF PrimaryKept
  <2> QED BY <1>0, <2>1, <2>3, QuietInv
<1>8. CASE ElectPrimary
  <2>1. Quiet
    BY <1>8 DEF Quiet, KeepsCode, ElectPrimary, databag, history
  <2>2. PrimaryKept'
    BY <1>0, <1>8, NobodyIsNoUnit
    DEF PrimaryKept, Calm, ElectPrimary, Frozen, history, IInv
  <2> QED BY <1>0, <2>1, <2>2, QuietInv
<1>7. CASE UNCHANGED vars
  BY <1>0, <1>7, QuietStays DEF Quiet, KeepsCode, vars, databag, history
<1> QED
  BY <1>0, <1>1, <1>2, <1>4, <1>5, <1>6, <1>7, <1>8, UpgradeCharmInv, PreUpgradeCheckInv,
     RelationChangedInv, ForceRefreshStartInv, InstallInv, EndRestartInv, RefreshInv DEF Next

(* The inductive invariant holds in every state.                           *)
THEOREM Invariant == Spec => []IInv
<1>1. Init => IInv
  BY InitInv
<1>2. IInv /\ [Next]_vars => IInv'
  BY NextInv
<1> QED BY <1>1, <1>2, PTL DEF Spec

(* Whatever the units, the refreshes and the faults: outside forced        *)
(* restarts and refreshes asked for in the middle of a restart, a refresh  *)
(* never has two units of the set out of sync.                             *)
THEOREM OneUnitDownAlways == Spec => []OneUnitDown
<1>1. IInv => OneUnitDown
  BY DEF IInv, OneAway, Away, OneUnitDown
<1> QED BY <1>1, Invariant, PTL

LEMMA NoElection == TypeOK /\ ~(elections > 0) => elections = 0
  BY BoundsAssumption DEF TypeOK

(* Whatever the units, the refreshes and the faults of the restarts: mongod *)
(* is stopped under the primary only by a unit that saw the set without a  *)
(* primary when it looked, or after an election MongoDB made for reasons   *)
(* of its own, a forced restart, a refresh asked for in the middle of one, *)
(* or where there is no other unit.  What a unit saw when it looked holds  *)
(* until the snap is installed, since no other restart of the refresh and  *)
(* no pre-refresh check goes on in between.                                *)
THEOREM PrimaryUpAlways == Spec => PrimaryUp
<1>1. IInv /\ [Next]_vars =>
        [\A u \in Units :
           u \in down' \ down /\ primary = u
             => \/ Units = {u} \/ stage[u] = "saw nobody"
                \/ elections > 0 \/ forced # {} \/ overlapped]_vars
  <2> SUFFICES ASSUME IInv, Next, NEW u \in Units, u \in down', u \notin down, primary = u,
                      Units # {u}, stage[u] # "saw nobody",
                      ~(elections > 0), forced = {}, ~overlapped
               PROVE  FALSE
    OBVIOUS
  <2>1. stage[u] \in {"saw another", "stepped down"}
    <3>1. ASSUME NEW v \in Units, Install(v) PROVE stage[u] \in {"saw another", "stepped down"}
      BY <3>1 DEF Install, StopMongod
    <3>2. ASSUME NEW v \in Units, UpgradeCharm(v) PROVE down' = down
      BY <3>2 DEF UpgradeCharm, SaveVersions, BeginRestart, GiveUpRestart
    <3>3. ASSUME NEW v \in Units, RelationChanged(v) PROVE down' = down
      BY <3>3 DEF RelationChanged, SaveVersions, BeginRestart, GiveUpRestart
    <3>4. ASSUME NEW v \in Units, ForceRefreshStart(v) PROVE down' = down
      BY <3>4 DEF ForceRefreshStart, BeginRestart, GiveUpRestart
    <3> QED
      BY <3>1, <3>2, <3>3, <3>4 DEF Next, PostAppUpgrade, Resume, PreUpgradeCheck,
         EndRestart, CrashRestart, Recover, Refresh, ElectPrimary, Elect
  <2>3. Calm
    BY NoElection DEF Calm, IInv
  <2> QED BY <2>1, <2>3 DEF IInv, PrimaryKept
<1> QED BY <1>1, Invariant, PTL DEF Spec, PrimaryUp

(* The units of a refresh restart from the highest number to the lowest,   *)
(* through any sequence of refreshes, rollbacks and crashes.               *)
THEOREM HigherFirstAlways == Spec => []HigherFirst
<1>1. IInv => HigherFirst
  BY DEF IInv
<1> QED BY <1>1, Invariant, PTL

-----------------------------------------------------------------------------
(* What the operator resumed before stays in the databag only while the    *)
(* leader is in the restart its upgrade-charm began: its own snap is then  *)
(* still the old one, and it is not the second unit, which upgrade-charm   *)
(* cannot restart.                                                         *)
ResetPending ==
  elections = 0 /\ upgrade_resumed /\ confirmed < charm_epoch[leader] =>
    /\ Resetting
    /\ snap_revision[leader] # SnapOf[charm[leader]]
    /\ restart_epoch[leader] = charm_epoch[leader]
    /\ leader \notin forced
    /\ ~IsSecond(leader)

(* The steps that leave the leader and what it has to reset alone.         *)
KeepsReset ==
  /\ elections' = 0 => elections = 0 /\ leader' = leader
  /\ upgrade_resumed' => upgrade_resumed
  /\ UNCHANGED confirmed
  /\ charm_epoch'[leader] = charm_epoch[leader] /\ charm'[leader] = charm[leader]
  /\ Resetting => /\ snap_revision'[leader] = snap_revision[leader]
                  /\ restart_epoch'[leader] = restart_epoch[leader]
                  /\ leader \in forced' => leader \in forced
                  /\ elections' = 0 => Resetting'

LEMMA KeepsResetInv ==
  ASSUME TypeOK, ResetPending, KeepsReset
  PROVE  ResetPending'
<1> SUFFICES ASSUME elections' = 0, upgrade_resumed', confirmed' < charm_epoch'[leader']
             PROVE  /\ Resetting'
                    /\ snap_revision'[leader'] # SnapOf[charm'[leader']]
                    /\ restart_epoch'[leader'] = charm_epoch'[leader']
                    /\ leader' \notin forced' /\ ~IsSecond(leader')
  BY DEF ResetPending, IsSecond, Higher
<1> QED BY DEF ResetPending, KeepsReset, Resetting

(* The hooks of a unit other than the leader touch nothing of the leader.  *)
LEMMA UpgradeCharmReset ==
  ASSUME TypeOK, ResetPending, NEW u \in Units, UpgradeCharm(u)
  PROVE  ResetPending'
<1> DEFINE r == refreshes[epoch]
           queue == Done(u, "upgrade_charm")
<1>1. /\ "upgrade_charm" \in todo[u] /\ running[u] = "none"
      /\ charm' = [charm EXCEPT ![u] = r] /\ charm_epoch' = [charm_epoch EXCEPT ![u] = epoch]
      /\ UNCHANGED <<leader, elections>>
  BY DEF UpgradeCharm
<1>2. CASE u # leader /\ todo' = queue
           /\ UNCHANGED <<databag, installed, down, primary, running, stage,
                          deferred, history, failures>>
  <2>1. "upgrade_charm" \in todo[leader] => "upgrade_charm" \in todo'[leader]
    BY <1>2, DoneKeeps DEF TypeOK
  <2> QED BY <1>1, <1>2, <2>1, KeepsResetInv
          DEF KeepsReset, Resetting, TypeOK, databag, history
<1>3. CASE upgrade_resumed' = FALSE
  BY <1>3 DEF ResetPending
<1>4. CASE u = leader /\ MayRestart(u, r, FALSE) /\ BeginRestart(u, r, "upgrade_charm")
  <2>1. /\ running'[u] = "upgrade_charm" /\ restart_epoch'[u] = charm_epoch'[u]
        /\ u \notin forced' /\ UNCHANGED <<snap_revision, leader>>
    BY <1>1, <1>4 DEF BeginRestart, databag, TypeOK
  <2>2. snap_revision[u] # SnapOf[charm'[u]] /\ ~IsSecond(u)
    BY <1>1, <1>4 DEF MayRestart, Outdated, Authorized, TypeOK
  <2> QED BY <1>4, <2>1, <2>2 DEF ResetPending, Resetting, IsSecond, Higher
<1> QED BY <1>2, <1>3, <1>4 DEF UpgradeCharm

LEMMA RelationChangedReset ==
  ASSUME TypeOK, ResetPending, NEW u \in Units, RelationChanged(u)
  PROVE  ResetPending'
<1> DEFINE queue == Done(u, "relation_changed")
<1>1. /\ running[u] = "none" /\ "upgrade_charm" \notin todo[u]
      /\ UNCHANGED <<charm, charm_epoch, leader, elections, upgrade_resumed,
                     snap_revision, confirmed>>
  BY DEF RelationChanged, Idle, SaveVersions, BeginRestart, GiveUpRestart, databag, history
<1>2. Resetting => u # leader
  BY <1>1 DEF Resetting
<1>3. "upgrade_charm" \in todo[leader] => "upgrade_charm" \in todo'[leader]
  <2>1. todo' = queue \/ todo' = Hear(queue, AppHearers(u))
    BY DEF RelationChanged, SaveVersions
  <2> QED BY <2>1, HearKeeps, DoneKeeps DEF TypeOK
<1>4. Resetting => /\ restart_epoch'[leader] = restart_epoch[leader]
                   /\ leader \in forced' => leader \in forced
                   /\ running'[leader] = running[leader]
  BY <1>2 DEF RelationChanged, SaveVersions, BeginRestart, GiveUpRestart, history, TypeOK
<1> QED BY <1>1, <1>3, <1>4, KeepsResetInv DEF KeepsReset, Resetting

LEMMA ForceRefreshStartReset ==
  ASSUME TypeOK, ResetPending, NEW u \in Units, ForceRefreshStart(u)
  PROVE  ResetPending'
<1>1. /\ running[u] = "none" /\ "upgrade_charm" \notin todo[u]
      /\ UNCHANGED <<charm, charm_epoch, leader, elections, upgrade_resumed,
                     snap_revision, confirmed, todo>>
  BY DEF ForceRefreshStart, Idle, BeginRestart, GiveUpRestart, databag, history
<1>2. Resetting => u # leader
  BY <1>1 DEF Resetting
<1>3. Resetting => /\ restart_epoch'[leader] = restart_epoch[leader]
                   /\ leader \in forced' => leader \in forced
                   /\ running'[leader] = running[leader]
  BY <1>2 DEF ForceRefreshStart, BeginRestart, GiveUpRestart, history, TypeOK
<1> QED BY <1>1, <1>3, KeepsResetInv DEF KeepsReset, Resetting

(* The restart of the leader's upgrade-charm ends with the reset, or raises *)
(* and is retried.                                                         *)
LEMMA EndRestartReset ==
  ASSUME TypeOK, InRestart, ResetPending, NEW u \in Units, EndRestart(u)
  PROVE  ResetPending'
<1>1. CASE running[u] = "upgrade_charm"
  BY <1>1 DEF EndRestart, ResetPending
<1>2. CASE running[u] # "upgrade_charm"
  <2>1. /\ UNCHANGED <<charm, charm_epoch, leader, elections, upgrade_resumed,
                       confirmed, restart_epoch, forced>>
        /\ running' = [running EXCEPT ![u] = "none"]
        /\ snap_revision' = [snap_revision EXCEPT ![u] = SnapOf[charm[u]]]
        /\ todo' = Hear(todo, Others(u))
    BY <1>2 DEF EndRestart, SnapSaved, history
  <2>2. "upgrade_charm" \in todo[leader] => "upgrade_charm" \in todo'[leader]
    BY <2>1, HearKeeps DEF TypeOK
  <2>3. Resetting => u # leader
    BY <1>2 DEF EndRestart, InRestart, Resetting
  <2> QED BY <2>1, <2>2, <2>3, KeepsResetInv DEF KeepsReset, Resetting, TypeOK
<1> QED BY <1>1, <1>2

LEMMA CrashRestartReset ==
  ASSUME TypeOK, ResetPending, NEW u \in Units, CrashRestart(u)
  PROVE  ResetPending'
<1>1. /\ running' = [running EXCEPT ![u] = "none"] /\ running[u] # "none"
      /\ todo' = [todo EXCEPT ![u] = @ \cup ({running[u]} \ {"force"})]
      /\ UNCHANGED <<charm, charm_epoch, databag, leader, elections, history>>
  BY DEF CrashRestart
<1>2. Resetting => Resetting'
  BY <1>1 DEF Resetting, TypeOK
<1> QED BY <1>1, <1>2, KeepsResetInv DEF KeepsReset, databag, history

LEMMA NextReset == IInv /\ ResetPending /\ [Next]_vars => ResetPending'
<1> SUFFICES ASSUME TypeOK, InRestart, ResetPending, [Next]_vars PROVE ResetPending'
  BY DEF IInv
<1>1. ASSUME NEW u \in Units, PostAppUpgrade(u) PROVE ResetPending'
  <2>1. "upgrade_charm" \in todo[leader] => "upgrade_charm" \in todo'[leader]
    BY <1>1, HearKeeps DEF PostAppUpgrade, TypeOK
  <2> QED BY <1>1, <2>1, KeepsResetInv DEF KeepsReset, Resetting, PostAppUpgrade, history
<1>2. ASSUME NEW u \in Units, Resume(u) PROVE ResetPending'
  <2>1. confirmed' = charm_epoch'[leader'] /\ confirmed' \in Nat
    BY <1>2, BoundsAssumption DEF Resume, TypeOK
  <2> QED BY <2>1 DEF ResetPending
<1>3. ASSUME NEW u \in Units, PreUpgradeCheck(u) PROVE ResetPending'
  BY <1>3, KeepsResetInv DEF KeepsReset, Resetting, PreUpgradeCheck, databag, history
<1>4. ASSUME NEW u \in Units, Recover(u) PROVE ResetPending'
  BY <1>4, KeepsResetInv DEF KeepsReset, Resetting, Recover, databag, history
<1>5. ASSUME NEW r \in Revisions, Refresh(r) PROVE ResetPending'
  <2>1. \A w \in Units : "upgrade_charm" \in todo'[w]
    BY <1>5 DEF Refresh
  <2> QED BY <1>5, <2>1, KeepsResetInv DEF KeepsReset, Resetting, Refresh, databag, TypeOK
<1>6. CASE Elect
  BY <1>6, BoundsAssumption DEF ResetPending, Elect, TypeOK
<1>8. ASSUME NEW u \in Units, Install(u) PROVE ResetPending'
  BY <1>8, KeepsResetInv DEF KeepsReset, Resetting, Install, databag, history
<1>9. CASE ElectPrimary
  BY <1>9, KeepsResetInv DEF KeepsReset, Resetting, ElectPrimary, databag, history
<1>7. CASE UNCHANGED vars
  BY <1>7, KeepsResetInv DEF KeepsReset, Resetting, vars, databag, history
<1> QED
  BY <1>1, <1>2, <1>3, <1>4, <1>5, <1>6, <1>7, <1>8, <1>9, UpgradeCharmReset, RelationChangedReset,
     ForceRefreshStartReset, EndRestartReset, CrashRestartReset DEF Next

(* What was resumed for an earlier refresh is reset by the leader, or the  *)
(* leader is in the restart that will end with the reset.                  *)
THEOREM ResetPendingAlways == Spec => []ResetPending
<1>1. Init => ResetPending
  BY DEF Init, ResetPending
<1>2. IInv /\ ResetPending /\ [Next]_vars => ResetPending'
  BY NextReset
<1> QED BY <1>1, <1>2, Invariant, PTL DEF Spec

(* The second unit does not restart on a leader's old confirmation: when   *)
(* the leader is the first unit its own snap shows the restart is not over, *)
(* and when it is a lower one it waited for the second unit itself.        *)
LEMMA SecondConfirmed ==
  ASSUME IInv, ResetPending, TypeOK', NEW u \in Units, Next, IsSecond(u),
         running[u] = "none", running'[u] \in Hooks, charm_epoch[leader] >= charm_epoch'[u],
         elections = 0, ~(overlapped /\ Resetting)
  PROVE  confirmed >= charm_epoch'[u]
<1> DEFINE r == refreshes[epoch]
<1> TypeOK
  BY DEF IInv
<1>0. epoch \in Nat /\ \A w \in Units : charm_epoch[w] \in 1..epoch
  BY BoundsAssumption DEF TypeOK
<1>1. RelationChanged(u) /\ MayRestart(u, charm[u], upgrade_resumed)
  <2>1. ASSUME NEW w \in Units, UpgradeCharm(w) PROVE FALSE
    BY <2>1 DEF UpgradeCharm, SaveVersions, GiveUpRestart, BeginRestart, MayRestart,
                Authorized, TypeOK, Hooks
  <2>2. ASSUME NEW w \in Units, RelationChanged(w)
        PROVE  w = u /\ MayRestart(u, charm[u], upgrade_resumed)
    BY <2>2 DEF RelationChanged, SaveVersions, GiveUpRestart, BeginRestart, TypeOK, Hooks
  <2>3. ASSUME NEW w \in Units, ForceRefreshStart(w) PROVE FALSE
    BY <2>3 DEF ForceRefreshStart, GiveUpRestart, BeginRestart, TypeOK, Hooks
  <2>4. ASSUME NEW w \in Units, EndRestart(w) \/ CrashRestart(w) PROVE FALSE
    BY <2>4 DEF EndRestart, CrashRestart, TypeOK, Hooks
  <2> QED BY <2>1, <2>2, <2>3, <2>4
          DEF Next, PostAppUpgrade, Resume, PreUpgradeCheck, Install, Recover, Refresh,
              ElectPrimary, Elect, Hooks
<1>2. /\ charm_epoch[u] = epoch /\ charm[u] = r /\ charm_epoch' = charm_epoch
      /\ upgrade_resumed /\ snap_revision[u] # SnapOf[r]
      /\ \A w \in Higher(u) : snap_revision[w] = SnapOf[r]
  BY <1>1 DEF RelationChanged, Idle, MayRestart, Authorized, Outdated, IInv, CodeIsRefresh
<1>3. charm_epoch[leader] = epoch /\ charm[leader] = r /\ leader \in Units
  <2>1. leader \in Units /\ charm[leader] = refreshes[charm_epoch[leader]]
    BY DEF IInv, TypeOK, CodeIsRefresh
  <2>2. charm_epoch[leader] >= epoch /\ charm_epoch[leader] \in 1..epoch
    BY <1>0, <1>2, <2>1
  <2> QED BY <1>0, <2>1, <2>2
<1> SUFFICES ASSUME confirmed < epoch PROVE FALSE
  BY <1>0, <1>2 DEF TypeOK
<1>4. /\ Resetting /\ snap_revision[leader] # SnapOf[r] /\ restart_epoch[leader] = epoch
      /\ leader \notin forced /\ leader # u
  BY <1>2, <1>3 DEF ResetPending
<1>5. CASE leader > u
  BY <1>2, <1>3, <1>4, <1>5 DEF Higher
<1>6. CASE leader < u
  <2>1. snap_revision[u] = Goal(leader)
    BY <1>0, <1>2, <1>3, <1>4, <1>6 DEF IInv, HigherFirst
  <2> QED BY <1>2, <1>4, <2>1 DEF Goal
<1> QED BY <1>3, <1>4, <1>5, <1>6, UnitsAssumption

(* Whatever the refreshes, rollbacks and faults: the second unit restarts  *)
(* only once the operator resumed this refresh, forced restarts of other   *)
(* units or not, as long as the leader stays and has heard of the refresh. *)
THEOREM SecondUnitConfirmedAlways == Spec => SecondUnitConfirmed
<1>1. IInv /\ ResetPending /\ TypeOK' /\ [Next]_vars =>
        [\A u \in Units :
           IsSecond(u) /\ running[u] = "none" /\ running'[u] \in Hooks
             => \/ confirmed >= charm_epoch'[u]
                \/ charm_epoch[leader] < charm_epoch'[u] \/ elections > 0
                \/ overlapped /\ Resetting]_vars
  <2> SUFFICES ASSUME IInv, ResetPending, TypeOK', Next, NEW u \in Units, IsSecond(u),
                      running[u] = "none", running'[u] \in Hooks,
                      ~(charm_epoch[leader] < charm_epoch'[u]), ~(elections > 0),
                      ~(overlapped /\ Resetting)
               PROVE  confirmed >= charm_epoch'[u]
    OBVIOUS
  <2>1. /\ elections \in Nat /\ epoch \in Nat /\ epoch' \in Nat
        /\ charm_epoch[leader] \in 1..epoch /\ charm_epoch'[u] \in 1..epoch'
    BY BoundsAssumption DEF IInv, TypeOK
  <2>2. elections = 0 /\ charm_epoch[leader] >= charm_epoch'[u]
    BY <2>1
  <2> QED BY <2>2, SecondConfirmed
<1>2. IInv => TypeOK
  BY DEF IInv
<1> QED BY <1>1, <1>2, Invariant, ResetPendingAlways, PTL DEF Spec, SecondUnitConfirmed

-----------------------------------------------------------------------------
(* No unit is forgotten.  A unit is due when only its call is missing (and, *)
(* for the first one, the health of the set).                              *)
Due(u) ==
  /\ IsCompatible(charm[u]) /\ Outdated(u, charm[u])
  /\ \A w \in Higher(u) : snap_revision[w] = SnapOf[charm[u]] /\ unit_state[w] = "HEALTHY"
  /\ IsSecond(u) => upgrade_resumed

(* The leader runs upgrade-charm for itself, and tells the others of its   *)
(* reset and of the confirmation; it may not hear of the latter.           *)
Told(u) == confirmed = epoch \/ (u = leader /\ elections = 0)
Hears(u) == LeaderHearsItself \/ (elections = 0 /\ ~IsSecond(u))

(* A unit that is due is going to be called, by a hook that is queued or   *)
(* the end of what another one is at, unless it is the first one and was   *)
(* refused for its own mongod or for want of a primary.                    *)
Called(u) ==
  Due(u) /\ running[u] = "none" /\ Told(u) /\ Hears(u) =>
    \/ todo[u] # {}
    \/ \E w \in Others(u) : Active(w)
    \/ IsFirst(u) /\ refused
NoWakeUpLost == failures = 0 => \A u \in Units : Called(u)

(* A mongod out of sync is in a restart or keeps the check of one waiting, *)
(* as the unit says in its databag.                                        *)
DownActive == failures = 0 => \A u \in down : Active(u)
DeferredSaysSo == \A u \in Units : u \in deferred <=> unit_state[u] = "UPGRADING"

(* The confirmation comes after the code, and is not forgotten over it.    *)
ConfirmedQueued ==
  failures = 0 /\ confirmed = epoch =>
    \A u \in Units : "upgrade_charm" \in todo[u] => "relation_changed" \in todo[u]

(* A unit that never restarted has the snap it was deployed with, and      *)
(* nobody below it restarted but by force.                                 *)
NeverRestarted ==
  \A w \in Units : unit_state[w] = "none" =>
    /\ snap_revision[w] = SnapOf[refreshes[1]]
    /\ \A u \in Units :
         w > u /\ u \notin forced => unit_state[u] = "none" /\ running[u] = "none"

WakeInv == DownActive /\ DeferredSaysSo /\ ConfirmedQueued /\ NeverRestarted /\ NoWakeUpLost

(* The queues: a write is heard, and takes no hook away.                    *)
LEMMA HearAdds ==
  ASSUME NEW q, NEW S, NEW w \in Units
  PROVE  q[w] \subseteq Hear(q, S)[w] /\ (w \in S => "relation_changed" \in Hear(q, S)[w])
  BY DEF Hear

LEMMA InitWake ==
  ASSUME Init PROVE WakeInv
<1>1. /\ down = {} /\ deferred = {} /\ forced = {}
      /\ unit_state = [u \in Units |-> "none"] /\ running = [u \in Units |-> "none"]
      /\ todo = [u \in Units |-> {}]
  BY DEF Init
<1>2. PICK r \in Revisions :
        refreshes = <<r>> /\ charm = [u \in Units |-> r]
        /\ snap_revision = [u \in Units |-> SnapOf[r]]
  BY InitStart
<1>3. NeverRestarted
  BY <1>1, <1>2 DEF NeverRestarted
<1>4. DownActive /\ DeferredSaysSo /\ ConfirmedQueued
  BY <1>1 DEF DownActive, DeferredSaysSo, ConfirmedQueued
<1>5. NoWakeUpLost
  BY <1>2 DEF NoWakeUpLost, Called, Due, Outdated
<1> QED BY <1>3, <1>4, <1>5 DEF WakeInv

(* Faults are counted, never forgotten.                                    *)
LEMMA FailuresStay ==
  ASSUME TypeOK, Next, failures' = 0 PROVE failures = 0
<1>1. SUFFICES failures' \in {failures, failures + 1}
  BY <1>1, BoundsAssumption DEF TypeOK
<1>2. ASSUME NEW v \in Units, UpgradeCharm(v) PROVE failures' \in {failures, failures + 1}
  BY <1>2 DEF UpgradeCharm, SaveVersions, BeginRestart, GiveUpRestart, Fail
<1>3. ASSUME NEW v \in Units, RelationChanged(v) PROVE failures' \in {failures, failures + 1}
  BY <1>3 DEF RelationChanged, SaveVersions, BeginRestart, GiveUpRestart, Fail
<1>4. ASSUME NEW v \in Units, ForceRefreshStart(v) PROVE failures' \in {failures, failures + 1}
  BY <1>4 DEF ForceRefreshStart, BeginRestart, GiveUpRestart, Fail
<1>5. ASSUME NEW v \in Units, EndRestart(v) \/ Install(v)
      PROVE  failures' \in {failures, failures + 1}
  BY <1>5 DEF EndRestart, PostUpgradeChecks, Install, Fail
<1> QED
  BY <1>2, <1>3, <1>4, <1>5 DEF Next, PostAppUpgrade, Resume, PreUpgradeCheck,
     CrashRestart, Recover, Refresh, ElectPrimary, Elect, Fail

(* A mongod goes down in a restart, whose end repeats the check later.     *)
LEMMA NextDownActive ==
  ASSUME TypeOK, InRestart, DownActive, Next, failures' = 0
  PROVE  failures = 0 /\ \A u \in down' : Active(u)'
<1>1. failures = 0
  BY FailuresStay
<1>2. ASSUME NEW v \in Units, NEW r, NEW hook \in Hooks \cup {"force"},
             BeginRestart(v, r, hook)
      PROVE  \A u \in down' : Active(u)'
  BY <1>1, <1>2 DEF BeginRestart, DownActive, Active, TypeOK, Hooks
<1>3. ASSUME down' \subseteq down, UNCHANGED <<running, deferred>>
      PROVE  \A u \in down' : Active(u)'
  BY <1>1, <1>3 DEF DownActive, Active
<1>4. ASSUME NEW v \in Units, UpgradeCharm(v) PROVE \A u \in down' : Active(u)'
  BY <1>2, <1>3, <1>4 DEF UpgradeCharm, SaveVersions, GiveUpRestart, Hooks
<1>5. ASSUME NEW v \in Units, RelationChanged(v) PROVE \A u \in down' : Active(u)'
  BY <1>2, <1>3, <1>5 DEF RelationChanged, SaveVersions, GiveUpRestart, Hooks
<1>6. ASSUME NEW v \in Units, ForceRefreshStart(v) PROVE \A u \in down' : Active(u)'
  BY <1>2, <1>3, <1>6 DEF ForceRefreshStart, GiveUpRestart
<1>7. ASSUME NEW v \in Units, EndRestart(v) PROVE \A u \in down' : Active(u)'
  BY <1>1, <1>7 DEF EndRestart, PostUpgradeChecks, Healthy, DownActive, Active, TypeOK
<1>8. ASSUME NEW v \in Units, PostAppUpgrade(v) PROVE \A u \in down' : Active(u)'
  BY <1>8 DEF PostAppUpgrade, Healthy
<1>10. ASSUME NEW v \in Units, Install(v) PROVE \A u \in down' : Active(u)'
  <2>1. running[v] # "none" /\ UNCHANGED <<running, deferred>> /\ down' \subseteq down \cup {v}
    BY <1>10 DEF Install, StopMongod, InRestart
  <2> QED BY <1>1, <2>1 DEF DownActive, Active
<1>9. ASSUME NEW v \in Units, CrashRestart(v) PROVE FALSE
  BY <1>1, <1>9 DEF CrashRestart, Fail
<1> QED
  BY <1>1, <1>3, <1>4, <1>5, <1>6, <1>7, <1>8, <1>9, <1>10
     DEF Next, Resume, PreUpgradeCheck, Recover, Refresh, ElectPrimary, Elect

LEMMA NextDeferredSaysSo ==
  ASSUME TypeOK, DeferredSaysSo, Next PROVE DeferredSaysSo'
<1>1. ASSUME UNCHANGED <<unit_state, deferred>> PROVE DeferredSaysSo'
  BY <1>1 DEF DeferredSaysSo
<1>2. ASSUME NEW v \in Units, PostAppUpgrade(v) \/ EndRestart(v) PROVE DeferredSaysSo'
  BY <1>2 DEF PostAppUpgrade, EndRestart, PostUpgradeChecks, DeferredSaysSo, TypeOK
<1>3. ASSUME NEW v \in Units, UpgradeCharm(v) PROVE UNCHANGED <<unit_state, deferred>>
  BY <1>3 DEF UpgradeCharm, SaveVersions, BeginRestart, GiveUpRestart, databag
<1>4. ASSUME NEW v \in Units, RelationChanged(v) PROVE UNCHANGED <<unit_state, deferred>>
  BY <1>4 DEF RelationChanged, SaveVersions, BeginRestart, GiveUpRestart, databag
<1>5. ASSUME NEW v \in Units, ForceRefreshStart(v) PROVE UNCHANGED <<unit_state, deferred>>
  BY <1>5 DEF ForceRefreshStart, BeginRestart, GiveUpRestart, databag
<1> QED
  BY <1>1, <1>2, <1>3, <1>4, <1>5
     DEF Next, Resume, PreUpgradeCheck, Install, CrashRestart, Recover, Refresh, ElectPrimary,
         Elect, databag

(* The steps that keep what the confirmation left in the queues.           *)
LEMMA KeepsQueued ==
  ASSUME TypeOK, ConfirmedQueued, failures' = 0 => failures = 0,
         confirmed' = confirmed, refreshes' = refreshes,
         \A w \in Units :
           "upgrade_charm" \in todo'[w] =>
             "upgrade_charm" \in todo[w] /\ todo[w] \subseteq todo'[w]
  PROVE  ConfirmedQueued'
  BY DEF ConfirmedQueued, epoch

LEMMA NextConfirmedQueued ==
  ASSUME IInv, ConfirmedQueued, Next, failures' = 0 => failures = 0
  PROVE  ConfirmedQueued'
<1> TypeOK
  BY DEF IInv
<1>1. ASSUME NEW v \in Units, UpgradeCharm(v) PROVE ConfirmedQueued'
  <2> DEFINE queue == Done(v, "upgrade_charm")
             heard == Hear(queue, AppHearers(v))
  <2>1. UNCHANGED <<confirmed, refreshes>>
    BY <1>1 DEF UpgradeCharm, SaveVersions, BeginRestart, GiveUpRestart, history
  <2>2. todo' \in {queue, heard, Hear(heard, AppHearers(v))}
    BY <1>1 DEF UpgradeCharm, SaveVersions
  <2>3. \A w \in Units :
          "upgrade_charm" \in queue[w] => w # v /\ todo[w] = queue[w]
    BY DEF Done, TypeOK
  <2>4. \A w \in Units :
          /\ "upgrade_charm" \in todo'[w] => "upgrade_charm" \in queue[w]
          /\ queue[w] \subseteq todo'[w]
    <3> HIDE DEF queue
    <3> QED BY <2>2, HearKeeps, HearAdds
  <2> QED BY <2>1, <2>3, <2>4, KeepsQueued
<1>2. ASSUME NEW v \in Units, RelationChanged(v) PROVE ConfirmedQueued'
  <2> DEFINE queue == Done(v, "relation_changed")
  <2>1. UNCHANGED <<confirmed, refreshes>> /\ "upgrade_charm" \notin todo[v]
    BY <1>2 DEF RelationChanged, SaveVersions, BeginRestart, GiveUpRestart, history, Idle
  <2>2. todo' \in {queue, Hear(queue, AppHearers(v))}
    BY <1>2 DEF RelationChanged, SaveVersions
  <2>3. \A w \in Units :
          "upgrade_charm" \in queue[w] => w # v /\ todo[w] = queue[w]
    BY <2>1 DEF Done, TypeOK
  <2>4. \A w \in Units :
          /\ "upgrade_charm" \in todo'[w] => "upgrade_charm" \in queue[w]
          /\ queue[w] \subseteq todo'[w]
    <3> HIDE DEF queue
    <3> QED BY <2>2, HearKeeps, HearAdds
  <2> QED BY <2>1, <2>3, <2>4, KeepsQueued
<1>3. ASSUME NEW S, todo' = Hear(todo, S), UNCHANGED <<confirmed, refreshes>>
      PROVE  ConfirmedQueued'
  BY <1>3, HearKeeps, HearAdds, KeepsQueued
<1>4. ASSUME UNCHANGED <<todo, confirmed, refreshes>> PROVE ConfirmedQueued'
  BY <1>4, KeepsQueued
<1>5. ASSUME NEW v \in Units, Resume(v) PROVE ConfirmedQueued'
  <2>1. todo' = Hear(todo, AppHearers(v)) /\ "upgrade_charm" \notin todo[v]
    BY <1>5 DEF Resume, Idle
  <2>2. \A w \in Units : w # v => "relation_changed" \in todo'[w]
    BY <2>1, HearAdds DEF AppHearers, Others
  <2>3. "upgrade_charm" \notin todo'[v]
    BY <2>1, HearKeeps
  <2> QED BY <2>2, <2>3 DEF ConfirmedQueued
<1>6. ASSUME NEW v \in Units, CrashRestart(v) PROVE ConfirmedQueued'
  BY <1>6, BoundsAssumption DEF CrashRestart, Fail, ConfirmedQueued, TypeOK
<1>7. ASSUME NEW r \in Revisions, Refresh(r) PROVE ConfirmedQueued'
  BY <1>7, BoundsAssumption DEF Refresh, ConfirmedQueued, TypeOK, epoch
<1>8. ASSUME NEW v \in Units, EndRestart(v) \/ PostAppUpgrade(v) PROVE ConfirmedQueued'
  BY <1>3, <1>4, <1>8 DEF EndRestart, PostAppUpgrade, history
<1>9. ASSUME NEW v \in Units, ForceRefreshStart(v) PROVE ConfirmedQueued'
  BY <1>4, <1>9 DEF ForceRefreshStart, BeginRestart, GiveUpRestart, history
<1> QED
  BY <1>1, <1>2, <1>4, <1>5, <1>6, <1>7, <1>8, <1>9
     DEF Next, PreUpgradeCheck, Install, Recover, ElectPrimary, Elect, history

(* Nobody restarts below a unit that never did, but by force.              *)
LEMMA NextNeverRestarted ==
  ASSUME TypeOK, InRestart, DeferredSaysSo, NeverRestarted, Next PROVE NeverRestarted'
<1>1. refreshes'[1] = refreshes[1]
  <2>1. refreshes' = refreshes \/ \E r \in Revisions : refreshes' = Append(refreshes, r)
    BY DEF Next, UpgradeCharm, RelationChanged, PostAppUpgrade, Resume, ForceRefreshStart,
           PreUpgradeCheck, Install, EndRestart, CrashRestart, Recover, Refresh,
           ElectPrimary, Elect
  <2> QED BY <2>1 DEF TypeOK, epoch
<1>2. ASSUME UNCHANGED <<snap_revision, unit_state>>, forced \subseteq forced',
             \A u \in Units : running'[u] \in {running[u], "none"}
      PROVE  NeverRestarted'
  BY <1>1, <1>2 DEF NeverRestarted
<1>3. ASSUME NEW v \in Units, NEW r, NEW hook,
             BeginRestart(v, r, hook), hook # "force" => Authorized(v, r, TRUE)
      PROVE  NeverRestarted'
  <2>1. /\ UNCHANGED <<snap_revision, unit_state>>
        /\ running' = [running EXCEPT ![v] = hook]
        /\ forced' = IF hook = "force" THEN forced \cup {v} ELSE forced \ {v}
    BY <1>3 DEF BeginRestart, databag
  <2>2. \A w \in Units : w > v /\ hook # "force" => unit_state[w] = "HEALTHY"
    BY <1>3 DEF Authorized, Higher
  <2>3. SUFFICES ASSUME NEW w \in Units, unit_state[w] = "none",
                        NEW u \in Units, w > u, u \notin forced'
                 PROVE  unit_state[u] = "none" /\ running'[u] = "none"
    BY <1>1, <2>1 DEF NeverRestarted
  <2>4. u # v /\ u \notin forced
    BY <2>1, <2>2, <2>3
  <2> QED BY <2>1, <2>3, <2>4 DEF NeverRestarted, TypeOK
<1>4. ASSUME NEW v \in Units, EndRestart(v) PROVE NeverRestarted'
  <2>1. /\ UNCHANGED forced /\ running[v] # "none"
        /\ running' = [running EXCEPT ![v] = "none"]
        /\ snap_revision' = [snap_revision EXCEPT ![v] = SnapOf[charm[v]]]
        /\ \E s \in {"HEALTHY", "UPGRADING"} : unit_state' = [unit_state EXCEPT ![v] = s]
    BY <1>4 DEF EndRestart, InRestart, SnapSaved, PostUpgradeChecks, history
  <2> QED BY <1>1, <2>1 DEF NeverRestarted, TypeOK
<1>5. ASSUME NEW v \in Units, PostAppUpgrade(v) PROVE NeverRestarted'
  <2>1. /\ UNCHANGED <<forced, running, snap_revision>> /\ unit_state[v] = "UPGRADING"
        /\ unit_state' = [unit_state EXCEPT ![v] = "HEALTHY"]
    BY <1>5 DEF PostAppUpgrade, DeferredSaysSo, history
  <2> QED BY <1>1, <2>1 DEF NeverRestarted, TypeOK
<1>6. ASSUME NEW v \in Units, UpgradeCharm(v) PROVE NeverRestarted'
  BY <1>2, <1>3, <1>6
     DEF UpgradeCharm, SaveVersions, GiveUpRestart, MayRestart, Authorized, databag, history
<1>7. ASSUME NEW v \in Units, RelationChanged(v) PROVE NeverRestarted'
  BY <1>2, <1>3, <1>7
     DEF RelationChanged, SaveVersions, GiveUpRestart, MayRestart, Authorized, history
<1>8. ASSUME NEW v \in Units, ForceRefreshStart(v) PROVE NeverRestarted'
  BY <1>2, <1>3, <1>8 DEF ForceRefreshStart, GiveUpRestart, history
<1>9. ASSUME NEW v \in Units, CrashRestart(v) PROVE NeverRestarted'
  BY <1>2, <1>9 DEF CrashRestart, TypeOK, databag, history
<1> QED
  BY <1>2, <1>4, <1>5, <1>6, <1>7, <1>8, <1>9
     DEF Next, Resume, PreUpgradeCheck, Install, Recover, Refresh, ElectPrimary, Elect,
         databag, history

(* A step that changes nothing a unit looks at, and takes no hook of it or *)
(* restart of another away.                                                *)
Unmoved(u) ==
  /\ Due(u)' => Due(u)
  /\ running'[u] = running[u] /\ todo[u] \subseteq todo'[u]
  /\ Told(u)' => Told(u)
  /\ Hears(u)' => Hears(u)
  /\ \A w \in Others(u) : Active(w) => Active(w)'
  /\ IsFirst(u) /\ refused => refused'

LEMMA UnmovedCalled ==
  ASSUME NEW u, Called(u), Unmoved(u) PROVE Called(u)'
  BY DEF Called, Unmoved, IsFirst, Higher, Others

LEMMA DueSame ==
  ASSUME NEW u \in Units, UNCHANGED <<versions, snap_revision, upgrade_resumed>>,
         charm'[u] = charm[u], \A w \in Higher(u) : unit_state'[w] = unit_state[w]
  PROVE  Due(u)' = Due(u)
  BY DEF Due, IsCompatible, Outdated, Higher, IsSecond

LEMMA ToldSame ==
  ASSUME NEW u, UNCHANGED <<refreshes, confirmed, leader, elections>>
  PROVE  Told(u)' = Told(u) /\ Hears(u)' = Hears(u)
  BY DEF Told, Hears, epoch, IsSecond, Higher

LEMMA HeardCalled ==
  ASSUME NEW u, "relation_changed" \in todo'[u] PROVE Called(u)'
  BY DEF Called

LEMMA OneFirst ==
  ASSUME NEW u \in Units, NEW v \in Units, IsFirst(u), IsFirst(v) PROVE u = v
  BY UnitsAssumption DEF IsFirst, Higher

(* A unit that looks, is due and may not restart waits for another one     *)
(* that is down, or is the first one and refused.                          *)
LEMMA DueDenied ==
  ASSUME TypeOK, DownActive, failures = 0, NEW u \in Units, NEW r, NEW resumed,
         IsCompatible(r), Outdated(u, r), Look(u, r),
         \A w \in Higher(u) : snap_revision[w] = SnapOf[r] /\ unit_state[w] = "HEALTHY",
         IsSecond(u) => resumed,
         ~MayRestart(u, r, resumed)
  PROVE  (IsFirst(u) /\ refused') \/ \E w \in Others(u) : Active(w)
<1>1. NeedsPrecheck(u, r) /\ (down # {} \/ primary = Nobody)
  BY DEF MayRestart, Authorized, Healthy
<1>2. IsFirst(u)
  BY <1>1 DEF NeedsPrecheck
<1>3. CASE u \in down \/ primary = Nobody
  BY <1>1, <1>2, <1>3 DEF Look
<1>4. CASE u \notin down /\ down # {}
  <2>1. PICK w \in down : TRUE
    BY <1>4
  <2> QED BY <1>4, <2>1 DEF TypeOK, DownActive, Others
<1> QED BY <1>1, <1>3, <1>4

(* Only a fault makes a unit give up.                                      *)
LEMMA NoGiveUp ==
  ASSUME TypeOK, NEW u, NEW r, NEW hook, GiveUpRestart(u, r, hook)
  PROVE  failures' # failures
  BY BoundsAssumption DEF TypeOK, GiveUpRestart, Fail

(* Versions are saved by a leader that is not outdated.                    *)
LEMMA SavedNotOutdated ==
  ASSUME NEW u \in Units, NEW r, SavedVersions(u, r) # versions PROVE ~Outdated(u, r)
  BY DEF SavedVersions, InProgress, Outdated

LEMMA UpgradeCharmCalled ==
  ASSUME IInv, TypeOK', WakeInv, NEW v \in Units, UpgradeCharm(v), failures = 0, failures' = 0,
         NEW u \in Units
  PROVE  Called(u)'
<1> DEFINE r == refreshes[epoch]
           queue == Done(v, "upgrade_charm")
           heard == Hear(queue, AppHearers(v))
<1> TypeOK /\ Called(u) /\ DownActive /\ ConfirmedQueued
  BY DEF IInv, WakeInv, NoWakeUpLost
<1>1. /\ running[v] = "none" /\ "upgrade_charm" \in todo[v]
      /\ charm' = [charm EXCEPT ![v] = r]
      /\ UNCHANGED <<refreshes, leader, elections, confirmed>>
  BY DEF UpgradeCharm, SaveVersions, BeginRestart, GiveUpRestart, history
<1>2. queue = [w \in Units |-> IF w = v THEN todo[v] \ {"upgrade_charm"} ELSE todo[w]]
  BY DEF Done, TypeOK
<1>3. CASE /\ v # leader /\ todo' = queue
           /\ UNCHANGED <<databag, installed, down, primary, running, stage,
                          deferred, history, refused, failures>>
  <2>1. CASE u # v
    <3>1. Due(u)' = Due(u)
      BY <1>1, <1>3, <2>1, DueSame DEF databag, TypeOK
    <3>2. \A w \in Units : Active(w)' = Active(w)
      BY <1>3 DEF Active
    <3> QED BY <1>1, <1>2, <1>3, <2>1, <3>1, <3>2, ToldSame, UnmovedCalled
            DEF Unmoved, Others
  <2>2. CASE u = v
    <3>1. Told(u)' => "relation_changed" \in todo[v]
      BY <1>1, <1>3, <2>2 DEF Told, ConfirmedQueued, epoch
    <3> QED BY <1>2, <1>3, <2>2, <3>1 DEF Called
  <2> QED BY <2>1, <2>2
<1>4. CASE u \in AppHearers(v)
           /\ \/ SaveVersions(v, r, heard)
              \/ todo' = heard
  <2>1. "relation_changed" \in heard[u]
    BY <1>4, HearAdds
  <2>2. "relation_changed" \in todo'[u]
    <3> HIDE DEF heard
    <3> QED BY <1>4, <2>1, HearAdds DEF SaveVersions
  <2> QED BY <2>2, HeardCalled
<1>5. CASE /\ u \notin AppHearers(v) /\ Look(v, r)
           /\ ~MayRestart(v, r, FALSE) /\ SaveVersions(v, r, heard)
  <2>1. u = v /\ ~LeaderHearsItself
    BY <1>5 DEF AppHearers, Others
  <2>2. SUFFICES ASSUME Due(u)', Hears(u)'
                 PROVE  (IsFirst(u) /\ refused') \/ \E w \in Others(u) : Active(w)'
    BY DEF Called, IsFirst, Higher, Others
  <2>3. ~IsSecond(u)
    BY <2>1, <2>2 DEF Hears, IsSecond, Higher
  <2>4. UNCHANGED <<snap_revision, unit_state, running, deferred>>
    BY <1>5 DEF SaveVersions
  <2>5. charm'[u] = r /\ Outdated(u, r)
    BY <1>1, <2>1, <2>2, <2>4 DEF Due, Outdated, TypeOK
  <2>6. versions' = versions
    BY <1>5, <2>1, <2>5, SavedNotOutdated DEF SaveVersions
  <2>7. /\ IsCompatible(r)
        /\ \A w \in Higher(u) : snap_revision[w] = SnapOf[r] /\ unit_state[w] = "HEALTHY"
    BY <2>2, <2>4, <2>5, <2>6 DEF Due, IsCompatible, Higher
  <2>9. (IsFirst(u) /\ refused') \/ \E w \in Others(u) : Active(w)
    BY <1>5, <2>1, <2>3, <2>5, <2>7, DueDenied
  <2> QED BY <2>4, <2>9 DEF Active
<1>6. CASE BeginRestart(v, r, "upgrade_charm")
  <2>1. running'[v] = "upgrade_charm"
    BY <1>6 DEF BeginRestart, TypeOK
  <2> QED BY <2>1 DEF Called, Active, Others
<1>7. ~GiveUpRestart(v, r, "upgrade_charm")
  <2> HIDE DEF r
  <2> QED BY NoGiveUp
<1> QED BY <1>3, <1>4, <1>5, <1>6, <1>7 DEF UpgradeCharm

LEMMA RelationChangedCalled ==
  ASSUME IInv, TypeOK', WakeInv, NEW v \in Units, RelationChanged(v), failures = 0, failures' = 0,
         NEW u \in Units
  PROVE  Called(u)'
<1> DEFINE r == charm[v]
           queue == Done(v, "relation_changed")
<1> TypeOK /\ Called(u) /\ DownActive
  BY DEF IInv, WakeInv, NoWakeUpLost
<1>1. /\ running[v] = "none" /\ Look(v, r)
      /\ UNCHANGED <<refreshes, charm, leader, elections, confirmed, upgrade_resumed>>
  BY DEF RelationChanged, Idle, SaveVersions, BeginRestart, GiveUpRestart, databag, history
<1>2. queue = [w \in Units |-> IF w = v THEN todo[v] \ {"relation_changed"} ELSE todo[w]]
  BY DEF Done, TypeOK
<1>3. CASE BeginRestart(v, r, "relation_changed")
  <2>1. running'[v] = "relation_changed"
    BY <1>3 DEF BeginRestart, TypeOK
  <2> QED BY <2>1 DEF Called, Active, Others
<1>4. CASE SaveVersions(v, r, queue) /\ ~MayRestart(v, r, upgrade_resumed)
  <2>1. UNCHANGED <<snap_revision, unit_state, running, deferred>>
    BY <1>4 DEF SaveVersions
  <2>2. \A w \in Units : Active(w)' = Active(w)
    BY <2>1 DEF Active
  <2>3. CASE u # v /\ versions' # versions
    <3>1. u \in AppHearers(v) /\ todo' = Hear(queue, AppHearers(v))
      BY <1>4, <2>3 DEF SaveVersions, AppHearers, Others
    <3> QED BY <3>1, HearAdds, HeardCalled
  <2>4. CASE u # v /\ versions' = versions
    <3>1. Due(u)' = Due(u)
      BY <1>1, <2>1, <2>4, DueSame
    <3>2. todo' = queue
      BY <1>4, <2>4 DEF SaveVersions
    <3>3. IsFirst(u) /\ refused => refused'
      BY <1>1, <2>4, OneFirst DEF Look
    <3> QED BY <1>1, <1>2, <2>1, <2>2, <2>4, <3>1, <3>2, <3>3, ToldSame, UnmovedCalled
            DEF Unmoved, Others
  <2>5. CASE u = v
    <3>1. SUFFICES ASSUME Due(u)'
                   PROVE  (IsFirst(u) /\ refused') \/ \E w \in Others(u) : Active(w)'
      BY DEF Called, IsFirst, Higher, Others
    <3>2. Outdated(u, r)
      BY <1>1, <2>1, <2>5, <3>1 DEF Due, Outdated
    <3>3. versions' = versions
      BY <1>4, <2>5, <3>2, SavedNotOutdated DEF SaveVersions
    <3>4. /\ IsCompatible(r) /\ (IsSecond(u) => upgrade_resumed)
          /\ \A w \in Higher(u) : snap_revision[w] = SnapOf[r] /\ unit_state[w] = "HEALTHY"
      BY <1>1, <2>1, <2>5, <3>1, <3>3, DueSame DEF Due
    <3>6. (IsFirst(u) /\ refused') \/ \E w \in Others(u) : Active(w)
      BY <1>1, <1>4, <2>5, <3>2, <3>4, DueDenied
    <3> QED BY <2>2, <3>6 DEF Others
  <2> QED BY <2>3, <2>4, <2>5
<1>5. ~GiveUpRestart(v, r, "relation_changed")
  BY NoGiveUp
<1> QED BY <1>3, <1>4, <1>5 DEF RelationChanged

LEMMA ForceRefreshStartCalled ==
  ASSUME TypeOK, NEW v \in Units, ForceRefreshStart(v), NEW u \in Units, Called(u)
  PROVE  Called(u)'
<1>1. /\ running[v] = "none"
      /\ UNCHANGED <<refreshes, charm, leader, elections, confirmed, upgrade_resumed,
                     todo, refused>>
  BY DEF ForceRefreshStart, Idle, BeginRestart, GiveUpRestart, databag, history
<1>2. CASE BeginRestart(v, charm[v], "force")
  <2>1. running'[v] = "force"
    BY <1>2 DEF BeginRestart, TypeOK
  <2> QED BY <2>1 DEF Called, Active, Others
<1>3. CASE GiveUpRestart(v, charm[v], "force")
  <2>1. UNCHANGED <<snap_revision, unit_state, versions, running, deferred>>
    BY <1>3 DEF GiveUpRestart
  <2>2. Due(u)' = Due(u)
    BY <1>1, <2>1, DueSame
  <2> QED BY <1>1, <2>1, <2>2, ToldSame, UnmovedCalled DEF Unmoved, Active
<1> QED BY <1>2, <1>3 DEF ForceRefreshStart

(* A unit whose restart has ended is not outdated, and tells the others.   *)
LEMMA EndRestartCalled ==
  ASSUME TypeOK, NEW v \in Units, EndRestart(v), NEW u \in Units
  PROVE  Called(u)'
<1>1. CASE u = v
  <2>1. snap_revision'[u] = SnapOf[charm'[u]]
    BY <1>1 DEF EndRestart, SnapSaved, TypeOK
  <2> QED BY <2>1 DEF Called, Due, Outdated
<1>2. CASE u # v
  <2>1. \E S : u \in S /\ todo' = Hear(todo, S)
    BY <1>2 DEF EndRestart, Others
  <2> QED BY <2>1, HearAdds, HeardCalled
<1> QED BY <1>1, <1>2

LEMMA PostAppUpgradeCalled ==
  ASSUME TypeOK, DeferredSaysSo, NEW v \in Units, PostAppUpgrade(v), NEW u \in Units, Called(u)
  PROVE  Called(u)'
<1>1. /\ unit_state' = [unit_state EXCEPT ![v] = "HEALTHY"] /\ deferred' = deferred \ {v}
      /\ todo' = Hear(todo, Others(v))
      /\ UNCHANGED <<refreshes, charm, leader, elections, confirmed, upgrade_resumed,
                     versions, snap_revision, running, refused>>
  <2>1. unit_state'[v] = "HEALTHY" /\ unit_state[v] = "UPGRADING"
    BY DEF PostAppUpgrade, DeferredSaysSo, TypeOK
  <2> QED BY <2>1 DEF PostAppUpgrade, history
<1>2. CASE u = v
  <2>1. \A w \in Higher(u) : unit_state'[w] = unit_state[w]
    BY <1>1, <1>2, UnitsAssumption DEF Higher, TypeOK
  <2>2. Due(u)' = Due(u)
    BY <1>1, <2>1, DueSame
  <2>3. \A w \in Others(u) : Active(w) => Active(w)'
    BY <1>1, <1>2 DEF Active, Others
  <2>4. todo[u] \subseteq todo'[u]
    BY <1>1, HearAdds
  <2> QED BY <1>1, <2>2, <2>3, <2>4, ToldSame, UnmovedCalled DEF Unmoved
<1>3. CASE u # v
  <2>1. u \in Others(v)
    BY <1>3 DEF Others
  <2> QED BY <1>1, <2>1, HearAdds, HeardCalled
<1> QED BY <1>2, <1>3

(* A leader that is not told of its own confirmation has been called in    *)
(* upgrade-charm, and is not the second unit.                              *)
LEMMA ResumeCalled ==
  ASSUME NEW v \in Units, Resume(v), NEW u \in Units, Called(u)
  PROVE  Called(u)'
<1>1. /\ v = leader /\ upgrade_resumed' = TRUE /\ todo' = Hear(todo, AppHearers(v))
      /\ UNCHANGED <<refreshes, charm, leader, elections, versions, snap_revision,
                     unit_state, running, deferred, refused>>
  BY DEF Resume
<1>2. CASE u \in AppHearers(v)
  BY <1>1, <1>2, HearAdds, HeardCalled
<1>3. CASE u \notin AppHearers(v)
  <2>1. u = leader /\ ~LeaderHearsItself
    BY <1>1, <1>3 DEF AppHearers, Others
  <2>2. Hears(u)' => Hears(u) /\ ~IsSecond(u) /\ Told(u)
    BY <1>1, <2>1 DEF Hears, Told, IsSecond, Higher
  <2>3. ~IsSecond(u) /\ Due(u)' => Due(u)
    BY <1>1 DEF Due, IsCompatible, Outdated, Higher, IsSecond
  <2>4. todo[u] \subseteq todo'[u] /\ (\A w \in Others(u) : Active(w)' = Active(w))
    BY <1>1, HearAdds DEF Active
  <2> QED BY <1>1, <2>2, <2>3, <2>4 DEF Called, IsFirst, Higher, Others
<1> QED BY <1>2, <1>3

(* After an election only a unit that hears its own writes, of a refresh   *)
(* that was confirmed, is sure to be called.                               *)
LEMMA ElectCalled ==
  ASSUME TypeOK, Elect, NEW u \in Units, Called(u)
  PROVE  Called(u)'
<1>1. /\ elections' # 0
      /\ UNCHANGED <<refreshes, charm, confirmed, versions, snap_revision, unit_state,
                     upgrade_resumed, todo, running, deferred, refused>>
  BY BoundsAssumption DEF Elect, TypeOK, databag, history
<1>2. (Told(u)' => Told(u)) /\ (Hears(u)' => Hears(u))
  BY <1>1 DEF Told, Hears, epoch
<1>3. Due(u)' = Due(u)
  BY <1>1, DueSame
<1> QED BY <1>1, <1>2, <1>3, UnmovedCalled DEF Unmoved, Active

LEMMA NextNoWakeUpLost ==
  ASSUME IInv, TypeOK', WakeInv, Next
  PROVE  NoWakeUpLost'
<1>1. SUFFICES ASSUME failures' = 0, NEW u \in Units PROVE Called(u)'
  BY DEF NoWakeUpLost
<1>2. TypeOK /\ failures = 0 /\ Called(u) /\ DeferredSaysSo
  BY <1>1, FailuresStay DEF IInv, WakeInv, NoWakeUpLost
<1>3. ASSUME UNCHANGED <<refreshes, charm, confirmed, versions, snap_revision, unit_state,
                         upgrade_resumed, todo, running, deferred, refused,
                         leader, elections>>
      PROVE  Called(u)'
  <2>1. Due(u)' = Due(u)
    BY <1>3, DueSame
  <2> QED BY <1>2, <1>3, <2>1, ToldSame, UnmovedCalled DEF Unmoved, Active
<1>4. ASSUME NEW v \in Units, PreUpgradeCheck(v) \/ Install(v) \/ Recover(v) PROVE Called(u)'
  BY <1>3, <1>4 DEF PreUpgradeCheck, Install, Recover, databag, history
<1>7. CASE ElectPrimary
  BY <1>3, <1>7 DEF ElectPrimary, databag, history
<1>5. ASSUME NEW v \in Units, CrashRestart(v) PROVE FALSE
  BY <1>1, <1>2, <1>5 DEF CrashRestart, Fail
<1>6. ASSUME NEW r \in Revisions, Refresh(r) PROVE Called(u)'
  BY <1>6 DEF Refresh, Called
<1> QED
  BY <1>1, <1>2, <1>4, <1>5, <1>6, <1>7, UpgradeCharmCalled, RelationChangedCalled,
     ForceRefreshStartCalled, EndRestartCalled, PostAppUpgradeCalled, ResumeCalled,
     ElectCalled DEF Next

LEMMA NextWake == IInv /\ TypeOK' /\ WakeInv /\ [Next]_vars => WakeInv'
<1> SUFFICES ASSUME IInv, TypeOK', WakeInv, [Next]_vars PROVE WakeInv'
  OBVIOUS
<1>1. CASE Next
  <2>1. TypeOK /\ InRestart /\ DownActive /\ DeferredSaysSo /\ ConfirmedQueued /\ NeverRestarted
    BY DEF IInv, WakeInv
  <2>2. failures' = 0 => failures = 0
    BY <1>1, <2>1, FailuresStay
  <2>3. DownActive' /\ DeferredSaysSo'
    BY <1>1, <2>1, NextDownActive, NextDeferredSaysSo DEF DownActive
  <2>4. ConfirmedQueued'
    BY <1>1, <2>1, <2>2, NextConfirmedQueued
  <2>5. NeverRestarted'
    BY <1>1, <2>1, NextNeverRestarted
  <2> QED BY <1>1, <2>3, <2>4, <2>5, NextNoWakeUpLost DEF WakeInv
<1>2. CASE UNCHANGED vars
  BY <1>2 DEF WakeInv, DownActive, DeferredSaysSo, ConfirmedQueued, NeverRestarted,
              NoWakeUpLost, Called, Due, Told, Hears, Active, IsCompatible, Outdated,
              Higher, IsFirst, IsSecond, Others, epoch, vars, databag, history
<1> QED BY <1>1, <1>2

LEMMA WakeAlways == Spec => []WakeInv
<1>1. Init => WakeInv
  BY InitWake
<1>2. IInv /\ TypeOK' /\ WakeInv /\ [Next]_vars => WakeInv'
  BY NextWake
<1> QED BY <1>1, <1>2, Invariant, TypeCorrect, PTL DEF Spec

(* Whatever the refreshes and rollbacks, with every check, election and    *)
(* install working: a unit that only waits to be called is going to be,    *)
(* unless it is the first one and was refused while its own mongod came    *)
(* back or the set had no primary.                                         *)
THEOREM NoWakeUpLostAlways == Spec => []NoWakeUpLost
<1>1. WakeInv => NoWakeUpLost
  BY DEF WakeInv
<1> QED BY <1>1, WakeAlways, PTL

-----------------------------------------------------------------------------
(* A resumed refresh goes on until it is complete: a hook is queued or in  *)
(* progress, or a check is to be repeated.                                 *)
GoesOn ==
  Resumed /\ LeaderHearsItself /\ ~Stalled =>
    Completed \/ \E u \in Units : todo[u] # {} \/ Active(u)

(* Like LowestIsAUnit, from the other end.                                 *)
LEMMA HighestOf ==
  ASSUME NEW S \in SUBSET Units, S # {}
  PROVE  \E u \in S : \A w \in Higher(u) : w \notin S
<1> DEFINE T == {Higher(u) : u \in S}
<1>1. T \subseteq FiniteSubsetsOf(Units) /\ T # {}
  <2>1. FiniteSubsetsOf(Units) = SUBSET Units
    BY FS_FiniteSubsetsOfFinite, UnitsAssumption
  <2>2. T \subseteq SUBSET Units
    BY DEF Higher
  <2>3. T # {}
    OBVIOUS
  <2> QED BY <2>1, <2>2, <2>3
<1>2. PICK s \in T : \A t \in T : <<t, s>> \notin StrictSubsetOrdering(Units)
  <2> HIDE DEF T
  <2> QED BY <1>1, FS_StrictSubsetOrderingWellFounded, WFMin
<1>3. PICK u \in S : s = Higher(u)
  BY <1>2
<1>4. ASSUME NEW w \in Higher(u), w \in S PROVE FALSE
  <2>1. Higher(w) \in T
    BY <1>4
  <2>2. Higher(w) \subseteq Higher(u) /\ w \in Higher(u) /\ w \notin Higher(w)
    <3>1. w \in Units /\ w > u /\ u \in Nat /\ w \in Nat
      BY <1>4, UnitsAssumption DEF Higher
    <3>2. w \in Higher(u) /\ w \notin Higher(w)
      BY <3>1 DEF Higher
    <3>3. ASSUME NEW v \in Higher(w) PROVE v \in Higher(u)
      <4>1. v \in Units /\ v > w /\ v \in Nat
        BY UnitsAssumption DEF Higher
      <4> QED BY <3>1, <4>1 DEF Higher
    <3> QED BY <3>2, <3>3
  <2>3. Higher(w) \in SUBSET Units /\ Higher(u) \in SUBSET Units
    BY DEF Higher
  <2>4. <<Higher(w), Higher(u)>> \in StrictSubsetOrdering(Units)
    <3>1. Higher(w) # Higher(u)
      BY <2>2
    <3> QED BY <2>2, <2>3, <3>1 DEF StrictSubsetOrdering
  <2> QED BY <2>1, <2>4, <1>2, <1>3
<1> QED BY <1>4

(* The highest outdated unit is due, unless a unit above it never said     *)
(* that it is healthy: that one never restarted and has the snap all the   *)
(* same, so this one did restart meanwhile, by force.                      *)
LEMMA WakeGoesOn == IInv /\ WakeInv => GoesOn
<1> SUFFICES ASSUME IInv, WakeInv, Resumed, LeaderHearsItself, ~Stalled, ~Completed,
                    \A u \in Units : todo[u] = {} /\ ~Active(u)
             PROVE  FALSE
  BY DEF GoesOn
<1> DEFINE r == refreshes[epoch]
<1>1. /\ failures = 0 /\ ~refused /\ ~PassedOver /\ upgrade_resumed /\ confirmed = epoch
      /\ \A u \in Units : charm[u] = r /\ IsCompatible(charm[u])
  <2>1. \A u \in Units : charm[u] = refreshes[charm_epoch[u]]
    BY DEF IInv, CodeIsRefresh
  <2>2. failures \in Nat
    BY BoundsAssumption DEF IInv, TypeOK
  <2> QED BY <2>1, <2>2 DEF Resumed, Stalled
<1>2. \A u \in Units : running[u] = "none" /\ u \notin deferred
  BY DEF Active
<1>3. PICK u \in {w \in Units : Outdated(w, charm[w])} :
        \A w \in Higher(u) : w \notin {v \in Units : Outdated(v, charm[v])}
  <2>1. {w \in Units : Outdated(w, charm[w])} # {}
    BY <1>2 DEF Completed, Outdated
  <2> QED BY <2>1, HighestOf
<1>4. \A w \in Higher(u) : w \in Units /\ w > u /\ ~Outdated(w, charm[w]) /\ snap_revision[w] = SnapOf[r]
  BY <1>1, <1>3 DEF Higher, Outdated
<1>5. \A w \in Higher(u) : unit_state[w] = "HEALTHY"
  <2> SUFFICES ASSUME NEW w \in Higher(u), unit_state[w] # "HEALTHY" PROVE FALSE
    OBVIOUS
  <2>1. unit_state[w] = "none"
    BY <1>2, <1>4 DEF WakeInv, DeferredSaysSo, IInv, TypeOK, UnitState
  <2>2. u \notin forced
    BY <1>1, <1>3, <1>4, <2>1 DEF PassedOver
  <2>3. unit_state[u] = "none"
    BY <1>3, <1>4, <2>1, <2>2 DEF WakeInv, NeverRestarted
  <2>4. snap_revision[u] = snap_revision[w]
    BY <1>3, <1>4, <2>1, <2>3 DEF WakeInv, NeverRestarted
  <2> QED BY <1>1, <1>3, <1>4, <2>4 DEF Outdated
<1>6. Due(u)
  BY <1>1, <1>3, <1>4, <1>5 DEF Due
<1> QED
  BY <1>1, <1>2, <1>3, <1>6 DEF WakeInv, NoWakeUpLost, Called, Told, Hears, Others

(* Juju has something left to run for a resumed refresh that is not        *)
(* complete: with the hooks it runs fairly, the refresh stops only where   *)
(* ResumedCompletes says that it may.                                      *)
THEOREM RefreshAlwaysGoesOn == Spec => []GoesOn
<1>1. IInv /\ WakeInv => GoesOn
  BY WakeGoesOn
<1> QED BY <1>1, Invariant, WakeAlways, PTL
=============================================================================
