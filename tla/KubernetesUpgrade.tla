-------------------------- MODULE KubernetesUpgrade --------------------------
(***************************************************************************)
(* The in-place refresh of a mongod application on Kubernetes.  `juju      *)
(* refresh` changes the stateful set; its controller replaces the pods     *)
(* from the highest number down to the set's partition.  A unit that stops *)
(* raises the partition to its own number, so that the next one waits, and *)
(* the leader lowers it when the databags say that the higher units are    *)
(* healthy, the first time only after the operator's resume.               *)
(*                                                                         *)
(* The stop hook has two steps, the partition it patches at once and the   *)
(* databag write it commits, and may be killed before either.  A handler   *)
(* of the leader has two: it begins, and the Kubernetes client caches what *)
(* it reads for the rest of the hook; it ends with its decision.  Every    *)
(* other handler is one step.                                              *)
(***************************************************************************)
EXTENDS Integers, FiniteSets

CONSTANTS
  Highest,       \* the highest unit number; numbers are sequential
  Revisions,     \* revisions of the stateful set, by their charm's version
  Major,         \* major version of the charm or workload of a revision
  FirstLeaders,  \* units that may lead at first
  MaxRefreshes,  \* bound: `juju refresh` calls, the deployment included
  MaxFaults      \* bound: pods Kubernetes restarts for reasons of its own, stop
                 \* hooks cut off by SIGKILL, and changes of leader, together

Units == 0..Highest

ASSUME HighestAssumption == Highest \in Nat \ {0}
ASSUME RevisionsAssumption ==
  /\ Revisions \subseteq Nat \ {0} /\ Revisions # {} /\ Major \in [Revisions -> Nat]
ASSUME LeadersAssumption == FirstLeaders \subseteq Units
ASSUME BoundsAssumption ==
  /\ MaxRefreshes \in Nat \ {0} /\ MaxFaults \in Nat

VARIABLES
  revision,   \* the stateful set's updateRevision
  base,       \* the revision of new pods below the partition
  partition,
  pod,        \* revision of each unit's pod, 0 while it has none
  phase,      \* how far the pod, and the hooks of its life, have got
  serving,    \* units whose mongod answers
  synced,     \* of those, the ones in sync with the replica set
  unit_state, \* unit databag
  versions,   \* app databag: the revision the last finished refresh left
  leader,
  deferred,   \* units with a deferred post_app_upgrade event
  hook,       \* the handler the leader is in, with what it has cached
  epoch,      \* counts the refreshes
  resumed,    \* history: did the operator resume since the first unit last stopped,
              \* or has the first unit, not yet replaced, no part in the refresh?
  excused,    \* history: was a unit forced, a stop hook killed, or did the
              \* leader decide on a view that was out of date?
  faults

stateful_set == <<revision, base, partition, pod>>
mongod == <<serving, synced>>
databag == <<unit_state, versions>>
history == <<epoch, resumed, excused>>
vars == <<stateful_set, phase, mongod, databag, leader, deferred, hook, history, faults>>

(* After its creation a pod gets upgrade-charm and start, and at its end   *)
(* the stop hook, before and after the partition is raised.                *)
Ready == {"created", "upgraded", "running"}
Phases == Ready \cup {"stopping", "stepping", "gone"}
Handlers == {"upgrade_charm", "start", "relation_changed", "update_status"}
Actions == {"resume", "resume_force", "force"}
UnitState == {"HEALTHY", "RESTARTING"}

(* What get_partition, get_revision and list_revisions return.             *)
Views == [partition : Units, revision : Revisions, pod : [Units -> Revisions \cup {0}]]
Now == [partition |-> partition, revision |-> revision, pod |-> pod]
NoHook == [kind |-> "none"]

TypeOK ==
  /\ revision \in Revisions /\ base \in Revisions /\ versions \in Revisions
  /\ partition \in Units /\ leader \in Units
  /\ pod \in [Units -> Revisions \cup {0}]
  /\ phase \in [Units -> Phases]
  /\ synced \subseteq serving /\ serving \subseteq Units
  /\ unit_state \in [Units -> UnitState]
  /\ deferred \subseteq Units
  /\ \/ hook = NoHook
     \/ hook \in [kind : Handlers \cup Actions, unit : Units, view : Views]
  /\ epoch \in 1..MaxRefreshes /\ resumed \in BOOLEAN /\ excused \in BOOLEAN
  /\ faults \in 0..MaxFaults

(* A deployed application, all of whose units are up and healthy.          *)
Init ==
  \E r \in Revisions, l \in FirstLeaders :
    /\ revision = r /\ base = r /\ versions = r
    /\ partition = 0 /\ leader = l
    /\ pod = [u \in Units |-> r]
    /\ phase = [u \in Units |-> "running"]
    /\ serving = Units /\ synced = Units
    /\ unit_state = [u \in Units |-> "HEALTHY"]
    /\ deferred = {} /\ hook = NoHook
    /\ epoch = 1 /\ resumed = TRUE /\ excused = FALSE
    /\ faults = 0

-----------------------------------------------------------------------------
(* What the charm computes from a view of the set and the databags.        *)

Higher(u) == {w \in Units : w > u}
Last(S) == CHOOSE u \in S : \A w \in S : w <= u

InProgress(view) == \E u \in Units : view.pod[u] \notin {0, view.revision}

IsCompatible(from, to) == from <= to /\ Major[from] = Major[to]

(* The units the loop does not pass over.                                  *)
Lagging(view, states, force) ==
  {u \in Units : \/ ~force /\ states[u] # "HEALTHY"
                 \/ view.pod[u] # view.revision}

(* Mutants: the second unit needs no confirmation; every unit does.        *)
DetermineUnconfirmed(view, states, from_event, force) ==
  LET lagging == Lagging(view, states, force) IN
  IF ~InProgress(view) \/ lagging = {} THEN 0 ELSE Last(lagging)
DetermineStuck(view, states, from_event, force) ==
  LET lagging == Lagging(view, states, force) IN
  IF ~InProgress(view) \/ lagging = {} THEN 0
  ELSE IF ~from_event /\ Last(lagging) < Highest THEN Highest ELSE Last(lagging)

DeterminePartition(view, states, from_event, force) ==
  LET lagging == Lagging(view, states, force) IN
  IF ~InProgress(view) \/ lagging = {} THEN 0
  ELSE IF ~from_event /\ Last(lagging) = Highest - 1 THEN Highest ELSE Last(lagging)

(* The unit in question has no pod: looking up its revision raises.        *)
LookupFails(view, states, force) ==
  LET lagging == Lagging(view, states, force) IN
  /\ InProgress(view) /\ lagging # {}
  /\ view.pod[Last(lagging)] = 0
  /\ force \/ states[Last(lagging)] = "HEALTHY"

(* The states once the stop hooks under way are committed.                 *)
ToCome(states) ==
  [u \in Units |-> IF phase[u] = "stepping" THEN "RESTARTING" ELSE states[u]]

(* Lowers the partition, never raises it; compares with the cached one.    *)
(* History: was it forced, or lower than the set as it is now calls for?   *)
Lower(view, states, from_event, force) ==
  LET wanted == DeterminePartition(view, states, from_event, force)
      due == DeterminePartition(Now, ToCome(states), from_event, force) IN
  IF wanted < view.partition
  THEN partition' = wanted /\ excused' = (excused \/ force \/ wanted < due)
  ELSE UNCHANGED <<partition, excused>>

-----------------------------------------------------------------------------
(* _reconcile_upgrade, in handler k of unit u.                             *)

(* Mutant: the versions are saved while a refresh is in progress.          *)
SavedAlways(u, view) == IF u = leader THEN pod[u] ELSE versions

SavedVersions(u, view) ==
  IF u = leader /\ ~InProgress(view) THEN pod[u] ELSE versions

(* A restarted unit of an incompatible revision goes no further.           *)
Held(u) == unit_state[u] = "RESTARTING" /\ ~IsCompatible(versions', pod[u])

(* mongod_ready, in the handlers that are not part of upgrade events.      *)
Reported(u, k) ==
  IF k \in {"start", "update_status"} /\ u \in serving' /\ ~Held(u)
  THEN "HEALTHY" ELSE unit_state[u]

Reconcile(u, k, view) ==
  LET states == [unit_state EXCEPT ![u] = Reported(u, k)]
      checked == k = "upgrade_charm" /\ IsCompatible(versions', pod[u]) IN
  /\ versions' = SavedVersions(u, view)
  /\ unit_state' = IF checked /\ synced = Units
                   THEN [states EXCEPT ![u] = "HEALTHY"] ELSE states
  /\ deferred' = IF checked /\ synced # Units THEN deferred \cup {u} ELSE deferred
  /\ IF u = leader /\ ~Held(u)
     THEN ~LookupFails(view, states, FALSE) /\ Lower(view, states, FALSE, FALSE)
     ELSE UNCHANGED <<partition, excused>>

(* upgrade-charm and start bring the services up.                          *)
Handle(u, k, view) ==
  /\ serving' = IF k \in {"upgrade_charm", "start"} THEN serving \cup {u} ELSE serving
  /\ phase' = IF phase[u] = "created" THEN [phase EXCEPT ![u] = "upgraded"]
              ELSE IF phase[u] = "upgraded" THEN [phase EXCEPT ![u] = "running"]
              ELSE phase
  /\ Reconcile(u, k, view)
  /\ UNCHANGED <<revision, base, pod, synced, epoch, resumed>>

Busy(u) == hook # NoHook /\ hook.unit = u

(* relation-changed and update-status are not queued: they may come at any *)
(* time.  The upgrade relation's does something on the leader only.        *)
CanRun(u, k) ==
  /\ ~Busy(u)
  /\ \/ k = "upgrade_charm" /\ phase[u] = "created"
     \/ k = "start" /\ phase[u] = "upgraded"
     \/ k = "relation_changed" /\ phase[u] = "running" /\ u = leader
     \/ k = "update_status" /\ phase[u] = "running"

(* A unit that does not lead reads the set only for its status.            *)
Run(u, k) ==
  /\ CanRun(u, k) /\ u # leader
  /\ Handle(u, k, Now)
  /\ UNCHANGED <<leader, hook, faults>>

Begin(u, k) ==
  /\ CanRun(u, k) /\ u = leader /\ hook = NoHook
  /\ hook' = [kind |-> k, unit |-> u, view |-> Now]
  /\ UNCHANGED <<stateful_set, phase, mongod, databag, leader, deferred, history, faults>>

End(u) ==
  /\ Busy(u) /\ hook.kind \in Handlers
  /\ hook' = NoHook
  /\ Handle(u, hook.kind, hook.view)
  /\ UNCHANGED <<leader, faults>>

(* The handler raises: it leaves nothing behind, and is run again.         *)
Raise(u) ==
  /\ Busy(u) /\ hook.kind \in Handlers /\ LookupFails(hook.view, unit_state, FALSE)
  /\ hook' = NoHook
  /\ UNCHANGED <<stateful_set, phase, mongod, databag, leader, deferred, history, faults>>

(* A deferred post_app_upgrade event, tried again before a hook.           *)
PostAppUpgrade(u) ==
  /\ u \in deferred /\ phase[u] \in Ready /\ synced = Units /\ ~Busy(u)
  /\ deferred' = deferred \ {u}
  /\ unit_state' = [unit_state EXCEPT ![u] = "HEALTHY"]
  /\ UNCHANGED <<stateful_set, phase, mongod, versions, leader, hook, history, faults>>

(* resume-refresh and force-refresh-start, on the leader.                  *)
Resume(u, k) ==
  /\ phase[u] = "running" /\ u = leader /\ hook = NoHook
  /\ InProgress(Now)
  /\ k = "force" => partition < Highest
  /\ hook' = [kind |-> k, unit |-> u, view |-> Now]
  /\ UNCHANGED <<stateful_set, phase, mongod, databag, leader, deferred, history, faults>>

(* "Highest number unit is unhealthy. Refresh will not resume."            *)
Refused(view, force) ==
  \/ DeterminePartition(view, unit_state, TRUE, force) > Highest - 1
  \/ LookupFails(view, unit_state, force)

EndResume(u) ==
  LET force == hook.kind # "resume" IN
  /\ Busy(u) /\ hook.kind \in Actions
  /\ hook' = NoHook
  /\ IF Refused(hook.view, force) THEN UNCHANGED <<partition, resumed, excused>>
     ELSE Lower(hook.view, unit_state, TRUE, force) /\ resumed' = TRUE
  /\ UNCHANGED <<revision, base, pod, phase, mongod, databag, leader, deferred, epoch,
                 faults>>

-----------------------------------------------------------------------------
(* The stop hook.                                                          *)

(* Mutant: the partition is left where it is.                              *)
NotRaised(u) == partition

Raised(u) == IF partition < u THEN u ELSE partition

BeginStop(u) ==
  /\ phase[u] = "stopping" /\ ~Busy(u)
  /\ phase' = [phase EXCEPT ![u] = "stepping"]
  /\ partition' = Raised(u)
  /\ UNCHANGED <<revision, base, pod, mongod, databag, leader, deferred, hook, history,
                 faults>>

PodGone(u) ==
  /\ phase' = [phase EXCEPT ![u] = "gone"]
  /\ pod' = [pod EXCEPT ![u] = 0]
  /\ serving' = serving \ {u} /\ synced' = synced \ {u}
  /\ hook' = IF Busy(u) THEN NoHook ELSE hook

EndStop(u) ==
  /\ phase[u] = "stepping"
  /\ PodGone(u)
  /\ unit_state' = [unit_state EXCEPT ![u] = "RESTARTING"]
  /\ UNCHANGED <<revision, base, partition, versions, leader, deferred, history, faults>>

(* After 30 seconds the pod is killed, whatever the hook has done.         *)
KillStop(u) ==
  /\ phase[u] \in {"stopping", "stepping"} /\ faults < MaxFaults
  /\ faults' = faults + 1 /\ excused' = TRUE
  /\ PodGone(u)
  /\ UNCHANGED <<revision, base, partition, databag, leader, deferred, epoch, resumed>>

-----------------------------------------------------------------------------
(* Kubernetes, juju, the operator and mongod.                              *)

(* Down, or going down with the partition raised.                          *)
Away(u) == u \notin serving \/ phase[u] = "stepping"

(* History: a handler the leader is in will decide on a view of the former *)
(* refresh; a unit that restarts, and for which no refresh in progress has *)
(* held the partition, is not waited for.  A refresh back to what the first *)
(* unit, above the partition, still runs takes it nowhere to be confirmed. *)
Refresh(r) ==
  /\ epoch < MaxRefreshes /\ epoch' = epoch + 1
  /\ r # revision /\ revision' = r
  /\ excused' = (excused \/ hook # NoHook
                   \/ \E u \in Units : Away(u) /\ (partition < u \/ ~InProgress(Now)))
  /\ resumed' = (resumed \/ (pod[Highest] = r /\ partition < Highest
                              /\ phase[Highest] \in Ready))
  /\ UNCHANGED <<base, partition, pod, phase, mongod, databag, leader, deferred, hook,
                 faults>>

(* The controller: the highest pod of another revision, once those above   *)
(* are ready (their containers, not mongod), down to the partition.        *)
ReplacePod(u) ==
  /\ u >= partition /\ phase[u] \in Ready /\ pod[u] # revision
  /\ \A w \in Higher(u) : phase[w] \in Ready /\ pod[w] = revision
  /\ phase' = [phase EXCEPT ![u] = "stopping"]
  /\ resumed' = (resumed /\ u # Highest)
  /\ UNCHANGED <<stateful_set, mongod, databag, leader, deferred, hook, epoch, excused,
                 faults>>

Evict(u) ==
  /\ faults < MaxFaults /\ faults' = faults + 1
  /\ phase[u] \in Ready
  /\ phase' = [phase EXCEPT ![u] = "stopping"]
  /\ resumed' = (resumed /\ u # Highest)
  /\ UNCHANGED <<stateful_set, mongod, databag, leader, deferred, hook, epoch, excused>>

(* A pod below the partition gets the former revision.  ops keeps deferred *)
(* events in the container, and they are lost with it.                     *)
CreatePod(u) ==
  /\ phase[u] = "gone"
  /\ phase' = [phase EXCEPT ![u] = "created"]
  /\ pod' = [pod EXCEPT ![u] = IF u >= partition THEN revision ELSE base]
  /\ base' = IF \A w \in Units : pod'[w] = revision THEN revision ELSE base
  /\ deferred' = deferred \ {u}
  /\ UNCHANGED <<revision, partition, mongod, databag, leader, hook, history, faults>>

Sync(u) ==
  /\ u \in serving \ synced /\ synced' = synced \cup {u}
  /\ UNCHANGED <<stateful_set, phase, serving, databag, leader, deferred, hook, history,
                 faults>>

ElectLeader(u) ==
  /\ faults < MaxFaults /\ faults' = faults + 1
  /\ u # leader /\ leader' = u
  /\ UNCHANGED <<stateful_set, phase, mongod, databag, deferred, hook, history>>

Next ==
  \/ \E r \in Revisions : Refresh(r)
  \/ \E u \in Units :
       \/ \E k \in Handlers : Run(u, k) \/ Begin(u, k)
       \/ End(u) \/ Raise(u) \/ PostAppUpgrade(u)
       \/ \E k \in Actions : Resume(u, k)
       \/ EndResume(u)
       \/ BeginStop(u) \/ EndStop(u) \/ KillStop(u)
       \/ ReplacePod(u) \/ Evict(u) \/ CreatePod(u)
       \/ Sync(u) \/ ElectLeader(u)

Spec == Init /\ [][Next]_vars

(* Kubernetes and juju go on with the replacement of pods, of which there  *)
(* are only so many between two refreshes; hooks end; and juju runs        *)
(* update-status on each unit, between whatever else it runs.              *)
Advance(u) ==
  \/ ReplacePod(u) \/ BeginStop(u) \/ EndStop(u) \/ CreatePod(u)
  \/ \E k \in {"upgrade_charm", "start"} : Run(u, k) \/ Begin(u, k)
Finish(u) == End(u) \/ Raise(u) \/ EndResume(u)
UpdateStatus(u) == Run(u, "update_status") \/ Begin(u, "update_status")

FairSpec ==
  /\ Spec
  /\ WF_vars(\E u \in Units : Advance(u)) /\ WF_vars(\E u \in Units : Finish(u))
  /\ \A u \in Units : SF_vars(UpdateStatus(u))

-----------------------------------------------------------------------------
Taken(u) == phase[u] \in Ready /\ phase'[u] = "stopping" /\ faults' = faults

(* When the controller takes a unit to refresh it, mongod answers on every *)
(* higher unit: the partition holds the controller back from the stop of   *)
(* a unit until it has reported itself healthy again.  Excepted, by name   *)
(* (excused): forced units, stop hooks that were killed, and a leader that *)
(* lowered the partition on a view out of date.                            *)
HigherBack ==
  [][\A u \in Units : Taken(u) => excused \/ Higher(u) \subseteq serving]_vars

(* The second unit of a refresh is replaced only after the operator has    *)
(* resumed it (reconcile_partition, on_resume_upgrade_action).             *)
SecondUnitConfirmed ==
  [][\A u \in Units : Taken(u) /\ u = Highest - 1 => excused \/ resumed]_vars

(* A refresh to an incompatible revision stops at the first unit.          *)
IncompatibleHeld ==
  [][\A u \in Units : Taken(u) /\ u < Highest =>
       excused \/ IsCompatible(versions, revision)]_vars

UpgradeResumed == partition < Highest

(* A leader whose own pod came back with an incompatible revision (it was  *)
(* restarted before the first unit raised the partition) goes no further   *)
(* in its handlers, and lowers the partition for nobody.                   *)
HeldBack(u) == unit_state[u] = "RESTARTING" /\ ~IsCompatible(versions, pod[u])

(* A resumed refresh reaches every unit, whether or not the members ever   *)
(* catch up with the replica set, unless the first unit stops once more or *)
(* the leader is held back.                                                *)
ResumedCompletes ==
  InProgress(Now) /\ UpgradeResumed /\ ~excused /\ ~HeldBack(leader) ~>
    ~InProgress(Now) \/ ~UpgradeResumed \/ excused \/ HeldBack(leader)
=============================================================================
