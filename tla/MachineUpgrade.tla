--------------------------- MODULE MachineUpgrade ---------------------------
(***************************************************************************)
(* The in-place refresh of a mongod application on machines.  `juju        *)
(* refresh` replaces the charm code of every unit; each unit then decides, *)
(* in its own hooks and from the upgrade peer databag alone, when it may   *)
(* restart on the snap its new charm pins.  Units go from the highest      *)
(* number to the lowest, the second one after the operator's resume.       *)
(*                                                                         *)
(* A restart takes minutes, and others act in between: the unit looks who  *)
(* is primary, steps down if it is the one and waits until somebody else,  *)
(* or nobody, is; installs the snap, which stops mongod; and ends the hook, *)
(* with the post-refresh check and the databag writes the others then see. *)
(* Every other handler is one step.  Juju, MongoDB's elections and the     *)
(* recovery of mongod are the environment.                                 *)
(*                                                                         *)
(* The application is a replica set, or a sharding component related to    *)
(* its cluster: one that is not looks at its own mongod only.              *)
(***************************************************************************)
EXTENDS Integers, FiniteSets, Sequences

CONSTANTS
  Units,             \* unit numbers
  Revisions,         \* charm revisions, ordered as their versions are
  SnapOf,            \* SNAP.revision each charm revision pins
  CharmMajor,        \* major of the charm version
  SnapMajor,         \* major of the MongoDB version of a snap revision
  LeaderHearsItself, \* is the leader told of its own writes in the app databag?
  Starts,            \* how it may begin: the deployed revision, the leader, the primary
  MaxRefreshes,      \* bound: `juju refresh` calls, the deployment included
  MaxFaults          \* bound: checks, elections, installs and hooks that fail, changes
                     \* of leader and elections nobody asked for

Nobody == -1         \* no member is primary

Snaps == {SnapOf[r] : r \in Revisions}

ASSUME UnitsAssumption == Units \subseteq Nat /\ IsFiniteSet(Units) /\ Units # {}
ASSUME RevisionsAssumption ==
  /\ Revisions \subseteq Nat
  /\ SnapOf \in [Revisions -> Nat]
  /\ CharmMajor \in [Revisions -> Nat]
  /\ SnapMajor \in [Snaps -> Nat]
ASSUME StartsAssumption ==
  Starts \subseteq [charm : Revisions, leader : Units, primary : Units]
ASSUME BoundsAssumption ==
  /\ MaxRefreshes \in Nat \ {0} /\ MaxFaults \in Nat
  /\ LeaderHearsItself \in BOOLEAN

VARIABLES
  refreshes,       \* revisions `juju refresh` asked for; the first is the deployed one
  charm,           \* revision of the code each unit runs
  charm_epoch,     \* the refresh that code came with
  snap_revision,   \* unit databag: the snap the unit says it runs
  unit_state,      \* unit databag
  upgrade_resumed, \* app databag
  versions,        \* app databag: the versions the last finished refresh left
  installed,       \* the snap on the machine
  down,            \* units whose mongod was restarted and is not back in sync
  primary,
  leader,
  todo,            \* hooks juju has queued, per unit
  running,         \* the hook or action a unit is restarting mongod in
  stage,           \* how far that restart is
  deferred,        \* units with a deferred post_app_upgrade event
  restart_epoch,   \* history: the refresh of a unit's last restart
  forced,          \* history: units whose last restart was forced, given up or not
  confirmed,       \* history: the last refresh the operator resumed
  overlapped,      \* history: was a refresh asked for while a unit was restarting?
  refused,         \* history: did the first unit last find itself out of sync?
  failures, elections

databag == <<snap_revision, unit_state, upgrade_resumed, versions>>
history == <<restart_epoch, forced, confirmed, overlapped>>
vars == <<refreshes, charm, charm_epoch, databag, installed, down, primary,
          leader, todo, running, stage, deferred, history, refused, failures, elections>>

Hooks == {"upgrade_charm", "relation_changed"}
UnitState == {"none", "UPGRADING", "HEALTHY"}
Stages ==
  {"none",
   "saw another", "saw nobody", \* it looked, and was not the primary
   "stepped down",              \* it was
   "installed"}                 \* mongod was stopped for the new snap
Versions == [charm : Revisions, workload : Snaps]

epoch == Len(refreshes)

TypeOK ==
  /\ refreshes \in Seq(Revisions) /\ epoch \in 1..MaxRefreshes
  /\ charm \in [Units -> Revisions]
  /\ charm_epoch \in [Units -> 1..epoch]
  /\ snap_revision \in [Units -> Snaps]
  /\ installed \in [Units -> Snaps]
  /\ unit_state \in [Units -> UnitState]
  /\ upgrade_resumed \in BOOLEAN
  /\ versions \in Versions
  /\ down \subseteq Units /\ deferred \subseteq Units /\ forced \subseteq Units
  /\ primary \in Units \cup {Nobody} /\ leader \in Units
  /\ todo \in [Units -> SUBSET Hooks]
  /\ running \in [Units -> Hooks \cup {"none", "force"}]
  /\ stage \in [Units -> Stages]
  /\ restart_epoch \in [Units -> 1..epoch]
  /\ confirmed \in 0..epoch /\ overlapped \in BOOLEAN /\ refused \in BOOLEAN
  /\ failures \in 0..MaxFaults /\ elections \in 0..MaxFaults

Init ==
  \E s \in Starts :
    /\ refreshes = <<s.charm>>
    /\ charm = [u \in Units |-> s.charm]
    /\ charm_epoch = [u \in Units |-> 1]
    /\ snap_revision = [u \in Units |-> SnapOf[s.charm]]
    /\ installed = [u \in Units |-> SnapOf[s.charm]]
    /\ unit_state = [u \in Units |-> "none"]
    /\ upgrade_resumed = FALSE
    /\ versions = [charm |-> s.charm, workload |-> SnapOf[s.charm]]
    /\ down = {} /\ deferred = {} /\ forced = {}
    /\ primary = s.primary /\ leader = s.leader
    /\ todo = [u \in Units |-> {}]
    /\ running = [u \in Units |-> "none"]
    /\ stage = [u \in Units |-> "none"]
    /\ restart_epoch = [u \in Units |-> 1]
    /\ confirmed = 0 /\ overlapped = FALSE /\ refused = FALSE /\ failures = 0 /\ elections = 0

-----------------------------------------------------------------------------
(* The order of the refresh, from the highest unit number to the lowest.   *)

Higher(u) == {w \in Units : w > u}
IsFirst(u) == Higher(u) = {}
IsSecond(u) == \E w \in Units : Higher(u) = {w}
Lowest == CHOOSE u \in Units : \A w \in Units : u <= w

(* What a unit running revision r reads in the databag.                    *)

InProgress(r) == \E w \in Units : snap_revision[w] # SnapOf[r]

Outdated(u, r) == snap_revision[u] # SnapOf[r]

IsCompatible(r) ==
  /\ versions.charm <= r
  /\ CharmMajor[versions.charm] = CharmMajor[r]
  /\ versions.workload <= SnapOf[r]
  /\ SnapMajor[versions.workload] = SnapMajor[SnapOf[r]]

(* "Rollback detected": the first unit then skips the pre-refresh check.   *)
NeedsPrecheck(u, r) == IsFirst(u) /\ versions.charm # r

(* The status of the set is asked of its primary.                          *)
Healthy == down = {} /\ primary # Nobody

(* Mutants: the confirmation of the operator, the health, or the snap, of  *)
(* the higher units is not looked at.                                      *)
AuthorizedUnconfirmed(u, r, resumed) ==
  /\ \A w \in Higher(u) : snap_revision[w] = SnapOf[r] /\ unit_state[w] = "HEALTHY"
  /\ NeedsPrecheck(u, r) => Healthy
AuthorizedUnhealthy(u, r, resumed) ==
  /\ \A w \in Higher(u) : snap_revision[w] = SnapOf[r]
  /\ NeedsPrecheck(u, r) => Healthy
  /\ IsSecond(u) => resumed
AuthorizedOutdated(u, r, resumed) ==
  /\ \A w \in Higher(u) : unit_state[w] = "HEALTHY"
  /\ NeedsPrecheck(u, r) => Healthy
  /\ IsSecond(u) => resumed

Authorized(u, r, resumed) ==
  /\ \A w \in Higher(u) : snap_revision[w] = SnapOf[r] /\ unit_state[w] = "HEALTHY"
  /\ NeedsPrecheck(u, r) => Healthy
  /\ IsSecond(u) => resumed

(* The pre-refresh check moves the primary to the unit that restarts last. *)
PrimaryBefore(u, r, hook) ==
  IF hook # "force" /\ NeedsPrecheck(u, r) THEN Lowest ELSE primary

(* Members that can take over from unit u.                                 *)
Electable(u) == (Units \ down) \ {u}

(* Mutant: the primary is not stepped down before its restart.             *)
NoStepDown(u, p) == FALSE

(* A unit that is alone goes on without stepping down.                     *)
MustStepDown(u, p) == p = u /\ Units # {u}

(* Juju queues relation-changed on the units a databag write reaches.      *)
Hear(queue, S) ==
  [w \in Units |-> IF w \in S THEN queue[w] \cup {"relation_changed"} ELSE queue[w]]
Others(u) == Units \ {u}
AppHearers(u) == IF LeaderHearsItself THEN Units ELSE Others(u)
Done(u, hook) == [todo EXCEPT ![u] = @ \ {hook}]

-----------------------------------------------------------------------------
(* upgrade_unit: the restart begins, and ends with the hook.               *)

Fail == failures + elections < MaxFaults /\ failures' = failures + 1

(* The primary is looked at once.  replSetStepDown raises when nobody can  *)
(* take over: the hook is then tried again.  The wait for another primary  *)
(* ends as soon as the unit is not the one, that is when the set has none. *)
BeginRestart(u, r, hook) ==
  LET p == PrimaryBefore(u, r, hook) IN
  /\ \/ /\ ~MustStepDown(u, p)
        /\ primary' = p
        /\ stage' = [stage EXCEPT ![u] = IF p = Nobody THEN "saw nobody" ELSE "saw another"]
     \/ /\ MustStepDown(u, p) /\ Electable(u) # {}
        /\ primary' = Nobody
        /\ stage' = [stage EXCEPT ![u] = "stepped down"]
  /\ running' = [running EXCEPT ![u] = hook]
  /\ restart_epoch' = [restart_epoch EXCEPT ![u] = charm_epoch'[u]]
  /\ forced' = IF hook = "force" THEN forced \cup {u} ELSE forced \ {u}
  /\ UNCHANGED <<databag, installed, down, deferred, confirmed, overlapped, failures>>

(* The pre-refresh check found a fault the model does not carry, or did    *)
(* not bring the primary to the unit it asked for; or the unit stepped     *)
(* down and the wait failed.  The handler returns with no databag write.   *)
GiveUpRestart(u, r, hook) ==
  /\ Fail
  /\ \/ /\ NeedsPrecheck(u, r) /\ hook # "force"
        /\ primary' \in IF primary = Lowest THEN {primary} ELSE Units
     \/ /\ MustStepDown(u, PrimaryBefore(u, r, hook)) /\ Electable(u) # {}
        /\ primary' = Nobody
  /\ forced' = IF hook = "force" THEN forced \cup {u} ELSE forced
  /\ UNCHANGED <<snap_revision, unit_state, versions, installed, down, running,
                 stage, deferred, restart_epoch, confirmed, overlapped>>

StopMongod(u) ==
  /\ down' = down \cup {u}
  /\ primary' = IF primary = u THEN Nobody ELSE primary

(* install(): snapd stops and starts mongod when the revision is another.  *)
(* An error of snapd is logged, and its result is not looked at.           *)
Install(u) ==
  /\ stage[u] \in {"saw another", "saw nobody", "stepped down"}
  /\ stage' = [stage EXCEPT ![u] = "installed"]
  /\ \/ /\ installed' = [installed EXCEPT ![u] = SnapOf[charm[u]]]
        /\ IF installed'[u] = installed[u] THEN UNCHANGED <<down, primary>> ELSE StopMongod(u)
        /\ UNCHANGED failures
     \/ /\ StopMongod(u) \/ UNCHANGED <<down, primary>>
        /\ Fail /\ UNCHANGED installed
  /\ UNCHANGED <<refreshes, charm, charm_epoch, databag, leader, todo, running,
                 deferred, history, refused, elections>>

(* Mutant: the charm revision saved in place of the snap's.                *)
CharmSaved(u) == snap_revision' = [snap_revision EXCEPT ![u] = charm[u]]

(* The revision saved in the unit databag is the one the charm pins.       *)
SnapSaved(u) == snap_revision' = [snap_revision EXCEPT ![u] = SnapOf[charm[u]]]

(* Mutant: an unhealthy set does not defer the event.                      *)
ChecksNotRetried(u) ==
  /\ unit_state' = [unit_state EXCEPT ![u] = IF Healthy THEN "HEALTHY" ELSE "UPGRADING"]
  /\ deferred' = deferred \ {u}
  /\ UNCHANGED failures

(* The post_app_upgrade event is emitted at the end of the hook: the unit   *)
(* is healthy when the whole set is, or the event is deferred.             *)
PostUpgradeChecks(u) ==
  \/ /\ Healthy
     /\ unit_state' = [unit_state EXCEPT ![u] = "HEALTHY"]
     /\ deferred' = deferred \ {u}
     /\ UNCHANGED failures
  \/ /\ \/ ~Healthy /\ UNCHANGED failures
        \/ Healthy /\ Fail
     /\ unit_state' = [unit_state EXCEPT ![u] = "UPGRADING"]
     /\ deferred' = deferred \cup {u}

EndRestart(u) ==
  /\ stage[u] = "installed"
  /\ stage' = [stage EXCEPT ![u] = "none"]
  /\ running' = [running EXCEPT ![u] = "none"]
  /\ SnapSaved(u)
  /\ PostUpgradeChecks(u)
  /\ IF running[u] = "upgrade_charm"
       THEN upgrade_resumed' = FALSE /\ todo' = Hear(todo, AppHearers(u) \cup Others(u))
       ELSE UNCHANGED upgrade_resumed /\ todo' = Hear(todo, Others(u))
  /\ UNCHANGED <<refreshes, charm, charm_epoch, versions, installed, down, primary,
                 leader, history, refused, elections>>

(* The handler raises: its writes are dropped and juju retries the hook; an *)
(* action is not retried.  What was done to MongoDB and the snap stays.    *)
CrashRestart(u) ==
  /\ running[u] # "none"
  /\ Fail
  /\ running' = [running EXCEPT ![u] = "none"]
  /\ stage' = [stage EXCEPT ![u] = "none"]
  /\ todo' = [todo EXCEPT ![u] = @ \cup ({running[u]} \ {"force"})]
  /\ UNCHANGED <<refreshes, charm, charm_epoch, databag, installed, down, primary,
                 leader, deferred, history, refused, elections>>

(* _reconcile_upgrade by a unit whose code is revision r, as the end of a  *)
(* hook whose queue update and value of upgrade_resumed it is given.       *)
SavedVersions(u, r) ==
  IF u = leader /\ ~InProgress(r)
    THEN [charm |-> r, workload |-> SnapOf[r]] ELSE versions

MayRestart(u, r, resumed) ==
  IsCompatible(r) /\ Outdated(u, r) /\ Authorized(u, r, resumed)

(* In a restart, or with a post-refresh check to repeat.                   *)
Active(u) == running[u] # "none" \/ u \in deferred

(* Nobody calls the first unit again when its pre-refresh check failed for *)
(* its own mongod, or for want of a primary, and the other units are done. *)
Look(u, r) ==
  refused' = IF IsFirst(u)
               THEN /\ IsCompatible(r) /\ Outdated(u, r) /\ NeedsPrecheck(u, r)
                    /\ u \in down \/ primary = Nobody
                    /\ \A w \in Others(u) : ~Active(w)
               ELSE refused

SaveVersions(u, r, queue) ==
  /\ versions' = SavedVersions(u, r)
  /\ todo' = IF versions' = versions THEN queue ELSE Hear(queue, AppHearers(u))
  /\ UNCHANGED <<snap_revision, unit_state, installed, down, primary, running,
                 stage, deferred, history, failures>>

-----------------------------------------------------------------------------
(* Hooks and actions.                                                      *)

(* A unit runs one hook or action at a time, and juju replaces its code    *)
(* (and runs upgrade-charm) before anything else.                          *)
Idle(u) == running[u] = "none" /\ "upgrade_charm" \notin todo[u]

(* Only the leader resets upgrade_resumed, and only it reconciles here.    *)
UpgradeCharm(u) ==
  LET r == refreshes[epoch] IN
  /\ running[u] = "none" /\ "upgrade_charm" \in todo[u]
  /\ charm' = [charm EXCEPT ![u] = r]
  /\ charm_epoch' = [charm_epoch EXCEPT ![u] = epoch]
  /\ \/ /\ u # leader
        /\ todo' = Done(u, "upgrade_charm")
        /\ UNCHANGED <<databag, installed, down, primary, running, stage,
                       deferred, history, refused, failures>>
     \/ /\ u = leader /\ ~MayRestart(u, r, FALSE)
        /\ Look(u, r)
        /\ upgrade_resumed' = FALSE
        /\ SaveVersions(u, r, Hear(Done(u, "upgrade_charm"), AppHearers(u)))
     \/ /\ u = leader /\ MayRestart(u, r, FALSE)
        /\ Look(u, r)
        /\ todo' = Done(u, "upgrade_charm")
        /\ BeginRestart(u, r, "upgrade_charm")
     \/ /\ u = leader /\ MayRestart(u, r, FALSE)
        /\ Look(u, r)
        /\ upgrade_resumed' = FALSE
        /\ todo' = Hear(Done(u, "upgrade_charm"), AppHearers(u))
        /\ GiveUpRestart(u, r, "upgrade_charm")
  /\ UNCHANGED <<refreshes, leader, elections>>

RelationChanged(u) ==
  LET r == charm[u]
      queue == Done(u, "relation_changed") IN
  /\ Idle(u) /\ "relation_changed" \in todo[u]
  /\ Look(u, r)
  /\ UNCHANGED <<refreshes, charm, charm_epoch, leader, elections>>
  /\ \/ /\ ~MayRestart(u, r, upgrade_resumed)
        /\ SaveVersions(u, r, queue)
        /\ UNCHANGED upgrade_resumed
     \/ /\ MayRestart(u, r, upgrade_resumed)
        /\ todo' = queue
        /\ BeginRestart(u, r, "relation_changed")
     \/ /\ MayRestart(u, r, upgrade_resumed)
        /\ todo' = queue
        /\ UNCHANGED upgrade_resumed
        /\ GiveUpRestart(u, r, "relation_changed")

(* run_post_app_upgrade_task, emitted again by the next hook of the unit.  *)
PostAppUpgrade(u) ==
  /\ running[u] = "none" /\ u \in deferred /\ Healthy
  /\ unit_state' = [unit_state EXCEPT ![u] = "HEALTHY"]
  /\ deferred' = deferred \ {u}
  /\ todo' = IF unit_state' = unit_state THEN todo ELSE Hear(todo, Others(u))
  /\ UNCHANGED <<refreshes, charm, charm_epoch, snap_revision, upgrade_resumed,
                 versions, installed, down, primary, leader, running, stage,
                 history, refused, failures, elections>>

Resume(u) ==
  /\ u = leader /\ Idle(u) /\ InProgress(charm[u])
  /\ upgrade_resumed' = TRUE
  /\ confirmed' = charm_epoch[u]
  /\ todo' = Hear(todo, AppHearers(u))
  /\ UNCHANGED <<refreshes, charm, charm_epoch, snap_revision, unit_state,
                 versions, installed, down, primary, leader, running, stage,
                 deferred, restart_epoch, forced, overlapped, refused, failures,
                 elections>>

ForceRefreshStart(u) ==
  /\ Idle(u)
  /\ InProgress(charm[u]) /\ Outdated(u, charm[u]) /\ upgrade_resumed
  /\ UNCHANGED <<refreshes, charm, charm_epoch, leader, todo, refused, elections>>
  /\ \/ BeginRestart(u, charm[u], "force")
     \/ GiveUpRestart(u, charm[u], "force") /\ UNCHANGED upgrade_resumed

PreUpgradeCheck(u) ==
  /\ u = leader /\ Idle(u) /\ ~InProgress(charm[u])
  /\ Healthy /\ primary # Lowest
  /\ \/ primary' = Lowest /\ UNCHANGED failures
     \/ primary' \in Units /\ Fail
  /\ UNCHANGED <<refreshes, charm, charm_epoch, databag, installed, down, leader,
                 todo, running, stage, deferred, history, refused, elections>>

(* The operator, juju and MongoDB.                                         *)

Refresh(r) ==
  /\ epoch < MaxRefreshes /\ r # refreshes[epoch]
  /\ refreshes' = Append(refreshes, r)
  /\ todo' = [u \in Units |-> todo[u] \cup {"upgrade_charm"}]
  /\ overlapped' = (overlapped \/ \E u \in Units : running[u] # "none")
  /\ UNCHANGED <<charm, charm_epoch, databag, installed, down, primary, leader,
                 running, stage, deferred, restart_epoch, forced, confirmed, refused,
                 failures, elections>>

Recover(u) ==
  /\ u \in down
  /\ down' = down \ {u}
  /\ UNCHANGED <<refreshes, charm, charm_epoch, databag, installed, primary, leader,
                 todo, running, stage, deferred, history, refused, failures, elections>>

(* The set elects a primary when it has none: not the unit that stepped    *)
(* down, which asked for 60 seconds without.                               *)
Frozen(u) == stage[u] = "stepped down"

ElectPrimary ==
  /\ primary = Nobody
  /\ \E p \in Units \ down : ~Frozen(p) /\ primary' = p
  /\ UNCHANGED <<refreshes, charm, charm_epoch, databag, installed, down, leader, todo,
                 running, stage, deferred, history, refused, failures, elections>>

(* Another leader, or an election that is not of the charm's making.       *)
Elect ==
  /\ failures + elections < MaxFaults /\ elections' = elections + 1
  /\ \/ leader' \in Others(leader) /\ UNCHANGED primary
     \/ primary' \in Electable(primary) \cup {Nobody} /\ UNCHANGED leader
  /\ UNCHANGED <<refreshes, charm, charm_epoch, databag, installed, down, todo,
                 running, stage, deferred, history, refused, failures>>

Next ==
  \/ \E u \in Units :
       \/ UpgradeCharm(u) \/ RelationChanged(u) \/ PostAppUpgrade(u)
       \/ Resume(u) \/ ForceRefreshStart(u) \/ PreUpgradeCheck(u)
       \/ Install(u) \/ EndRestart(u) \/ CrashRestart(u) \/ Recover(u)
  \/ \E r \in Revisions : Refresh(r)
  \/ ElectPrimary \/ Elect

Spec == Init /\ [][Next]_vars

(* Juju runs the hooks it has queued and keeps running hooks (update-status) *)
(* on every unit; a restart goes on; mongod comes back and a primary is    *)
(* elected.  Nothing is assumed of the operator.                           *)
Fairness ==
  /\ \A u \in Units :
       /\ WF_vars(UpgradeCharm(u)) /\ WF_vars(RelationChanged(u))
       /\ WF_vars(PostAppUpgrade(u)) /\ WF_vars(Recover(u))
       /\ WF_vars(Install(u) \/ EndRestart(u))
  /\ WF_vars(ElectPrimary)

FairSpec == Spec /\ Fairness

-----------------------------------------------------------------------------
(* Properties.                                                             *)

(* Within one refresh, mongod is restarted on one unit at a time: the next *)
(* restart waits until the whole set is in sync again.  (authorized waits  *)
(* for HEALTHY, which only the post-refresh check writes.)  Unless the     *)
(* operator forced one, or asked for a new refresh in the middle of a      *)
(* restart: other units then decide from a databag that restart outdates.  *)
OneUnitDown ==
  \A u, w \in down :
    \/ u = w
    \/ restart_epoch[u] # restart_epoch[w]
    \/ u \in forced \/ w \in forced
    \/ overlapped

(* When a unit has been restarted by a refresh without force, every unit   *)
(* with a higher number runs the snap of that refresh, unless a later one  *)
(* has reached it: the order of `authorized` survives rollbacks, crashes   *)
(* and retries, though each unit decides alone.                            *)
Goal(u) == SnapOf[refreshes[restart_epoch[u]]]
HigherFirst ==
  \A u, w \in Units :
    u < w /\ u \notin forced /\ charm_epoch[w] <= restart_epoch[u]
      => snap_revision[w] = Goal(u) \/ overlapped

(* A compatible refresh that every unit has received and the operator has  *)
(* resumed is completed by the hooks alone: each unit's databag write      *)
(* wakes the next one up, as long as no check, election or install fails.  *)
(* Unless the first unit was asked while it was still coming back from a   *)
(* refresh before, or force-refresh-start took a unit past another that    *)
(* never restarted and so never says that it is healthy.                   *)
Resumed ==
  /\ upgrade_resumed /\ confirmed = epoch
  /\ \A u \in Units : charm_epoch[u] = epoch /\ IsCompatible(charm[u])
Completed ==
  \A u \in Units : snap_revision[u] = SnapOf[charm[u]] /\ u \notin deferred
PassedOver ==
  \E u \in forced : \E w \in Higher(u) :
    unit_state[w] = "none" /\ Outdated(u, charm[u]) /\ ~Outdated(w, charm[w])
Stalled == failures > 0 \/ refused \/ PassedOver
ResumedCompletes == <>[]Resumed => <>[](Completed \/ Stalled)

(* A refresh does not take mongod down under the primary, although a unit  *)
(* looks who is primary long before it stops mongod, and goes on when the  *)
(* set has none: no other restart, check or election of the refresh brings *)
(* the primary to it in between.  Unless it saw nobody when it looked, for *)
(* a restart of a refresh before was not over; MongoDB elected another for *)
(* reasons of its own; a restart was forced or overtaken by a refresh; or  *)
(* there is no other unit.                                                 *)
PrimaryUp ==
  [][\A u \in Units :
       u \in down' \ down /\ primary = u
         => \/ Units = {u} \/ stage[u] = "saw nobody"
            \/ elections > 0 \/ forced # {} \/ overlapped]_vars

(* The second unit restarts only after the operator resumed this refresh   *)
(* or a later one ("Reset to `False` after each `juju refresh`"), unless   *)
(* the leader, which resets what was resumed before, has not run its       *)
(* upgrade-charm yet, or another unit has become leader and never will; or *)
(* a refresh was asked for in the middle of a restart and the leader is    *)
(* still in the restart whose end writes the reset.                        *)
Resetting ==
  \/ running[leader] = "upgrade_charm"
  \/ running[leader] = "none" /\ "upgrade_charm" \in todo[leader]
SecondUnitConfirmed ==
  [][\A u \in Units :
       IsSecond(u) /\ running[u] = "none" /\ running'[u] \in Hooks
         => \/ confirmed >= charm_epoch'[u]
            \/ charm_epoch[leader] < charm_epoch'[u] \/ elections > 0
            \/ overlapped /\ Resetting]_vars
=============================================================================
