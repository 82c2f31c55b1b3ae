----------------------------- MODULE ReplicaSet -----------------------------
(***************************************************************************)
(* Units joining and leaving the replica set of one application.  The      *)
(* leader initialises the set, adds the units juju lists and removes those *)
(* it no longer lists; a unit that juju removes takes itself out first, in *)
(* its storage-detaching hook.  Each of them changes the configuration by  *)
(* reading it, checking the status of the members and sending the whole    *)
(* configuration back, so several of them may be at it at once.            *)
(*                                                                         *)
(* MongoDB takes a configuration only if its version is a new one.  Each   *)
(* of read, check and send is a step; what a hook reads of juju does not   *)
(* change while it runs.  A refresh in progress, which defers the hooks,   *)
(* is a step not taken.  Juju, mongod and the operator are the environment.*)
(***************************************************************************)
EXTENDS Integers, FiniteSets

CONSTANTS
  Units,        \* unit numbers, never used twice
  Founders,     \* the units deployed at first
  Nobody,       \* no unit
  MaxRemovals,  \* bound: `juju remove-unit` calls
  MaxElections, \* bound: changes of leader, and of primary, nobody asked for
  MaxFailures   \* bound: mongod crashes, and hooks that give up

ASSUME UnitsAssumption ==
  IsFiniteSet(Units) /\ Founders \subseteq Units /\ Founders # {} /\ Nobody \notin Units
ASSUME BoundsAssumption ==
  MaxRemovals \in Nat /\ MaxElections \in Nat /\ MaxFailures \in Nat

VARIABLES
  life,        \* juju: where each unit is between its creation and its end
  leader,
  starting,    \* units with a start event to run
  initialised, \* app databag: db_initialised
  members,     \* MongoDB: the members of the configuration
  version,     \* MongoDB: its version, 0 for no replica set
  up,          \* units whose mongod answers
  syncing,     \* members that have not finished their initial sync
  primary,
  hook,        \* the hook in which each unit reconfigures the set
  hosts,       \* the units juju listed as that hook began
  targets,     \* the units it has still to add or remove
  step,        \* how far it is with one of them
  target, read_version, read_members,
  joining,     \* history: added one at a time, and up and syncing ever since
  elections, failures

juju == <<life, leader, starting>>
mongodb == <<members, version, up, syncing, primary>>
hooks == <<hook, hosts, targets, step, target, read_version, read_members>>
vars == <<juju, initialised, mongodb, hooks, joining, elections, failures>>

TypeOK ==
  /\ life \in [Units -> {"absent", "alive", "dying", "detaching", "detached", "gone"}]
  /\ leader \in Units
  /\ starting \subseteq Units
  /\ initialised \in BOOLEAN
  /\ members \subseteq Units /\ up \subseteq Units
  /\ syncing \subseteq Units /\ joining \subseteq Units
  /\ version \in Nat
  /\ primary \in Units \cup {Nobody}
  /\ hook \in [Units -> {"none", "adding", "removing", "healing", "leaving"}]
  /\ hosts \in [Units -> SUBSET Units] /\ targets \in [Units -> SUBSET Units]
  /\ step \in [Units -> {"list", "pick", "read", "checked"}]
  /\ target \in [Units -> Units \cup {Nobody}]
  /\ read_version \in [Units -> Nat]
  /\ read_members \in [Units -> SUBSET Units]
  /\ elections \in 0..MaxElections /\ failures \in 0..MaxFailures

Init ==
  /\ life = [u \in Units |-> IF u \in Founders THEN "alive" ELSE "absent"]
  /\ leader \in Founders
  /\ starting = Founders
  /\ initialised = FALSE
  /\ members = {} /\ version = 0 /\ up = {} /\ syncing = {} /\ primary = Nobody
  /\ hook = [u \in Units |-> "none"]
  /\ hosts = [u \in Units |-> {}] /\ targets = [u \in Units |-> {}]
  /\ step = [u \in Units |-> "list"]
  /\ target = [u \in Units |-> Nobody]
  /\ read_version = [u \in Units |-> 0]
  /\ read_members = [u \in Units |-> {}]
  /\ joining = {}
  /\ elections = 0 /\ failures = 0

-----------------------------------------------------------------------------
(* MongoDB, as the commands of the charm find it.                          *)

Majority(m, running) == 2 * Cardinality(m \cap running) > Cardinality(m)

(* The primary stays one while it runs and sees a majority of members.     *)
PrimaryAmong(m, running) ==
  IF primary \in running /\ Majority(m, running) THEN primary ELSE Nobody

Electable == (members \cap up) \ syncing

Fail == failures < MaxFailures /\ failures' = failures + 1

Synced(u) ==
  /\ u \in syncing \cap up /\ primary # Nobody
  /\ syncing' = syncing \ {u}
  /\ joining' = joining \ {u}
  /\ UNCHANGED <<juju, initialised, members, version, up, primary, hooks,
                 elections, failures>>

ElectPrimary ==
  /\ primary' \in Electable \ {primary} /\ Majority(members, up)
  /\ \/ primary = Nobody /\ UNCHANGED elections
     \/ primary # Nobody /\ elections < MaxElections /\ elections' = elections + 1
  /\ UNCHANGED <<juju, initialised, members, version, up, syncing, hooks, joining,
                 failures>>

Crash(u) ==
  /\ u \in up /\ Fail
  /\ up' = up \ {u}
  /\ primary' = PrimaryAmong(members, up')
  /\ joining' = joining \ {u}
  /\ UNCHANGED <<juju, initialised, members, version, syncing, hooks, elections>>

Restart(u) ==
  /\ u \notin up \cup starting /\ life[u] \notin {"absent", "gone"}
  /\ up' = up \cup {u}
  /\ UNCHANGED <<juju, initialised, members, version, syncing, primary, hooks,
                 joining, elections, failures>>

-----------------------------------------------------------------------------
(* Juju.                                                                   *)

Present == {u \in Units : life[u] \notin {"absent", "gone"}}

(* A unit runs one hook at a time; storage-detaching is its last one here. *)
Idle(u) == hook[u] = "none" /\ life[u] \in {"alive", "dying"}

AddUnit(u) ==
  /\ life[u] = "absent"
  /\ life' = [life EXCEPT ![u] = "alive"]
  /\ starting' = starting \cup {u}
  /\ UNCHANGED <<leader, initialised, mongodb, hooks, joining, elections,
                 failures>>

RemoveUnit(u) ==
  /\ life[u] = "alive"
  /\ Cardinality({w \in Units : life[w] \notin {"absent", "alive"}}) < MaxRemovals
  /\ life' = [life EXCEPT ![u] = "dying"]
  /\ UNCHANGED <<leader, starting, initialised, mongodb, hooks, joining,
                 elections, failures>>

(* A unit that has detached its storage leaves, and its mongod with it.    *)
Leave(u) ==
  /\ life[u] = "detached"
  /\ life' = [life EXCEPT ![u] = "gone"]
  /\ starting' = starting \ {u}
  /\ up' = up \ {u}
  /\ primary' = PrimaryAmong(members, up')
  /\ joining' = joining \ {u}
  /\ IF u = leader /\ Present # {u}
       THEN leader' \in Present \ {u} ELSE UNCHANGED leader
  /\ UNCHANGED <<initialised, members, version, syncing, hooks, elections,
                 failures>>

(* The former leader may be in the middle of a hook.                       *)
ElectLeader ==
  /\ elections < MaxElections /\ elections' = elections + 1
  /\ leader' \in Present \ {leader}
  /\ UNCHANGED <<life, starting, initialised, mongodb, hooks, joining,
                 failures>>

-----------------------------------------------------------------------------
(* The hooks that reconfigure, as loops over the units they add or remove. *)

(* The set can be reconfigured: it is initialised and has a primary.       *)
Manages(u) == u = leader /\ initialised /\ primary # Nobody

(* A hook lists the units of its application (internal_hosts) as juju has  *)
(* them when it begins; it asks MongoDB for the members later.             *)
BeginHook(u, name) ==
  /\ hook' = [hook EXCEPT ![u] = name]
  /\ hosts' = [hosts EXCEPT ![u] = Present]
  /\ UNCHANGED <<targets, step, target, read_version, read_members>>

Forget(u) ==
  /\ target' = [target EXCEPT ![u] = Nobody]
  /\ read_version' = [read_version EXCEPT ![u] = 0]
  /\ read_members' = [read_members EXCEPT ![u] = {}]

EndHook(u) ==
  /\ hook' = [hook EXCEPT ![u] = "none"]
  /\ hosts' = [hosts EXCEPT ![u] = {}]
  /\ targets' = [targets EXCEPT ![u] = {}]
  /\ step' = [step EXCEPT ![u] = "list"]
  /\ Forget(u)

(* on_start: mongod runs; the leader initialises the set with the units it *)
(* lists, then the users, or defers.  replSetInitiate fails unless all of  *)
(* them answer, and on a set it is not a member of.                        *)
Start(u) ==
  /\ Idle(u) /\ u \in starting
  /\ up' = up \cup {u}
  /\ \/ /\ initialised \/ u # leader
        /\ starting' = starting \ {u}
        /\ UNCHANGED <<initialised, members, version, syncing, primary, failures>>
     \/ /\ ~initialised /\ u = leader
        /\ \/ \E listed \in SUBSET (Present \cap up') :
                /\ version = 0 /\ u \in listed
                /\ members' = listed /\ version' = 1
                /\ syncing' = listed \ {u} /\ primary' = u
           \/ /\ u \in members /\ primary # Nobody
              /\ UNCHANGED <<members, version, syncing, primary>>
        /\ \/ initialised' = TRUE /\ starting' = starting \ {u} /\ UNCHANGED failures
           \/ UNCHANGED <<initialised, starting>> /\ Fail
     \/ /\ ~initialised /\ u = leader /\ u \notin up
        /\ UNCHANGED <<starting, initialised, members, version, syncing, primary, failures>>
  /\ UNCHANGED <<life, leader, hooks, joining, elections>>

(* relation-joined and relation-changed: process_added_units.              *)
RelationChanged(u) ==
  /\ Idle(u) /\ u \notin starting /\ Manages(u)
  /\ BeginHook(u, "adding")
  /\ UNCHANGED <<juju, initialised, mongodb, joining, elections, failures>>

(* relation-departed: process_unremoved_units.                             *)
RelationDeparted(u) ==
  /\ Idle(u) /\ u \notin starting /\ Manages(u)
  /\ \E w \in Units : life[w] = "gone"
  /\ BeginHook(u, "removing")
  /\ UNCHANGED <<juju, initialised, mongodb, joining, elections, failures>>

(* perform_self_healing: remove, then add.                                 *)
UpdateStatus(u) ==
  /\ Idle(u) /\ u \notin starting /\ Manages(u) /\ u \in up
  /\ BeginHook(u, "healing")
  /\ UNCHANGED <<juju, initialised, mongodb, joining, elections, failures>>

(* is_removing_last_replica: nothing planned, and nobody else listed.      *)
LastReplica(u) == Present = {u} /\ life[u] # "alive"

(* The last replica stays in its set.                                      *)
StorageDetaching(u) ==
  /\ Idle(u) /\ life[u] = "dying"
  /\ \/ /\ LastReplica(u)
        /\ life' = [life EXCEPT ![u] = "detached"]
        /\ UNCHANGED hooks
     \/ /\ ~LastReplica(u)
        /\ life' = [life EXCEPT ![u] = "detaching"]
        /\ BeginHook(u, "leaving")
  /\ UNCHANGED <<leader, starting, initialised, mongodb, joining, elections, failures>>

-----------------------------------------------------------------------------
(* One unit added or removed: the configuration is read, the status of the *)
(* members is checked, the configuration is sent with the next version.    *)

(* It raises: a leader's hook is over, its event deferred, or it tries     *)
(* again within the hook; a unit that leaves tries again for long.         *)
Retry(u) == /\ step' = [step EXCEPT ![u] = "pick"]
            /\ Forget(u)
            /\ UNCHANGED <<hook, hosts, targets>>

NotReady(u) ==
  \/ hook[u] # "leaving" /\ EndHook(u) /\ UNCHANGED <<life, failures>>
  \/ hook[u] # "adding" /\ Retry(u) /\ UNCHANGED <<life, failures>>
  \/ /\ hook[u] = "leaving" /\ EndHook(u) /\ Fail
     /\ life' = [life EXCEPT ![u] = "detached"]

(* Mutants: a unit that does not answer is taken for removed; one that was *)
(* removed is forgotten unless it answers.                                 *)
RemovedWhenDown(u) == (members \ hosts[u]) \cup (members \ up)
RemovedWhileUp(u) == (members \ hosts[u]) \cap up

Removed(u) == members \ hosts[u]
Added(u) == hosts[u] \ members

(* The loop begins, or goes on from removing to adding, or is over.        *)
Loop(u, name, S) ==
  \/ /\ S # {}
     /\ hook' = [hook EXCEPT ![u] = name]
     /\ targets' = [targets EXCEPT ![u] = S]
     /\ step' = [step EXCEPT ![u] = "pick"]
     /\ Forget(u)
     /\ UNCHANGED <<life, hosts>>
  \/ /\ S = {} /\ name = "healing"
     /\ hook' = [hook EXCEPT ![u] = "adding"]
     /\ targets' = [targets EXCEPT ![u] = {}]
     /\ step' = [step EXCEPT ![u] = "list"]
     /\ Forget(u)
     /\ UNCHANGED <<life, hosts>>
  \/ /\ S = {} /\ name # "healing"
     /\ life' = IF name = "leaving" THEN [life EXCEPT ![u] = "detached"] ELSE life
     /\ EndHook(u)

ListMembers(u) ==
  /\ hook[u] # "none" /\ step[u] = "list"
  /\ \/ hook[u] = "adding" /\ Loop(u, hook[u], Added(u))
     \/ hook[u] \in {"removing", "healing"} /\ Loop(u, hook[u], Removed(u))
     \/ hook[u] = "leaving" /\ Loop(u, hook[u], {u})
  /\ UNCHANGED <<leader, starting, initialised, mongodb, joining, elections, failures>>

(* mongod_ready, for a unit to add, and replSetGetConfig.                  *)
ReadConfig(u) ==
  /\ hook[u] # "none" /\ step[u] = "pick"
  /\ \E t \in targets[u] :
       \/ /\ hook[u] = "adding" => t \in up
          /\ primary # Nobody
          /\ target' = [target EXCEPT ![u] = t]
          /\ read_version' = [read_version EXCEPT ![u] = version]
          /\ read_members' = [read_members EXCEPT ![u] = members]
          /\ step' = [step EXCEPT ![u] = "read"]
          /\ UNCHANGED <<life, hook, hosts, targets, failures>>
       \/ /\ (hook[u] = "adding" /\ t \notin up) \/ primary = Nobody
          /\ NotReady(u)
  /\ UNCHANGED <<leader, starting, initialised, mongodb, joining, elections>>

(* Mutant: additions do not wait for the initial sync of the last.         *)
NoneSyncing == FALSE

(* is_any_sync; a member that does not answer is not reported as syncing.  *)
AnySync == syncing \cap up # {}

Checked(u) ==
  /\ step' = [step EXCEPT ![u] = "checked"]
  /\ UNCHANGED <<life, hook, hosts, targets, target, read_version, read_members, failures>>

(* Mutant: the primary is removed as any other member.                     *)
NoStepDown(u) == primary = target[u] /\ UNCHANGED primary

StepDown(u) == primary = target[u] /\ primary' \in Electable \ {target[u]}

(* replSetGetStatus.  No unit is added while another syncs; the primary is *)
(* stepped down before it is removed.                                      *)
CheckStatus(u) ==
  /\ step[u] = "read"
  /\ \/ /\ hook[u] = "adding" /\ primary # Nobody /\ ~AnySync
        /\ Checked(u) /\ UNCHANGED primary
     \/ /\ hook[u] = "adding" /\ (primary = Nobody \/ AnySync)
        /\ NotReady(u) /\ UNCHANGED primary
     \/ /\ hook[u] # "adding" /\ primary \notin {Nobody, target[u]}
        /\ Checked(u) /\ UNCHANGED primary
     \/ /\ hook[u] # "adding" /\ primary # Nobody
        /\ StepDown(u)
        /\ Checked(u)
     \/ /\ hook[u] # "adding"
        /\ primary = Nobody \/ (primary = target[u] /\ Electable \subseteq {target[u]})
        /\ NotReady(u) /\ UNCHANGED primary
  /\ UNCHANGED <<leader, starting, initialised, members, version, up, syncing,
                 joining, elections>>

(* Mutant: the version of the configuration read is not looked at.         *)
AcceptedAnyway(u, m) == primary \in m /\ Majority(m, up)

(* MongoDB refuses a version that is not new, and a configuration without  *)
(* its primary or of which no majority answers.                            *)
Accepted(u, m) ==
  /\ primary \in m /\ Majority(m, up)
  /\ read_version[u] + 1 > version

(* Mutant: all the units of the loop are added at once.                    *)
WithTargets(u) == read_members[u] \cup targets[u]

WithTarget(u) == read_members[u] \cup {target[u]}

(* add_replset_member; MongoDB refuses a member that is listed twice.      *)
AddMember(u) ==
  LET m == WithTarget(u)
      accepted == target[u] \notin read_members[u] /\ Accepted(u, m) IN
  /\ step[u] = "checked" /\ hook[u] = "adding"
  /\ \/ /\ accepted
        /\ members' = m
        /\ version' = read_version[u] + 1
        /\ syncing' = (syncing \cap m) \cup {target[u]}
        /\ joining' = joining \cup ({target[u]} \cap up)
        /\ Loop(u, hook[u], targets[u] \ {target[u]})
        /\ UNCHANGED failures
     \/ /\ ~accepted
        /\ NotReady(u)
        /\ UNCHANGED <<members, version, syncing, joining>>
  /\ UNCHANGED <<leader, starting, initialised, up, primary, elections>>

(* remove_replset_member *)
RemoveMember(u) ==
  LET m == read_members[u] \ {target[u]} IN
  /\ step[u] = "checked" /\ hook[u] # "adding"
  /\ \/ /\ Accepted(u, m)
        /\ members' = m
        /\ version' = read_version[u] + 1
        /\ syncing' = syncing \cap m
        /\ joining' = joining \cap m
        /\ Loop(u, hook[u], targets[u] \ {target[u]})
        /\ UNCHANGED failures
     \/ /\ ~Accepted(u, m)
        /\ NotReady(u)
        /\ UNCHANGED <<members, version, syncing, joining>>
  /\ UNCHANGED <<leader, starting, initialised, up, primary, elections>>

Reconfigure(u) ==
  ListMembers(u) \/ ReadConfig(u) \/ CheckStatus(u) \/ AddMember(u) \/ RemoveMember(u)

Next ==
  \/ \E u \in Units :
       \/ AddUnit(u) \/ RemoveUnit(u) \/ Leave(u)
       \/ Start(u) \/ RelationChanged(u) \/ UpdateStatus(u) \/ StorageDetaching(u)
       \/ RelationDeparted(u)
       \/ Reconfigure(u)
       \/ Synced(u) \/ Crash(u) \/ Restart(u)
  \/ ElectPrimary \/ ElectLeader

Spec == Init /\ [][Next]_vars

(* Juju runs the hooks it has queued, between those that come again and    *)
(* again, and update-status for ever; mongod is restarted, syncs, and      *)
(* elects a primary when a majority is there.  Of what happens a bounded   *)
(* number of times only the next step is assumed.  Nothing is assumed of   *)
(* the operator.                                                           *)
Fairness ==
  /\ WF_vars(\/ primary = Nobody /\ ElectPrimary
             \/ \E u \in Units : Synced(u) \/ Restart(u) \/ Leave(u))
  /\ SF_vars(\E u \in Units : Start(u) \/ StorageDetaching(u))
  /\ SF_vars(\E u \in Units : UpdateStatus(u))
  /\ \A u \in Units : WF_vars(Reconfigure(u))

FairSpec == Spec /\ Fairness

-----------------------------------------------------------------------------
(* Properties.                                                             *)

(* Members are brought in one at a time: no two members that were added    *)
(* and have stayed up since are in their initial sync together, though a   *)
(* former leader may still be adding one (add_replset_member reads the     *)
(* configuration before it looks who syncs).                               *)
OneJoining == \A u, w \in joining : u = w

(* A member leaves the set only because some unit set out to remove that   *)
(* member: no addition is lost to a configuration read before it, whoever  *)
(* sends it.  And it was going, or came after the hook that removes it had *)
(* begun, which takes a former leader that is still in its hook.           *)
OnlyLeaversRemoved ==
  [][\A u \in members \ members' :
       \E w \in Units : /\ step[w] = "checked" /\ step'[w] # "checked"
                        /\ target[w] = u
                        /\ life[u] # "alive" \/ u \notin hosts[w]]_vars

(* However many units are at it, the configurations follow each other, one *)
(* member at a time, each made from the latest one.                        *)
Config == INSTANCE SafeReconfig WITH Nodes <- Units, config <- members
ConfigChangesSafely == Config!Spec

(* No two majorities of a configuration and of the next one miss each      *)
(* other: members that have not heard of the next one yet cannot elect a   *)
(* primary beside its own.                                                 *)
MajoritiesMeet ==
  [][members # {} =>
       \A p \in SUBSET members, q \in SUBSET members' :
         Majority(members, p) /\ Majority(members', q) => p \cap q # {}]_members

(* Once units stop coming and going, the members are the units, as long as *)
(* a primary is there to ask.                                              *)
Settled ==
  /\ initialised /\ primary # Nobody
  /\ \A u \in Units : life[u] \in {"absent", "alive", "gone"}
MembersConverge == <>[]Settled => <>[](members = Present)

(* storage-detaching ends, as long as the other members could go on without*)
(* the unit (most of them answer, and one could be the primary) and no     *)
(* other unit leaves: two that leave may depose each other again and again,*)
(* each making a primary of the other before it could be removed.          *)
Leaving(u) == life[u] = "detaching"
DetachingEnds ==
  \A u \in Units :
    ~<>[](/\ \A w \in Units : Leaving(w) <=> w = u
          /\ primary # Nobody /\ Electable \ {u} # {}
          /\ Majority(members \ {u}, up))
=============================================================================
