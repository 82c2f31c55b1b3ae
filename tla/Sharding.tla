------------------------------ MODULE Sharding ------------------------------
(***************************************************************************)
(* Shards joining and leaving a sharded cluster.  The config-server shares *)
(* its key file and passwords over one relation per shard; a shard adopts  *)
(* them and answers auth-updated; the config-server adds it to the MongoDB *)
(* cluster, and drains it once the relation is gone, while the shard's own *)
(* relation-broken hook waits.  Everything but the relation's own events   *)
(* is retried by the config-server's update-status.                        *)
(*                                                                         *)
(* One actor stands for the units of the config-server (its leader), one   *)
(* for those of each shard; a hook is one step, except the wait of a shard *)
(* that leaves.  The operator's and the backup user's passwords are one    *)
(* version number.  A hook whose checks fail before it did anything (an    *)
(* upgrade, a backup, TLS) is a step not taken.  MongoDB, juju and the     *)
(* operator are the environment.                                           *)
(***************************************************************************)
EXTENDS Integers, FiniteSets

CONSTANTS
  Shards,       \* names of the shard applications
  Settled,      \* shards that are in the cluster at the start
  BrokenReads,  \* may relation-broken still read the relation's databag?
  MaxRelations, \* bound: `juju integrate` calls
  MaxRotations, \* bound: set-password actions
  MaxElections, \* bound: changes of the config-server's leader
  MaxFailures   \* bound: shard hooks that die between two writes

ASSUME ShardsAssumption == IsFiniteSet(Shards) /\ Settled \subseteq Shards
ASSUME BrokenReadsAssumption == BrokenReads \subseteq BOOLEAN /\ BrokenReads # {}
ASSUME BoundsAssumption ==
  /\ MaxRelations \in Nat /\ MaxRotations \in Nat
  /\ MaxElections \in Nat /\ MaxFailures \in Nat

VARIABLES
  cluster,      \* MongoDB: what listShards says of each shard
  chunks,       \* MongoDB: shards that still hold chunks or databases
  cs_side,      \* the relation as the config-server's hooks see it
  shard_side,   \* the relation as the shard's hooks see it
  requested,    \* database_requested of the relation, at the config-server
  shared,       \* databag: the password version the config-server published
  hosts_shared, \* databag: shards that are told the config-server's hosts
  auth_updated, \* databag: shards that answered "auth-updated"
  keyfile,      \* shards that run with the config-server's key file
  password,     \* the config-server's password version
  db_password,  \* shards: the version their MongoDB accepts
  own_password, \* shards: the version their charm logs in with
  news,         \* shards with a secret-changed event to run
  known_hosts,  \* shards whose peer databag holds the config-server's hosts
  drained,      \* shards whose unit databag says they are drained
  integrations, rotations, elections, failures

mongodb == <<cluster, chunks>>
databag == <<shared, hosts_shared, auth_updated>>
credentials == <<keyfile, password, db_password, own_password, known_hosts>>
counters == <<integrations, rotations, elections, failures>>
vars == <<mongodb, cs_side, shard_side, requested, databag, credentials, news,
          drained, counters>>

Version == 0..MaxRotations + 1 \* 0 for none of the config-server's
FirstVersion == 1

TypeOK ==
  /\ cluster \in [Shards -> {"absent", "active", "draining"}]
  /\ cs_side \in [Shards -> {"none", "up", "leaving", "error"}]
  /\ shard_side \in [Shards -> {"none", "up", "leaving", "waiting", "error"}]
  /\ requested \in [Shards -> {"no", "queued", "deferred", "served", "lost"}]
  /\ shared \in [Shards -> Version]
  /\ db_password \in [Shards -> Version] /\ own_password \in [Shards -> Version]
  /\ password \in Version
  /\ chunks \subseteq Shards /\ hosts_shared \subseteq Shards
  /\ auth_updated \subseteq Shards /\ keyfile \subseteq Shards
  /\ news \subseteq Shards /\ known_hosts \subseteq Shards /\ drained \subseteq Shards
  /\ integrations \in 0..MaxRelations /\ rotations \in 0..MaxRotations
  /\ elections \in 0..MaxElections /\ failures \in 0..MaxFailures

Init ==
  LET At(in, out) == [s \in Shards |-> IF s \in Settled THEN in ELSE out] IN
  /\ cluster = At("active", "absent") /\ chunks = Settled
  /\ cs_side = At("up", "none") /\ shard_side = At("up", "none")
  /\ requested = At("served", "no")
  /\ password = FirstVersion
  /\ shared = At(FirstVersion, 0)
  /\ db_password = At(FirstVersion, 0) /\ own_password = At(FirstVersion, 0)
  /\ hosts_shared = Settled /\ auth_updated = Settled
  /\ keyfile = Settled /\ known_hosts = Settled
  /\ news = {} /\ drained = {}
  /\ integrations = 0 /\ rotations = 0 /\ elections = 0 /\ failures = 0

-----------------------------------------------------------------------------
(* The relation, as the operator makes and removes it.                     *)

(* Juju refuses a second relation until both sides are done with the first. *)
(* The shard's relation-created asks for the secrets and resets its flags. *)
RelationCreated(s) ==
  /\ cs_side[s] = "none" /\ shard_side[s] = "none"
  /\ integrations < MaxRelations /\ integrations' = integrations + 1
  /\ cs_side' = [cs_side EXCEPT ![s] = "up"]
  /\ shard_side' = [shard_side EXCEPT ![s] = "up"]
  /\ requested' = [requested EXCEPT ![s] = "queued"]
  /\ shared' = [shared EXCEPT ![s] = 0]
  /\ hosts_shared' = hosts_shared \ {s}
  /\ auth_updated' = auth_updated \ {s}
  /\ news' = news \ {s}
  /\ drained' = drained \ {s}
  /\ UNCHANGED <<mongodb, credentials, rotations, elections, failures>>

RemoveRelation(s) ==
  /\ cs_side[s] = "up" /\ shard_side[s] = "up"
  /\ cs_side' = [cs_side EXCEPT ![s] = "leaving"]
  /\ shard_side' = [shard_side EXCEPT ![s] = "leaving"]
  /\ UNCHANGED <<mongodb, requested, databag, credentials, news, drained, counters>>

-----------------------------------------------------------------------------
(* The config-server.                                                      *)

(* A hook in error runs again before any other.                            *)
ConfigServerRuns == \A s \in Shards : cs_side[s] # "error"

Related == {s \in Shards : cs_side[s] \in {"up", "leaving"}}

(* prepare_sharding_config, or the checks defer the event.                 *)
DatabaseRequested(s) ==
  /\ ConfigServerRuns /\ cs_side[s] = "up"
  /\ \/ /\ requested[s] \in {"queued", "deferred"}
        /\ requested' = [requested EXCEPT ![s] = "served"]
        /\ shared' = [shared EXCEPT ![s] = password]
        /\ hosts_shared' = hosts_shared \cup {s}
     \/ /\ requested[s] = "queued"
        /\ requested' = [requested EXCEPT ![s] = "deferred"]
        /\ UNCHANGED <<shared, hosts_shared>>
  /\ UNCHANGED <<mongodb, cs_side, shard_side, auth_updated, credentials, news,
                 drained, counters>>

(* Mutant: only the shards that answered are told.                         *)
ToldOfRotationLate == {s \in Related : s \in auth_updated}

(* update_credentials: every relation with a request, answered or not.  It *)
(* is published early too: the shard then waits for the key file.          *)
ToldOfRotation == {s \in Related : requested[s] # "no"}

SetPassword ==
  /\ ConfigServerRuns
  /\ rotations < MaxRotations /\ rotations' = rotations + 1
  /\ password' = password + 1
  /\ shared' = [s \in Shards |-> IF s \in ToldOfRotation THEN password' ELSE shared[s]]
  /\ news' = news \cup {s \in ToldOfRotation : requested[s] = "served"}
  /\ UNCHANGED <<mongodb, cs_side, shard_side, requested, hosts_shared, auth_updated,
                 keyfile, db_password, own_password, known_hosts, drained,
                 integrations, elections, failures>>

(* MongoDB adds a shard whose key file it shares; it may hold data.        *)
Join(c, S) == [s \in Shards |-> IF s \in S THEN "active" ELSE c[s]]
JoinWithChunks(S) == \E full \in SUBSET S : chunks' = (chunks \ S) \cup full

(* relation-changed: auth-updated is there.  A member is not added again,  *)
(* a shard that MongoDB does not trust defers the event.                   *)
RelationChanged(s) ==
  /\ ConfigServerRuns /\ cs_side[s] = "up"
  /\ s \in auth_updated /\ s \in keyfile /\ cluster[s] = "absent"
  /\ cluster' = Join(cluster, {s})
  /\ JoinWithChunks({s})
  /\ UNCHANGED <<cs_side, shard_side, requested, databag, credentials, news,
                 drained, counters>>

(* Mutant: a shard that drains blocks its own removal.                     *)
BlockedByItself(c, s) == \E t \in Shards : c[t] = "draining"

(* pre_remove_shard_checks, then removeShard in a cluster c.               *)
Blocked(c, s) == \E t \in Shards \ {s} : c[t] = "draining"
LastShard(c, s) == c[s] = "active" /\ \A t \in Shards \ {s} : c[t] # "active"

(* Mutant: another shard may be draining.                                  *)
RemoveWhileDraining(c, s) ==
  CASE c[s] = "active" /\ ~LastShard(c, s) -> [c EXCEPT ![s] = "draining"]
    [] c[s] = "draining" /\ s \notin chunks -> [c EXCEPT ![s] = "absent"]
    [] OTHER -> c

Remove(c, s) ==
  CASE Blocked(c, s) -> c
    [] ~Blocked(c, s) /\ c[s] = "active" /\ ~LastShard(c, s) -> [c EXCEPT ![s] = "draining"]
    [] ~Blocked(c, s) /\ c[s] = "draining" /\ s \notin chunks -> [c EXCEPT ![s] = "absent"]
    [] OTHER -> c

(* Mutants: every member, related or not; removeShard is not called again. *)
AllMembers(c) == {s \in Shards : c[s] # "absent"}
UnrelatedOnce(c) == {s \in Shards : c[s] = "active"} \ Related

Unrelated(c) == {s \in Shards : c[s] # "absent"} \ Related

(* remove_shards: a shard blocked by another's draining is passed over; the *)
(* first that is not ends the loop, as removeShard never says it is done.  *)
RemoveShards(c) ==
  LET free == {s \in Unrelated(c) : ~Blocked(c, s)} IN
  \/ free = {} /\ cluster' = c
  \/ \E s \in free : cluster' = Remove(c, s)

(* Mutant: the shards that failed to be added are not tried again.         *)
NoneMissing(listed) == {}

Missing(listed) ==
  {s \in Shards : cluster[s] = "absent" /\ (cs_side[s] = "up" \/ s \in listed)}

(* update_related_hosts: share the hosts, add_shards, remove_shards.  The  *)
(* units of a relation being removed may be listed or not.  A shard that   *)
(* MongoDB does not trust ends the handler there.                          *)
UpdateStatus ==
  /\ ConfigServerRuns
  /\ hosts_shared' = hosts_shared \cup Related
  /\ \E listed \in SUBSET {s \in Shards : cs_side[s] = "leaving"} :
       LET missing == Missing(listed)
           refused == missing \ keyfile IN
       \/ /\ refused = {}
          /\ JoinWithChunks(missing)
          /\ RemoveShards(Join(cluster, missing))
       \/ /\ refused # {}
          /\ \E first \in SUBSET (missing \ refused) :
               JoinWithChunks(first) /\ cluster' = Join(cluster, first)
  /\ UNCHANGED <<cs_side, shard_side, requested, shared, auth_updated, credentials,
                 news, drained, counters>>

(* relation-broken: the shard is removed if the databag can still be read. *)
(* The last shard of the cluster leaves the hook in error.                 *)
RelationBroken(s) ==
  /\ \/ ConfigServerRuns /\ cs_side[s] = "leaving"
     \/ cs_side[s] = "error"
  /\ \/ /\ FALSE \in BrokenReads \/ s \notin auth_updated
        /\ cs_side[s] = "leaving"
        /\ cs_side' = [cs_side EXCEPT ![s] = "none"]
        /\ UNCHANGED cluster
     \/ /\ TRUE \in BrokenReads /\ s \in auth_updated
        /\ LET stuck == LastShard(cluster, s) /\ ~Blocked(cluster, s) IN
           cs_side' = [cs_side EXCEPT ![s] = IF stuck THEN "error" ELSE "none"]
        /\ cluster' = Remove(cluster, s)
  /\ UNCHANGED <<chunks, shard_side, requested, databag, credentials, news,
                 drained, counters>>

(* The former leader drops the events it had deferred, the new one never   *)
(* sees them.                                                              *)
LeaderElected ==
  /\ elections < MaxElections /\ elections' = elections + 1
  /\ \E S \in SUBSET {s \in Shards : requested[s] = "deferred"} :
       requested' = [s \in Shards |-> IF s \in S THEN "lost" ELSE requested[s]]
  /\ cs_side' = [s \in Shards |-> IF cs_side[s] = "error" THEN "none" ELSE cs_side[s]]
  /\ UNCHANGED <<mongodb, shard_side, databag, credentials, news, drained,
                 integrations, rotations, failures>>

-----------------------------------------------------------------------------
(* The shard.                                                              *)

(* sync_cluster_passwords: the password is changed in MongoDB, with the    *)
(* one the charm holds, then saved.                                        *)
CanSync(s) == shared[s] = own_password[s] \/ own_password[s] = db_password[s]

SyncPasswords(s) ==
  /\ CanSync(s)
  /\ db_password' = [db_password EXCEPT ![s] =
                       IF shared[s] = own_password[s] THEN @ ELSE shared[s]]
  /\ own_password' = [own_password EXCEPT ![s] = shared[s]]

(* The hook dies between the two.                                          *)
CrashInSync(s) ==
  /\ failures < MaxFailures /\ failures' = failures + 1
  /\ shared[s] # own_password[s] /\ CanSync(s)
  /\ db_password' = [db_password EXCEPT ![s] = shared[s]]
  /\ UNCHANGED own_password

(* relation-changed, synchronise_cluster_secrets: key file, restart, then  *)
(* the passwords if mongod is back, or the event is deferred.              *)
DatabaseCreated(s) ==
  /\ shard_side[s] = "up" /\ requested[s] = "served"
  /\ keyfile' = keyfile \cup {s}
  /\ \/ /\ SyncPasswords(s)
        /\ auth_updated' = auth_updated \cup {s}
        /\ known_hosts' = known_hosts \cup {s}
        /\ UNCHANGED failures
     \/ /\ CrashInSync(s)
        /\ UNCHANGED <<auth_updated, known_hosts>>
     \/ UNCHANGED <<db_password, own_password, auth_updated, known_hosts, failures>>
  /\ UNCHANGED <<mongodb, cs_side, shard_side, requested, shared, hosts_shared,
                 password, news, drained, integrations, rotations, elections>>

(* Mutant: a set that is not ready drops the event instead of deferring it. *)
SecretChangedOnce(s) ==
  /\ shard_side[s] = "up" /\ s \in news
  /\ news' = news \ {s}
  /\ \/ s \in auth_updated /\ SyncPasswords(s) /\ UNCHANGED failures
     \/ s \in auth_updated /\ CrashInSync(s)
     \/ UNCHANGED <<db_password, own_password, failures>>
  /\ UNCHANGED <<mongodb, cs_side, shard_side, requested, databag, keyfile,
                 password, known_hosts, drained, integrations, rotations, elections>>

(* handle_secret_changed, ignored until the first synchronisation.  After a *)
(* crash, or when the set is not ready, it runs again.                     *)
SecretChanged(s) ==
  /\ shard_side[s] = "up" /\ s \in news
  /\ \/ /\ s \notin auth_updated
        /\ news' = news \ {s}
        /\ UNCHANGED <<db_password, own_password, failures>>
     \/ /\ s \in auth_updated /\ SyncPasswords(s)
        /\ news' = news \ {s}
        /\ UNCHANGED failures
     \/ s \in auth_updated /\ CrashInSync(s) /\ UNCHANGED news
  /\ UNCHANGED <<mongodb, cs_side, shard_side, requested, databag, keyfile,
                 password, known_hosts, drained, integrations, rotations, elections>>

(* relation-broken: a shard that was never told the hosts has nothing to   *)
(* wait for.                                                               *)
ShardRelationBroken(s) ==
  /\ shard_side[s] = "leaving"
  /\ shard_side' = [shard_side EXCEPT ![s] = IF s \in hosts_shared THEN "waiting" ELSE "none"]
  /\ UNCHANGED <<mongodb, cs_side, requested, databag, credentials, news, drained,
                 counters>>

(* wait_for_draining: it asks again while MongoDB refuses the password or  *)
(* lists the shard as draining.  Without hosts the handler raises.         *)
EndWait(s) ==
  /\ shard_side[s] = "waiting"
  /\ \/ /\ s \notin known_hosts
        /\ shard_side' = [shard_side EXCEPT ![s] = "error"]
        /\ UNCHANGED drained
     \/ /\ s \in known_hosts /\ own_password[s] = password /\ cluster[s] # "draining"
        /\ shard_side' = [shard_side EXCEPT ![s] = "none"]
        /\ drained' = drained \cup {s}
  /\ UNCHANGED <<mongodb, cs_side, requested, databag, credentials, news, counters>>

(* The balancer moves the chunks of a draining shard away.                 *)
Drain(s) ==
  /\ cluster[s] = "draining" /\ s \in chunks
  /\ chunks' = chunks \ {s}
  /\ UNCHANGED <<cluster, cs_side, shard_side, requested, databag, credentials,
                 news, drained, counters>>

Next ==
  \/ \E s \in Shards :
       \/ RelationCreated(s) \/ RemoveRelation(s)
       \/ DatabaseRequested(s) \/ RelationChanged(s) \/ RelationBroken(s)
       \/ DatabaseCreated(s) \/ SecretChanged(s)
       \/ ShardRelationBroken(s) \/ EndWait(s) \/ Drain(s)
  \/ SetPassword \/ UpdateStatus \/ LeaderElected

Spec == Init /\ [][Next]_vars

(* Juju runs the hooks it has queued, emits deferred events again, and runs *)
(* update-status for ever; the replica set of a shard becomes ready; the   *)
(* balancer drains.  Nothing is assumed of the operator, nor that the      *)
(* config-server sees another relation-changed: update-status stands in.   *)
Fairness ==
  /\ WF_vars(UpdateStatus)
  /\ \A s \in Shards :
       /\ WF_vars(DatabaseRequested(s)) /\ WF_vars(RelationBroken(s))
       /\ WF_vars(s \notin auth_updated /\ DatabaseCreated(s))
       /\ WF_vars(SecretChanged(s)) /\ WF_vars(ShardRelationBroken(s))
       /\ WF_vars(EndWait(s)) /\ WF_vars(Drain(s))

FairSpec == Spec /\ Fairness

-----------------------------------------------------------------------------
(* Properties.                                                             *)

(* At most one shard drains at a time, whichever handler removes it        *)
(* (relation-broken and update-status both check before removeShard).      *)
OneDraining ==
  \A s, t \in Shards : cluster[s] = "draining" /\ cluster[t] = "draining" => s = t

(* No handler starts to drain a shard whose relation is up: not its own    *)
(* relation-broken, nor the update-status that looks for leftovers while   *)
(* relations come and go.                                                  *)
OnlyLeaversDrained ==
  [][\A s \in Shards :
       cluster[s] = "active" /\ cluster'[s] = "draining" => cs_side[s] # "up"]_vars

(* A rotation is never missed: a shard that has answered auth-updated logs *)
(* in with the config-server's password or has a secret-changed event to   *)
(* run, however the rotation met its first synchronisation (whose events   *)
(* are ignored before it has answered).                                    *)
RotationNotMissed ==
  \A s \in auth_updated :
    cs_side[s] = "up" /\ shard_side[s] = "up" =>
      own_password[s] = password \/ s \in news

(* The shards' passwords converge to the config-server's, unless a hook of *)
(* the shard died between MongoDB and the secret.                          *)
PasswordsConverge ==
  \A s \in Shards :
    <>[](shard_side[s] = "up" /\ requested[s] = "served" /\ failures = 0)
      => <>[](own_password[s] = password)

(* The config-server can go on: no hook in error, every request answered,  *)
(* no shard that came back while it was draining.                          *)
Undisturbed ==
  /\ ConfigServerRuns
  /\ \A s \in Shards :
       requested[s] # "lost" /\ (cs_side[s] = "up" => cluster[s] # "draining")

(* A shard that stays related becomes a member, though the event that adds *)
(* it may come before it is ready.                                         *)
RelatedJoins ==
  \A s \in Shards : <>[](Undisturbed /\ cs_side[s] = "up") => <>[](cluster[s] = "active")

AnotherStays(s) == \E t \in Shards \ {s} : cs_side[t] = "up" /\ cluster[t] = "active"

(* A shard whose relation is gone leaves the cluster completely, through   *)
(* as many removeShard calls as it takes.                                  *)
UnrelatedLeaves ==
  \A s \in Shards :
    <>[](Undisturbed /\ cs_side[s] = "none" /\ AnotherStays(s)) => <>[](cluster[s] = "absent")

(* The wait in a leaving shard's hook ends, as long as the password it     *)
(* left with is still the config-server's.                                 *)
WaitEnds ==
  \A s \in Shards :
    ~<>[](/\ Undisturbed /\ AnotherStays(s)
          /\ shard_side[s] = "waiting" /\ own_password[s] = password)
=============================================================================
