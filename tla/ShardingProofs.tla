--------------------------- MODULE ShardingProofs ---------------------------
(***************************************************************************)
(* Safety of the sharding protocol, for any set of shards and any bounds,  *)
(* and that what its liveness waits for is never forgotten.                *)
(***************************************************************************)
EXTENDS Sharding, TLAPS

(* A request that is answered carries the config-server's current password. *)
SharedIsCurrent ==
  \A s \in Shards : cs_side[s] = "up" /\ requested[s] = "served" => shared[s] = password

(* A shard can only have answered a request that was answered.             *)
AnsweredWasServed ==
  \A s \in auth_updated :
    cs_side[s] = "up" /\ shard_side[s] = "up" => requested[s] = "served"

(* The version numbers stay within the bound.                              *)
PasswordCount == password = rotations + 1

IInv ==
  /\ TypeOK
  /\ PasswordCount
  /\ OneDraining
  /\ SharedIsCurrent
  /\ AnsweredWasServed
  /\ RotationNotMissed

(* The invariant holds of the cluster as it is found: the settled shards   *)
(* have the first password, the others nothing.                            *)
LEMMA InitIInv == Init => IInv
<1> SUFFICES ASSUME Init PROVE IInv
  OBVIOUS
<1> USE ShardsAssumption, BoundsAssumption
<1>1. TypeOK
  BY DEF Init, TypeOK, Version, FirstVersion
<1>2. PasswordCount
  BY DEF Init, PasswordCount, FirstVersion
<1>3. OneDraining
  BY DEF Init, OneDraining
<1>4. SharedIsCurrent
  BY DEF Init, SharedIsCurrent
<1>5. AnsweredWasServed
  BY DEF Init, AnsweredWasServed
<1>6. RotationNotMissed
  BY DEF Init, RotationNotMissed
<1> QED
  BY <1>1, <1>2, <1>3, <1>4, <1>5, <1>6 DEF IInv

(* removeShard leaves a map of the shards to their states, in which a      *)
(* shard drains only if it did or if no other does.                        *)
LEMMA RemoveDrains ==
  ASSUME NEW c \in [Shards -> {"absent", "active", "draining"}], NEW s \in Shards
  PROVE  /\ Remove(c, s) \in [Shards -> {"absent", "active", "draining"}]
         /\ \A t \in Shards \ {s} : Remove(c, s)[t] = c[t]
         /\ (\E t \in Shards \ {s} : c[t] = "draining") => Remove(c, s) = c
<1>1. CASE Blocked(c, s)
  BY <1>1 DEF Remove
<1>2. CASE ~Blocked(c, s)
  BY <1>2 DEF Remove, Blocked
<1> QED
  BY <1>1, <1>2

(* One step of each handler on the cluster keeps one draining shard.       *)
LEMMA ClusterStep ==
  ASSUME TypeOK, OneDraining, [Next]_vars
  PROVE  OneDraining'
<1> USE DEF OneDraining
<1>1. ASSUME NEW c \in [Shards -> {"absent", "active", "draining"}],
             NEW s \in Shards, cluster' = Remove(c, s),
             \A t, w \in Shards : c[t] = "draining" /\ c[w] = "draining" => t = w
      PROVE  OneDraining'
  <2>1. /\ \A t \in Shards \ {s} : cluster'[t] = c[t]
        /\ (\E t \in Shards \ {s} : c[t] = "draining") => cluster' = c
    BY <1>1, RemoveDrains
  <2>2. CASE \E t \in Shards \ {s} : c[t] = "draining"
    BY <2>1, <2>2, <1>1
  <2>3. CASE \A t \in Shards \ {s} : c[t] # "draining"
    BY <2>1, <2>3
  <2> QED
    BY <2>2, <2>3
<1>2. ASSUME NEW S \in SUBSET Shards, \A s \in S : cluster[s] = "absent"
      PROVE  /\ Join(cluster, S) \in [Shards -> {"absent", "active", "draining"}]
             /\ \A t \in Shards : Join(cluster, S)[t] = "draining" => cluster[t] = "draining"
  BY <1>2 DEF Join, TypeOK
<1>3. ASSUME NEW s \in Shards, RelationChanged(s)
      PROVE  OneDraining'
  BY <1>3, <1>2 DEF RelationChanged
<1>4. ASSUME NEW s \in Shards, RelationBroken(s)
      PROVE  OneDraining'
  <2>1. CASE cluster' = cluster
    BY <2>1
  <2>2. CASE cluster' = Remove(cluster, s)
    BY <2>2, <1>1 DEF TypeOK
  <2> QED
    BY <1>4, <2>1, <2>2 DEF RelationBroken
<1>5. ASSUME UpdateStatus
      PROVE  OneDraining'
  <2> PICK listed \in SUBSET {s \in Shards : cs_side[s] = "leaving"} :
        LET missing == Missing(listed)
            refused == missing \ keyfile IN
        \/ refused = {} /\ JoinWithChunks(missing) /\ RemoveShards(Join(cluster, missing))
        \/ /\ refused # {}
           /\ \E first \in SUBSET (missing \ refused) :
                JoinWithChunks(first) /\ cluster' = Join(cluster, first)
    BY <1>5 DEF UpdateStatus
  <2> DEFINE missing == Missing(listed)
  <2>1. missing \in SUBSET Shards /\ \A s \in missing : cluster[s] = "absent"
    BY DEF Missing
  <2>2. CASE RemoveShards(Join(cluster, missing))
    <3>1. CASE cluster' = Join(cluster, missing)
      BY <3>1, <2>1, <1>2
    <3>2. CASE \E s \in Shards : cluster' = Remove(Join(cluster, missing), s)
      <4> PICK s \in Shards : cluster' = Remove(Join(cluster, missing), s)
        BY <3>2
      <4> DEFINE c == Join(cluster, missing)
      <4>1. /\ c \in [Shards -> {"absent", "active", "draining"}]
            /\ \A t, w \in Shards : c[t] = "draining" /\ c[w] = "draining" => t = w
        BY <2>1, <1>2
      <4> HIDE DEF c
      <4>2. cluster' = Remove(c, s)
        BY DEF c
      <4> QED
        BY <4>1, <4>2, <1>1
    <3> QED
      BY <2>2, <3>1, <3>2 DEF RemoveShards, Unrelated
  <2>3. CASE \E first \in SUBSET missing : cluster' = Join(cluster, first)
    <3> PICK first \in SUBSET missing : cluster' = Join(cluster, first)
      BY <2>3
    <3> QED
      BY <2>1, <1>2
  <2> QED
    BY <2>2, <2>3
<1>6. CASE UNCHANGED cluster
  BY <1>6
<1> QED
  BY <1>3, <1>4, <1>5, <1>6
  DEF Next, vars, mongodb, RelationCreated, RemoveRelation, DatabaseRequested,
      SetPassword, LeaderElected, DatabaseCreated, SecretChanged,
      ShardRelationBroken, EndWait, Drain

-----------------------------------------------------------------------------
(* The type invariant, together with the count of versions it needs, is    *)
(* kept by every step.                                                     *)
LEMMA TypeStep ==
  ASSUME TypeOK, PasswordCount, [Next]_vars
  PROVE  TypeOK' /\ PasswordCount'
<1> USE BoundsAssumption DEF TypeOK, PasswordCount, Version
<1>1. ASSUME NEW s \in Shards, RelationCreated(s)
      PROVE  TypeOK' /\ PasswordCount'
  BY <1>1 DEF RelationCreated, mongodb, credentials
<1>2. ASSUME NEW s \in Shards, RemoveRelation(s)
      PROVE  TypeOK' /\ PasswordCount'
  BY <1>2 DEF RemoveRelation, mongodb, databag, credentials, counters
<1>3. ASSUME NEW s \in Shards, DatabaseRequested(s)
      PROVE  TypeOK' /\ PasswordCount'
  BY <1>3 DEF DatabaseRequested, mongodb, credentials, counters
<1>4. ASSUME NEW S \in SUBSET Shards
      PROVE  /\ Join(cluster, S) \in [Shards -> {"absent", "active", "draining"}]
             /\ JoinWithChunks(S) => chunks' \subseteq Shards
  BY DEF Join, JoinWithChunks
<1>5. ASSUME NEW s \in Shards, RelationChanged(s)
      PROVE  TypeOK' /\ PasswordCount'
  <2>1. cluster' \in [Shards -> {"absent", "active", "draining"}] /\ chunks' \subseteq Shards
    BY <1>5, <1>4 DEF RelationChanged
  <2> QED
    BY <1>5, <2>1 DEF RelationChanged, databag, credentials, counters
<1>6. ASSUME NEW s \in Shards, RelationBroken(s)
      PROVE  TypeOK' /\ PasswordCount'
  <2>1. cluster' = cluster \/ cluster' = Remove(cluster, s)
    BY <1>6 DEF RelationBroken
  <2>3. cluster' \in [Shards -> {"absent", "active", "draining"}]
    BY <2>1, RemoveDrains
  <2>2. cs_side' \in [Shards -> {"none", "up", "leaving", "error"}]
    BY <1>6 DEF RelationBroken
  <2> QED
    BY <1>6, <2>2, <2>3 DEF RelationBroken, databag, credentials, counters
<1>7. ASSUME NEW s \in Shards, DatabaseCreated(s)
      PROVE  TypeOK' /\ PasswordCount'
  BY <1>7 DEF DatabaseCreated, SyncPasswords, CrashInSync, mongodb
<1>8. ASSUME NEW s \in Shards, SecretChanged(s)
      PROVE  TypeOK' /\ PasswordCount'
  BY <1>8 DEF SecretChanged, SyncPasswords, CrashInSync, mongodb, databag
<1>9. ASSUME NEW s \in Shards, ShardRelationBroken(s) \/ EndWait(s)
      PROVE  TypeOK' /\ PasswordCount'
  BY <1>9 DEF ShardRelationBroken, EndWait, mongodb, databag, credentials, counters
<1>10. ASSUME NEW s \in Shards, Drain(s)
       PROVE  TypeOK' /\ PasswordCount'
  BY <1>10 DEF Drain, databag, credentials, counters
<1>11. ASSUME SetPassword
       PROVE  TypeOK' /\ PasswordCount'
  BY <1>11 DEF SetPassword, ToldOfRotation, Related, mongodb
<1>12. ASSUME UpdateStatus
       PROVE  TypeOK' /\ PasswordCount'
  <2>1. Related \subseteq Shards /\ \A listed : Missing(listed) \subseteq Shards
    BY DEF Related, Missing
  <2>2. chunks' \subseteq Shards
    BY <1>12, <1>4, <2>1 DEF UpdateStatus
  <2>3. \A listed : Join(cluster, Missing(listed)) \in [Shards -> {"absent", "active", "draining"}]
    BY <2>1, <1>4
  <2>4. ASSUME NEW c \in [Shards -> {"absent", "active", "draining"}], RemoveShards(c)
        PROVE  cluster' \in [Shards -> {"absent", "active", "draining"}]
    BY <2>4, RemoveDrains DEF RemoveShards, Unrelated
  <2>5. cluster' \in [Shards -> {"absent", "active", "draining"}]
    BY <1>12, <1>4, <2>1, <2>3, <2>4 DEF UpdateStatus
  <2> QED
    BY <1>12, <2>1, <2>2, <2>5 DEF UpdateStatus, credentials, counters
<1>13. ASSUME LeaderElected
       PROVE  TypeOK' /\ PasswordCount'
  BY <1>13 DEF LeaderElected, mongodb, databag, credentials
<1>14. CASE UNCHANGED vars
  BY <1>14 DEF vars, mongodb, databag, credentials, counters
<1> QED
  BY <1>1, <1>2, <1>3, <1>5, <1>6, <1>7, <1>8, <1>9, <1>10, <1>11, <1>12, <1>13,
     <1>14 DEF Next

(* A rotation reaches every shard whose request was answered, so a shard   *)
(* that synchronises adopts the current password.                          *)
LEMMA RotationStep ==
  ASSUME TypeOK, SharedIsCurrent, AnsweredWasServed, RotationNotMissed, [Next]_vars
  PROVE  SharedIsCurrent' /\ AnsweredWasServed' /\ RotationNotMissed'
<1> USE DEF TypeOK, SharedIsCurrent, AnsweredWasServed, RotationNotMissed
<1> DEFINE Goal == SharedIsCurrent' /\ AnsweredWasServed' /\ RotationNotMissed'
<1>1. ASSUME NEW s \in Shards, RelationCreated(s)
      PROVE  Goal
  BY <1>1 DEF RelationCreated, credentials
<1>2. ASSUME NEW s \in Shards, RemoveRelation(s)
      PROVE  Goal
  BY <1>2 DEF RemoveRelation, databag, credentials
<1>3. ASSUME NEW s \in Shards, DatabaseRequested(s)
      PROVE  Goal
  BY <1>3 DEF DatabaseRequested, credentials
<1>4. ASSUME NEW s \in Shards, RelationBroken(s)
      PROVE  Goal
  <2>1. \A t \in Shards : cs_side'[t] = "up" => cs_side[t] = "up"
    BY <1>4 DEF RelationBroken
  <2> QED
    BY <1>4, <2>1 DEF RelationBroken, databag, credentials
<1>5. ASSUME NEW s \in Shards, DatabaseCreated(s)
      PROVE  Goal
  <2>1. SharedIsCurrent'
    BY <1>5 DEF DatabaseCreated
  <2>2. AnsweredWasServed'
    BY <1>5 DEF DatabaseCreated
  <2>3. RotationNotMissed'
    BY <1>5 DEF DatabaseCreated, SyncPasswords, CrashInSync
  <2> QED
    BY <2>1, <2>2, <2>3
<1>6. ASSUME NEW s \in Shards, SecretChanged(s)
      PROVE  Goal
  BY <1>6 DEF SecretChanged, SyncPasswords, CrashInSync, databag
<1>7. ASSUME NEW s \in Shards, ShardRelationBroken(s) \/ EndWait(s)
      PROVE  Goal
  <2>1. \A t \in Shards : shard_side'[t] = "up" => shard_side[t] = "up"
    BY <1>7 DEF ShardRelationBroken, EndWait
  <2> QED
    BY <1>7, <2>1 DEF ShardRelationBroken, EndWait, databag, credentials
<1>8. ASSUME SetPassword
      PROVE  Goal
  BY <1>8 DEF SetPassword, ToldOfRotation, Related
<1>9. ASSUME LeaderElected
      PROVE  Goal
  BY <1>9 DEF LeaderElected, databag, credentials
<1>10. ASSUME UNCHANGED <<cs_side, shard_side, requested, shared, auth_updated,
                          password, own_password, news>>
       PROVE  Goal
  BY <1>10
<1> HIDE DEF Goal, TypeOK, SharedIsCurrent, AnsweredWasServed, RotationNotMissed
<1>11. ASSUME NEW s \in Shards, RelationChanged(s) \/ Drain(s)
       PROVE  Goal
  BY <1>10, <1>11 DEF RelationChanged, Drain, databag, credentials
<1>12. ASSUME UpdateStatus \/ UNCHANGED vars
       PROVE  Goal
  BY <1>10, <1>12 DEF UpdateStatus, vars, databag, credentials
<1>13. Goal
  BY <1>1, <1>2, <1>3, <1>4, <1>5, <1>6, <1>7, <1>8, <1>9, <1>11, <1>12 DEF Next
<1> QED
  BY <1>13 DEF Goal

-----------------------------------------------------------------------------
(* The inductive invariant holds in every state of every behaviour.        *)
THEOREM Invariant == Spec => []IInv
<1>1. IInv /\ [Next]_vars => IInv'
  BY TypeStep, ClusterStep, RotationStep DEF IInv
<1> QED
  BY <1>1, InitIInv, PTL DEF Spec

(* The variables have their declared types in every state.                 *)
THEOREM TypeCorrect == Spec => []TypeOK
<1>1. IInv => TypeOK
  BY DEF IInv
<1> QED
  BY <1>1, Invariant, PTL

(* At most one shard drains at a time, whichever handler removes it, with  *)
(* any number of shards leaving at once.                                   *)
THEOREM OneDrainingAlways == Spec => []OneDraining
<1>1. IInv => OneDraining
  BY DEF IInv
<1> QED
  BY <1>1, Invariant, PTL

(* A rotation is never missed by a shard that has answered auth-updated.   *)
THEOREM RotationNeverMissed == Spec => []RotationNotMissed
<1>1. IInv => RotationNotMissed
  BY DEF IInv
<1> QED
  BY <1>1, Invariant, PTL

(* Adding shards leaves the members as they are.                           *)
LEMMA JoinKeepsMembers ==
  ASSUME TypeOK, NEW S \in SUBSET Shards
  PROVE  /\ Join(cluster, S) \in [Shards -> {"absent", "active", "draining"}]
         /\ \A t \in Shards : cluster[t] = "active" => Join(cluster, S)[t] = "active"
BY DEF Join, TypeOK

(* removeShard has no effect on a shard with a relation.                   *)
LEMMA RemoveShardsSpares ==
  ASSUME NEW c \in [Shards -> {"absent", "active", "draining"}], RemoveShards(c),
         NEW t \in Related
  PROVE  cluster'[t] = c[t]
<1>1. CASE cluster' = c
  BY <1>1
<1>2. CASE \E s \in Unrelated(c) : cluster' = Remove(c, s)
  <2> PICK s \in Unrelated(c) : cluster' = Remove(c, s)
    BY <1>2
  <2> QED
    BY RemoveDrains DEF Unrelated, Related
<1> QED
  BY <1>1, <1>2 DEF RemoveShards

(* A related member stays one: no handler, of its own relation, of another *)
(* or update-status, takes it out of the cluster or starts to.             *)
RelatedStays ==
  \A s \in Shards : cs_side[s] = "up" /\ cluster[s] = "active" => cluster'[s] = "active"

LEMMA RelatedStaysStep ==
  ASSUME TypeOK, Next
  PROVE  RelatedStays
<1> USE DEF RelatedStays
<1>1. ASSUME NEW s \in Shards, RelationChanged(s)
      PROVE  RelatedStays
  BY <1>1, JoinKeepsMembers DEF RelationChanged
<1>2. ASSUME NEW s \in Shards, RelationBroken(s)
      PROVE  RelatedStays
  <2>1. cluster' = cluster \/ (cluster' = Remove(cluster, s) /\ cs_side[s] # "up")
    BY <1>2 DEF RelationBroken
  <2>2. \A t \in Shards \ {s} : Remove(cluster, s)[t] = cluster[t]
    BY RemoveDrains DEF TypeOK
  <2> QED
    BY <2>1, <2>2
<1>3. ASSUME UpdateStatus
      PROVE  RelatedStays
  <2>1. ASSUME NEW c \in [Shards -> {"absent", "active", "draining"}], RemoveShards(c),
               NEW t \in Shards, c[t] = "active", cs_side[t] = "up"
        PROVE  cluster'[t] = "active"
    <3>1. t \in Related
      BY <2>1 DEF Related
    <3> QED
      BY <2>1, <3>1, RemoveShardsSpares
  <2>2. \A listed : Missing(listed) \subseteq Shards
    BY DEF Missing
  <2>3. PICK listed : \/ RemoveShards(Join(cluster, Missing(listed)))
                      \/ \E S \in SUBSET Missing(listed) : cluster' = Join(cluster, S)
    BY <1>3 DEF UpdateStatus
  <2> QED
    BY <2>1, <2>2, <2>3, JoinKeepsMembers
<1>4. CASE UNCHANGED cluster
  BY <1>4
<1> QED
  BY <1>1, <1>2, <1>3, <1>4
  DEF Next, mongodb, RelationCreated, RemoveRelation, DatabaseRequested,
      SetPassword, LeaderElected, DatabaseCreated, SecretChanged,
      ShardRelationBroken, EndWait, Drain

(* No handler starts to drain a shard whose relation is up.                *)
THEOREM OnlyLeaversAreDrained == Spec => OnlyLeaversDrained
<1> DEFINE Step ==
      \A s \in Shards :
        cluster[s] = "active" /\ cluster'[s] = "draining" => cs_side[s] # "up"
<1>1. TypeOK /\ [Next]_vars => [Step]_vars
  BY RelatedStaysStep DEF RelatedStays
<1> QED
  BY <1>1, TypeCorrect, PTL DEF Spec, OnlyLeaversDrained

(* A related member stays in the cluster.                                  *)
THEOREM RelatedAlwaysStays == Spec => [][RelatedStays]_vars
<1>1. TypeOK /\ [Next]_vars => [RelatedStays]_vars
  BY RelatedStaysStep
<1> QED
  BY <1>1, TypeCorrect, PTL DEF Spec

-----------------------------------------------------------------------------
(* What is still to happen is always in somebody's hands: the safety half  *)
(* of the liveness properties.                                             *)

(* Both sides of a relation come up and start to leave together.           *)
UpTogether == \A s \in Shards : cs_side[s] = "up" <=> shard_side[s] = "up"

(* A related shard has asked for the secrets.                              *)
AllAsked == \A s \in Shards : cs_side[s] = "up" => requested[s] # "no"

(* While no hook has died, a shard's charm can log in to its MongoDB.      *)
LoginWorks == failures = 0 => own_password = db_password

(* A shard that answered runs with the config-server's key file.           *)
AnsweredTrusted == auth_updated \subseteq keyfile

PendingInv == IInv /\ UpTogether /\ AllAsked /\ LoginWorks /\ AnsweredTrusted

LEMMA InitPendingInv == Init => PendingInv
BY InitIInv DEF Init, PendingInv, UpTogether, AllAsked, LoginWorks, AnsweredTrusted

LEMMA PendingStep ==
  ASSUME PendingInv, [Next]_vars
  PROVE  UpTogether' /\ AllAsked' /\ LoginWorks' /\ AnsweredTrusted'
<1> DEFINE Goal == UpTogether' /\ AllAsked' /\ LoginWorks' /\ AnsweredTrusted'
<1> USE BoundsAssumption
    DEF PendingInv, IInv, TypeOK, UpTogether, AllAsked, LoginWorks, AnsweredTrusted
<1>1. ASSUME NEW s \in Shards, RelationCreated(s) \/ RemoveRelation(s)
      PROVE  Goal
  BY <1>1 DEF RelationCreated, RemoveRelation, databag, credentials, counters
<1>2. ASSUME NEW s \in Shards, DatabaseRequested(s)
      PROVE  Goal
  BY <1>2 DEF DatabaseRequested, credentials, counters
<1>3. ASSUME NEW s \in Shards, RelationBroken(s)
      PROVE  Goal
  BY <1>3 DEF RelationBroken, databag, credentials, counters
<1>4. ASSUME NEW s \in Shards, failures \in Nat,
             (SyncPasswords(s) /\ UNCHANGED failures) \/ CrashInSync(s)
      PROVE  LoginWorks'
  BY <1>4 DEF SyncPasswords, CrashInSync
<1>5. ASSUME NEW s \in Shards, DatabaseCreated(s)
      PROVE  Goal
  BY <1>5, <1>4 DEF DatabaseCreated
<1>6. ASSUME NEW s \in Shards, SecretChanged(s)
      PROVE  Goal
  BY <1>6, <1>4 DEF SecretChanged, databag
<1>7. ASSUME NEW s \in Shards, ShardRelationBroken(s) \/ EndWait(s)
      PROVE  Goal
  BY <1>7 DEF ShardRelationBroken, EndWait, databag, credentials, counters
<1>8. ASSUME SetPassword
      PROVE  Goal
  BY <1>8 DEF SetPassword
<1>9. ASSUME LeaderElected
      PROVE  Goal
  BY <1>9 DEF LeaderElected, databag, credentials
<1>10. ASSUME UNCHANGED <<cs_side, shard_side, requested, databag, credentials, counters>>
       PROVE  Goal
  BY <1>10 DEF databag, credentials, counters
<1>11. ASSUME UpdateStatus
       PROVE  Goal
  BY <1>11 DEF UpdateStatus, credentials, counters
<1> HIDE DEF Goal, PendingInv, IInv
<1>12. ASSUME NEW s \in Shards, RelationChanged(s) \/ Drain(s)
       PROVE  Goal
  BY <1>10, <1>12 DEF RelationChanged, Drain
<1>13. ASSUME UNCHANGED vars
       PROVE  Goal
  BY <1>10, <1>13 DEF vars
<1>14. Goal
  BY <1>1, <1>2, <1>3, <1>5, <1>6, <1>7, <1>8, <1>9, <1>11, <1>12, <1>13 DEF Next
<1> QED
  BY <1>14 DEF Goal

LEMMA PendingInvariant == Spec => []PendingInv
<1>1. PendingInv /\ [Next]_vars => PendingInv'
  BY PendingStep, TypeStep, ClusterStep, RotationStep DEF PendingInv, IInv
<1> QED
  BY <1>1, InitPendingInv, PTL DEF Spec

(* Either a related shard that was answered logs in with the               *)
(* config-server's password, or that password is in the databag, the shard *)
(* can change to it, and the hook that does so is to come: secret-changed, *)
(* or the first synchronisation.                                           *)
PasswordToCome ==
  \A s \in Shards :
    failures = 0 /\ shard_side[s] = "up" /\ requested[s] = "served" =>
      \/ own_password[s] = password
      \/ /\ shared[s] = password /\ CanSync(s)
         /\ s \in news \/ s \notin auth_updated

(* The safety half of PasswordsConverge: a rotation, the handshake and     *)
(* whatever the relation went through before cannot leave a shard with an  *)
(* old password and nothing to tell it.                                    *)
THEOREM PasswordAlwaysToCome == Spec => []PasswordToCome
<1>1. PendingInv => PasswordToCome
  BY DEF PendingInv, IInv, TypeOK, SharedIsCurrent, RotationNotMissed, UpTogether,
         LoginWorks, PasswordToCome, CanSync
<1> QED
  BY <1>1, PendingInvariant, PTL

(* A related shard is in the cluster, or MongoDB would take it, or the     *)
(* handshake goes on: its request is to be answered (unless an election    *)
(* lost it) or its first synchronisation is to end.                        *)
JoinToCome ==
  \A s \in Shards :
    cs_side[s] = "up" =>
      \/ cluster[s] # "absent" \/ s \in keyfile
      \/ requested[s] \in {"queued", "deferred", "lost"}
      \/ shard_side[s] = "up" /\ requested[s] = "served" /\ s \notin auth_updated

(* The first part of RelatedJoins: the handshake of a shard that is not    *)
(* trusted yet never stops half-way, but for the request that an election  *)
(* loses.                                                                  *)
THEOREM JoinAlwaysToCome == Spec => []JoinToCome
<1>1. PendingInv => JoinToCome
  BY DEF PendingInv, IInv, TypeOK, UpTogether, AllAsked, AnsweredTrusted, JoinToCome
<1> QED
  BY <1>1, PendingInvariant, PTL

-----------------------------------------------------------------------------
(* What a run of update-status achieves.                                   *)

(* No shard with a relation is one that MongoDB would refuse.              *)
AllTrusted == \A s \in Related : cluster[s] # "absent" \/ s \in keyfile

(* Then update-status adds every shard that is missing.                    *)
LEMMA UpdateStatusGoesOn ==
  ASSUME TypeOK, UpdateStatus, AllTrusted
  PROVE  \E listed \in SUBSET {s \in Shards : cs_side[s] = "leaving"} :
           RemoveShards(Join(cluster, Missing(listed)))
<1>1. \A listed \in SUBSET {s \in Shards : cs_side[s] = "leaving"} :
        Missing(listed) \ keyfile = {}
  BY DEF AllTrusted, Missing, Related
<1> QED
  BY <1>1 DEF UpdateStatus

(* The second part of RelatedJoins: with no shard that MongoDB refuses,    *)
(* one update-status adds every shard that is missing, however many there  *)
(* are and whatever it removes in the same run.                            *)
UpdateStatusAdds ==
  UpdateStatus /\ AllTrusted =>
    \A s \in Shards : cs_side[s] = "up" /\ cluster[s] = "absent" => cluster'[s] = "active"

THEOREM UpdateStatusAddsAll == Spec => [][UpdateStatusAdds]_vars
<1>1. ASSUME TypeOK, UpdateStatus, AllTrusted, NEW s \in Shards,
             cs_side[s] = "up", cluster[s] = "absent"
      PROVE  cluster'[s] = "active"
  <2>1. PICK listed \in SUBSET {t \in Shards : cs_side[t] = "leaving"} :
          RemoveShards(Join(cluster, Missing(listed)))
    BY <1>1, UpdateStatusGoesOn
  <2>2. s \in Missing(listed) /\ Missing(listed) \subseteq Shards
    BY <1>1 DEF Missing
  <2>3. /\ Join(cluster, Missing(listed)) \in [Shards -> {"absent", "active", "draining"}]
        /\ Join(cluster, Missing(listed))[s] = "active"
    BY <1>1, <2>2 DEF Join, TypeOK
  <2>4. s \in Related
    BY <1>1 DEF Related
  <2> QED
    BY <2>1, <2>3, <2>4, RemoveShardsSpares
<1>2. TypeOK /\ [Next]_vars => [UpdateStatusAdds]_vars
  BY <1>1 DEF UpdateStatusAdds
<1> QED
  BY <1>2, TypeCorrect, PTL DEF Spec

(* The step that takes a shard out of the cluster, or the balancer that is *)
(* to move its chunks first.                                               *)
Advances(s) ==
  \/ cluster[s] = "active" /\ cluster'[s] = "draining"
  \/ cluster[s] = "draining" /\ cluster'[s] = "absent"
  \/ cluster[s] = "draining" /\ s \in chunks

(* In a run of update-status that removes shards one member without a      *)
(* relation moves on: removal is serialised, but not stuck.                *)
RemovalGoesOn ==
  /\ UpdateStatus /\ AllTrusted
  /\ Unrelated(cluster) # {}
  /\ \A s \in Related : cluster[s] # "draining"
  /\ \E s \in Shards : cs_side[s] = "up" /\ cluster[s] = "active"
  => \E s \in Unrelated(cluster) : Advances(s)

(* The shard that update-status picks is not blocked, and another stays.   *)
LEMMA RemovalStep ==
  ASSUME TypeOK, OneDraining, UpdateStatus, AllTrusted, Unrelated(cluster) # {},
         \A s \in Related : cluster[s] # "draining",
         NEW u \in Shards, cs_side[u] = "up", cluster[u] = "active"
  PROVE  \E s \in Unrelated(cluster) : Advances(s)
<1>1. PICK listed \in SUBSET {t \in Shards : cs_side[t] = "leaving"} :
        RemoveShards(Join(cluster, Missing(listed)))
  BY UpdateStatusGoesOn
<1> DEFINE c == Join(cluster, Missing(listed))
<1>2. Missing(listed) \subseteq Related /\ Related \subseteq Shards /\ u \in Related
  BY DEF Missing, Related
<1>3. /\ c \in [Shards -> {"absent", "active", "draining"}]
      /\ \A t \in Shards \ Related : c[t] = cluster[t]
      /\ \A t \in Related : c[t] # "draining"
      /\ c[u] = "active"
  BY <1>2 DEF Join, TypeOK
<1>4. Unrelated(c) = Unrelated(cluster)
  BY <1>3 DEF Unrelated
<1>5. RemoveShards(c)
  BY <1>1
<1> HIDE DEF c
<1>6. \A d \in Shards : c[d] = "draining" => d \in Unrelated(c)
  BY <1>3, <1>2 DEF Unrelated
<1>7. \A d, e \in Shards : c[d] = "draining" /\ c[e] = "draining" => d = e
  BY <1>3 DEF OneDraining
<1>8. \E s \in Unrelated(c) : ~Blocked(c, s)
  <2>1. CASE \E d \in Shards : c[d] = "draining"
    BY <2>1, <1>6, <1>7 DEF Blocked
  <2>2. CASE \A d \in Shards : c[d] # "draining"
    BY <2>2, <1>4 DEF Blocked
  <2> QED
    BY <2>1, <2>2
<1>9. PICK s \in Unrelated(c) : ~Blocked(c, s) /\ cluster' = Remove(c, s)
  BY <1>5, <1>8 DEF RemoveShards
<1>10. s \in Shards \ Related /\ c[s] \in {"active", "draining"} /\ c[s] = cluster[s]
  BY <1>3 DEF Unrelated
<1>11. ~LastShard(c, s)
  BY <1>2, <1>3, <1>10 DEF LastShard
<1>12. CASE c[s] = "active"
  <2>1. cluster' = [c EXCEPT ![s] = "draining"]
    BY <1>9, <1>11, <1>12 DEF Remove
  <2> QED
    BY <2>1, <1>3, <1>4, <1>10, <1>12 DEF Advances
<1>13. CASE c[s] = "draining" /\ s \notin chunks
  <2>1. cluster' = [c EXCEPT ![s] = "absent"]
    BY <1>9, <1>13 DEF Remove
  <2> QED
    BY <2>1, <1>3, <1>4, <1>10, <1>13 DEF Advances
<1>14. CASE c[s] = "draining" /\ s \in chunks
  BY <1>4, <1>10, <1>14 DEF Advances
<1> QED
  BY <1>10, <1>12, <1>13, <1>14

(* The safety half of UnrelatedLeaves and of WaitEnds: while some shard    *)
(* stays and none that came back drains, every run of update-status that   *)
(* nobody refuses brings the removal of a leftover on (with OneDraining,   *)
(* the one that drains is never blocked by another).                       *)
THEOREM RemovalAlwaysGoesOn == Spec => [][RemovalGoesOn]_vars
<1>1. TypeOK /\ OneDraining /\ [Next]_vars => [RemovalGoesOn]_vars
  BY RemovalStep DEF RemovalGoesOn
<1> QED
  BY <1>1, TypeCorrect, OneDrainingAlways, PTL DEF Spec
=============================================================================
