---------------------------- MODULE RouterProofs ----------------------------
(***************************************************************************)
(* The routers, for any units and any bounds: no mongos runs outside a     *)
(* relation, the credentials they hold are those of the relation, and no   *)
(* change of what they are to run with or to pass on is lost.              *)
(***************************************************************************)
EXTENDS Router, TLAPS

(* relation-changed comes to the units of the relation, and what they find *)
(* in it is deferred no longer than that.                                  *)
OfRelation ==
  \A u \in Units : changed[u] \/ "created" \in deferred[u] => Joined(u)

(* Units leave a relation when it has been removed, and not before.        *)
StillIn == related => \A u \in Units : stage[u] # "leaving"

(* The leader holds no credentials before it is in the relation they are   *)
(* of: the next one begins without any.                                    *)
Held ==
  /\ creds \in {0, rel} /\ given \in {0, rel}
  /\ stage[leader] \in {"out", "joining"} => creds = 0 /\ given = 0

IInv ==
  /\ TypeOK
  /\ NoneOutside
  /\ OfRelation
  /\ StillIn
  /\ ~moved => Held

LEMMA InitIInv == Init => IInv
<1> SUFFICES ASSUME Init PROVE IInv
  OBVIOUS
<1>1. TypeOK
  BY UnitsAssumption DEF Init, TypeOK, Stages, Events
<1>2. NoneOutside /\ OfRelation /\ StillIn /\ Held
  BY DEF Init, NoneOutside, OfRelation, StillIn, Held
<1> QED
  BY <1>1, <1>2 DEF IInv

-----------------------------------------------------------------------------
(* Types.                                                                  *)

LEMMA HandledTyped ==
  ASSUME TypeOK, NEW u \in Units, NEW again \in SUBSET Events, Handled(u, again)
  PROVE  /\ changed' \in [Units -> BOOLEAN]
         /\ deferred' \in [Units -> SUBSET Events]
         /\ noticed' \in [Units -> BOOLEAN]
<1>1. (noticed[u] \/ (changed[u] /\ shared)) \in BOOLEAN
  BY DEF TypeOK
<1> QED
  BY <1>1 DEF TypeOK, Handled

LEMMA ConcludeTyped ==
  ASSUME TypeOK, NEW u \in Units, Conclude(u)
  PROVE  /\ changed' \in [Units -> BOOLEAN]
         /\ deferred' \in [Units -> SUBSET Events]
         /\ noticed' \in [Units -> BOOLEAN]
         /\ creds' \in Nat /\ dbInitialised' \in BOOLEAN /\ given' \in Nat
<1>1. Handled(u, {}) /\ creds' \in Nat
  BY DEF TypeOK, Conclude, Credentials
<1> QED
  BY <1>1, HandledTyped DEF TypeOK, Conclude

LEMMA StartsTyped ==
  ASSUME TypeOK, NEW u \in Units, NEW p \in {"starting", "up"}, Starts(u, p)
  PROVE  /\ conf' \in [Units -> Nat] /\ loaded' \in [Units -> Nat]
         /\ proc' \in [Units -> {"down", "starting", "up"}] /\ kept' \subseteq Units
BY DEF TypeOK, Starts

LEMMA AnnounceTyped ==
  ASSUME TypeOK, NEW v \in Nat, Announce(v)
  PROVE  changed' \in [Units -> BOOLEAN] /\ since' \in Nat
<1>1. \A u \in Units : (changed[u] \/ In(u)) \in BOOLEAN
  BY DEF TypeOK
<1> QED
  BY <1>1 DEF Announce

(* Juju and the config-server.                                             *)
LEMMA OutsideTyped ==
  ASSUME TypeOK,
         \/ Relate \/ Unrelate \/ BeginUpgrade \/ EndUpgrade \/ HostsChange
         \/ ShareSecret \/ UpdateConfigServerDb
  PROVE  TypeOK'
<1> USE DEF configServer, events, mongos, client, refresh
<1>1. CASE Relate
  <2>1. stage' \in [Units -> Stages] /\ rel' \in Nat
    BY <1>1 DEF TypeOK, Relate, Stages
  <2> QED
    BY <1>1, <2>1 DEF TypeOK, Relate
<1>2. CASE Unrelate \/ BeginUpgrade
  <2>1. Unrelate => stage' \in [Units -> Stages]
    BY DEF TypeOK, Unrelate, Stages
  <2>2. BeginUpgrade => refused' \in BOOLEAN /\ faults' \in Nat
    BY DEF TypeOK, BeginUpgrade, Fault
  <2> QED
    BY <1>2, <2>1, <2>2 DEF TypeOK, Unrelate, BeginUpgrade
<1>3. CASE HostsChange
  <2>1. changed' \in [Units -> BOOLEAN] /\ since' \in Nat
    BY <1>3, AnnounceTyped DEF HostsChange, TypeOK
  <2> QED
    BY <1>3, <2>1 DEF TypeOK, HostsChange
<1>4. CASE ShareSecret \/ UpdateConfigServerDb
  <2>1. Publish /\ shared' \in BOOLEAN /\ plain' \in BOOLEAN
    BY <1>4 DEF TypeOK, ShareSecret, UpdateConfigServerDb
  <2>2. changed' \in [Units -> BOOLEAN] /\ since' \in Nat
    BY <2>1, AnnounceTyped DEF Publish, TypeOK
  <2>3. related' = related
    BY <2>1 DEF Publish
  <2> QED
    BY <2>1, <2>2, <2>3 DEF TypeOK, Publish
<1>5. CASE EndUpgrade
  <2>1. loaded' \in [Units -> Nat] /\ kept' \subseteq Units
    BY <1>5 DEF TypeOK, EndUpgrade
  <2> QED
    BY <1>5, <2>1 DEF TypeOK, EndUpgrade
<1> QED
  BY <1>1, <1>2, <1>3, <1>4, <1>5

LEMMA UnitTyped ==
  ASSUME TypeOK, NEW u \in Units, Elect(u) \/ UnitStep(u)
  PROVE  TypeOK'
<1> USE DEF configServer, events, mongos, client, refresh
<1>1. CASE Elect(u)
  <2>1. (moved \/ ~Harmless(u)) \in BOOLEAN
    BY DEF TypeOK
  <2> QED
    BY <1>1, <2>1 DEF TypeOK, Elect
<1>2. CASE RelationCreated(u)
  <2>1. (requested \/ u = leader) \in BOOLEAN
    BY DEF TypeOK
  <2> QED
    BY <1>2, <2>1 DEF TypeOK, RelationCreated, Stages
<1>3. CASE Defer(u)
  <2>1. {"changed"} \cup {e \in {"created"} : Created(u)} \in SUBSET Events
    BY DEF Events
  <2> QED
    BY <1>3, <2>1, HandledTyped DEF TypeOK, Defer
<1>4. CASE Skip(u)
  <2>1. creds' \in Nat
    BY <1>4 DEF TypeOK, Skip, Credentials
  <2> QED
    BY <1>4, <2>1, HandledTyped DEF TypeOK, Skip
<1>5. CASE Confirm(u)
  BY <1>5, ConcludeTyped DEF TypeOK, Confirm
<1>6. CASE Restart(u)
  BY <1>6, ConcludeTyped, StartsTyped DEF TypeOK, Restart
<1>7. CASE RestartSlowly(u)
  <2>1. creds' \in Nat /\ faults' \in Nat /\ {"changed"} \in SUBSET Events
    BY <1>7 DEF TypeOK, RestartSlowly, Credentials, Fault, Events
  <2> QED
    BY <1>7, <2>1, HandledTyped, StartsTyped DEF TypeOK, RestartSlowly
<1>8. CASE HookFails(u)
  BY <1>8 DEF TypeOK, HookFails, Fault
<1>9. CASE ComesUp(u) \/ ShareConnectionInfo(u)
  BY <1>9 DEF TypeOK, ComesUp, ShareConnectionInfo
<1>10. CASE RelationBroken(u)
  <2>1. creds' \in Nat /\ given' \in Nat
    BY <1>10 DEF TypeOK, RelationBroken, CleanUp
  <2>2. {e \in {"changed"} \cap deferred[u] : upgrading} \in SUBSET Events
    BY DEF Events
  <2> QED
    BY <1>10, <2>1, <2>2 DEF TypeOK, RelationBroken, Stages
<1> QED
  BY <1>1, <1>2, <1>3, <1>4, <1>5, <1>6, <1>7, <1>8, <1>9, <1>10
     DEF UnitStep, HandleEvents

LEMMA NextTyped == TypeOK /\ [Next]_vars => TypeOK'
<1>1. CASE UNCHANGED vars
  BY <1>1 DEF TypeOK, vars, configServer, events, mongos, client, refresh
<1> QED
  BY <1>1, OutsideTyped, UnitTyped DEF Next

-----------------------------------------------------------------------------
(* A relation comes and goes.                                              *)

LEMMA RelationKeeps ==
  ASSUME IInv, Relate \/ Unrelate
  PROVE  (NoneOutside /\ OfRelation /\ StillIn /\ (~moved => Held))'
<1> USE DEF IInv, TypeOK, Joined, events, mongos, client
<1>1. CASE Relate
  <2>1. \A u \in Units : ~Joined(u)
    BY <1>1 DEF Relate
  <2>2. NoneOutside' /\ OfRelation' /\ StillIn'
    BY <1>1, <2>1 DEF Relate, NoneOutside, OfRelation, StillIn
  <2>3. ~moved => Held'
    BY <1>1, <2>1 DEF Relate, Held
  <2> QED
    BY <1>1, <2>2, <2>3 DEF Relate
<1>2. CASE Unrelate
  <2>1. ASSUME NEW u \in Units
        PROVE  /\ stage[u] \in {"out", "joining", "in"}
               /\ stage'[u] = IF stage[u] = "in" THEN "leaving" ELSE "out"
    BY <1>2 DEF Unrelate, StillIn, Stages
  <2>2. \A u \in Units : /\ Joined(u)' <=> Joined(u)
                         /\ stage'[u] \in {"out", "joining"} =>
                              stage[u] \in {"out", "joining"}
    BY <2>1
  <2>3. NoneOutside' /\ OfRelation' /\ StillIn'
    BY <1>2, <2>2 DEF Unrelate, NoneOutside, OfRelation, StillIn
  <2> QED
    BY <1>2, <2>2, <2>3 DEF Unrelate, Held
<1> QED
  BY <1>1, <1>2

(* Another leader takes over credentials only of a relation it is in.      *)
LEMMA ElectKeeps ==
  ASSUME IInv, NEW u \in Units, Elect(u)
  PROVE  (NoneOutside /\ OfRelation /\ StillIn /\ (~moved => Held))'
<1> USE DEF IInv, TypeOK, Joined, events, mongos, client
<1>1. NoneOutside' /\ OfRelation' /\ StillIn'
  BY DEF Elect, NoneOutside, OfRelation, StillIn
<1>2. ASSUME ~moved' PROVE Held'
  <2>1. ~moved /\ Harmless(u)
    BY <1>2 DEF Elect
  <2> QED
    BY <2>1 DEF Elect, Harmless, Held
<1> QED
  BY <1>1, <1>2

(* The config-server only announces.                                       *)
LEMMA ConfigServerKeeps ==
  ASSUME IInv,
         \/ BeginUpgrade \/ EndUpgrade
         \/ HostsChange \/ ShareSecret \/ UpdateConfigServerDb
  PROVE  (NoneOutside /\ OfRelation /\ StillIn /\ (~moved => Held))'
<1> USE DEF events, mongos, client, refresh
<1>1. UNCHANGED <<rel, related, stage, deferred, proc, leader, creds, given, moved>>
  BY DEF BeginUpgrade, EndUpgrade, HostsChange, ShareSecret, UpdateConfigServerDb, Publish
<1>2. changed' = changed \/ changed' = [u \in Units |-> changed[u] \/ In(u)]
  BY DEF BeginUpgrade, EndUpgrade, HostsChange, ShareSecret, UpdateConfigServerDb, Publish, Announce
<1>3. OfRelation'
  BY <1>1, <1>2 DEF IInv, OfRelation, Joined, In
<1> QED
  BY <1>1, <1>3 DEF IInv, NoneOutside, StillIn, Held, Joined

(* Events are handled: what the leader learns of the relation is of the    *)
(* last one, which it is in.                                               *)
LEMMA CreatedOfRelation ==
  ASSUME IInv, NEW u \in Units
  PROVE  /\ Created(u) => Joined(u)
         /\ Held => \/ Credentials(u) = creds
                    \/ Credentials(u) = rel /\ u = leader /\ Joined(u)
BY DEF IInv, OfRelation, Created, Credentials

LEMMA HandledKeeps ==
  ASSUME IInv, NEW u \in Units, NEW again, Handled(u, again), stage' = stage,
         "created" \in again => Created(u)
  PROVE  OfRelation'
BY CreatedOfRelation DEF IInv, TypeOK, OfRelation, Handled, Joined

LEMMA ConcludeKeeps ==
  ASSUME IInv, NEW u \in Units, Conclude(u), Informed(u), Held,
         UNCHANGED <<rel, stage, leader>>
  PROVE  Held'
<1>1. /\ creds' = Credentials(u)
      /\ given' = given \/ (u = leader /\ given' = creds')
  BY DEF Conclude
<1>2. Joined(u)
  BY DEF Informed
<1> QED
  BY <1>1, <1>2, CreatedOfRelation DEF Held, Joined

LEMMA HandleEventsKeeps ==
  ASSUME IInv, NEW u \in Units, HandleEvents(u)
  PROVE  (NoneOutside /\ OfRelation /\ StillIn /\ (~moved => Held))'
<1> USE DEF configServer, events, mongos, client, refresh
<1>1. UNCHANGED <<rel, related, stage, leader, moved>> /\ StillIn'
  BY DEF HandleEvents, Defer, Skip, Confirm, Restart, RestartSlowly, HookFails, IInv,
         StillIn
<1>2. CASE Defer(u)
  <2>1. OfRelation'
    BY <1>1, <1>2, HandledKeeps DEF Defer
  <2> QED
    BY <1>1, <1>2, <2>1 DEF Defer, IInv, NoneOutside, Held, Joined
<1>3. CASE Skip(u)
  <2>1. OfRelation'
    BY <1>1, <1>3, HandledKeeps DEF Skip
  <2>2. ~moved => Held'
    BY <1>1, <1>3, CreatedOfRelation DEF Skip, IInv, Held, Joined
  <2> QED
    BY <1>1, <1>3, <2>1, <2>2 DEF Skip, IInv, NoneOutside, Joined
<1>4. CASE Confirm(u) \/ Restart(u)
  <2>1. Conclude(u) /\ Informed(u) /\ Handled(u, {})
    BY <1>4 DEF Confirm, Restart, MustRestart, Conclude
  <2>2. OfRelation' /\ (~moved => Held')
    BY <1>1, <2>1, HandledKeeps, ConcludeKeeps DEF IInv
  <2>3. NoneOutside'
    BY <1>1, <1>4, <2>1
       DEF Confirm, Restart, Starts, Informed, IInv, TypeOK, NoneOutside, Joined
  <2> QED
    BY <1>1, <2>2, <2>3
<1>5. CASE RestartSlowly(u)
  <2>1. OfRelation'
    BY <1>1, <1>5, HandledKeeps DEF RestartSlowly
  <2>2. Informed(u) /\ creds' = Credentials(u) /\ given' = given
    BY <1>5 DEF RestartSlowly, MustRestart
  <2>3. ~moved => Held'
    BY <1>1, <2>2, CreatedOfRelation DEF IInv, Held, Informed, Joined
  <2>4. NoneOutside'
    BY <1>1, <1>5, <2>2
       DEF RestartSlowly, Starts, Informed, IInv, TypeOK, NoneOutside, Joined
  <2> QED
    BY <1>1, <2>1, <2>3, <2>4
<1>6. CASE HookFails(u)
  BY <1>1, <1>6 DEF HookFails, IInv, TypeOK, NoneOutside, OfRelation, Held, Joined
<1> QED
  BY <1>2, <1>3, <1>4, <1>5, <1>6 DEF HandleEvents

(* The other hooks, and mongos coming up.                                  *)
LEMMA UnitKeeps ==
  ASSUME IInv, NEW u \in Units,
         \/ RelationCreated(u) \/ ComesUp(u) \/ ShareConnectionInfo(u) \/ RelationBroken(u)
  PROVE  (NoneOutside /\ OfRelation /\ StillIn /\ (~moved => Held))'
<1> USE DEF IInv, TypeOK, Joined, configServer, events, mongos, client
<1>1. CASE RelationCreated(u)
  BY <1>1 DEF RelationCreated, NoneOutside, OfRelation, StillIn, Held
<1>2. CASE ComesUp(u)
  BY <1>2 DEF ComesUp, NoneOutside, OfRelation, StillIn, Held
<1>3. CASE ShareConnectionInfo(u)
  BY <1>3 DEF ShareConnectionInfo, NoneOutside, OfRelation, StillIn, Held
<1>4. CASE RelationBroken(u)
  <2>1. NoneOutside' /\ OfRelation' /\ StillIn'
    BY <1>4 DEF RelationBroken, NoneOutside, OfRelation, StillIn
  <2>2. ~moved => Held'
    BY <1>4 DEF RelationBroken, CleanUp, Held
  <2> QED
    BY <1>4, <2>1, <2>2 DEF RelationBroken
<1> QED
  BY <1>1, <1>2, <1>3, <1>4

LEMMA NextIInv == IInv /\ [Next]_vars => IInv'
<1> SUFFICES ASSUME IInv, [Next]_vars PROVE IInv'
  OBVIOUS
<1>1. TypeOK'
  BY NextTyped DEF IInv
<1>2. CASE UNCHANGED vars
  BY <1>1, <1>2
     DEF IInv, NoneOutside, OfRelation, StillIn, Held, Joined, vars, events, mongos,
         client
<1>3. CASE Next
  BY <1>1, <1>3, RelationKeeps, ElectKeeps, ConfigServerKeeps, HandleEventsKeeps,
  UnitKeeps
     DEF Next, UnitStep, IInv
<1> QED
  BY <1>2, <1>3

-----------------------------------------------------------------------------
(* The relation, the units, what they have written and what the client is  *)
(* given keep their types.                                                 *)
THEOREM TypeCorrect == Spec => []TypeOK
BY InitIInv, NextTyped, PTL DEF Spec, IInv

(* No mongos runs on a unit that is in no relation, whatever it deferred.  *)
THEOREM NoneOutsideAlways == Spec => []NoneOutside
<1>1. IInv => NoneOutside
  BY DEF IInv
<1> QED
  BY <1>1, InitIInv, NextIInv, PTL DEF Spec

(* Application and client hold credentials of the last relation only, and  *)
(* none once it is gone, unless the leader changed at the wrong moment.    *)
THEOREM CredentialsAlwaysCurrent == Spec => []CredentialsCurrent
<1>1. IInv => CredentialsCurrent
  BY DEF IInv, TypeOK, Held, CredentialsCurrent
<1> QED
  BY <1>1, InitIInv, NextIInv, PTL DEF Spec

-----------------------------------------------------------------------------
(* No event is lost that a router or the client still needs.               *)

(* What relation-changed found in the databag is no later than what is     *)
(* there, which the routers asked for before it was shared.                *)
DatabagOK ==
  /\ since <= uri /\ uri <= hosts /\ hosts # 0
  /\ shared => requested /\ uri # 0

(* mongos runs with what was written last, unless it was not stopped then. *)
WrittenIsLoaded ==
  \A u \in Units : proc[u] # "down" /\ u \notin kept => loaded[u] = conf[u]

(* Credentials are seen to come only in a relation that holds them.        *)
SeenShared ==
  \A u \in Units : noticed[u] \/ "created" \in deferred[u] => Joined(u) /\ shared

(* database-created is deferred with the relation-changed it came with.    *)
TogetherDeferred ==
  \A u \in Units : "created" \in deferred[u] => "changed" \in deferred[u]

(* A relation that stays is one that units join or are in.                 *)
OnTheirWay == related => rel # 0 /\ \A u \in Units : stage[u] \in {"joining", "in"}

(* relation-changed is before the unit, or deferred by it.                 *)
ChangeToCome(u) == changed[u] \/ "changed" \in deferred[u]

(* A router that is not up, or has not written what the last               *)
(* relation-changed found, has one to come.                                *)
NoChangeMissed ==
  \A u \in Units : In(u) /\ shared =>
    ChangeToCome(u) \/ (proc[u] = "up" /\ conf[u] >= since)

(* The credentials are to be shared, or the leader to be told of them, or  *)
(* it has them and an event or a later hook with which it passes them on.  *)
InHand ==
  \/ ~shared
  \/ creds = 0 /\ Created(leader)
  \/ creds = rel /\ (dbInitialised \/ ChangeToCome(leader))

(* What gives the client its credentials is still to be done, or the       *)
(* leader of the routers still has to join.                                *)
ConnectionToCome ==
  related /\ ~moved /\ given # rel =>
    /\ given = 0
    /\ stage[leader] = "joining" \/ (In(leader) /\ requested /\ InHand)

Sound == DatabagOK /\ WrittenIsLoaded /\ SeenShared /\ TogetherDeferred /\ OnTheirWay

WakeInv == IInv /\ Sound /\ NoChangeMissed /\ ConnectionToCome

LEMMA InitWakeInv == Init => WakeInv
<1> SUFFICES ASSUME Init PROVE WakeInv
  OBVIOUS
<1>1. Sound /\ NoChangeMissed /\ ConnectionToCome
  BY DEF Init, Sound, DatabagOK, WrittenIsLoaded, SeenShared, TogetherDeferred,
         OnTheirWay,
         NoChangeMissed, ConnectionToCome, InHand, In
<1> QED
  BY <1>1, InitIInv DEF WakeInv

(* Handling events changes what was seen and deferred of one unit only.    *)
LEMMA HandledSeen ==
  ASSUME IInv, SeenShared, NEW u \in Units, NEW again, Handled(u, again),
         UNCHANGED <<stage, shared>>, "created" \in again => Created(u)
  PROVE  SeenShared'
<1>1. Created(u) \/ (changed[u] /\ shared) => Joined(u) /\ shared
  BY DEF IInv, OfRelation, SeenShared, Created
<1>2. /\ noticed'[u] => Joined(u) /\ shared
      /\ "created" \in deferred'[u] => Joined(u) /\ shared
  BY <1>1 DEF Handled, IInv, TypeOK, SeenShared
<1>3. \A v \in Units \ {u} : noticed'[v] = noticed[v] /\ deferred'[v] = deferred[v]
  BY DEF Handled, IInv, TypeOK
<1> QED
  BY <1>2, <1>3 DEF SeenShared, Joined

LEMMA RelationSound ==
  ASSUME WakeInv, Relate \/ Unrelate
  PROVE  Sound'
<1> USE DEF WakeInv, IInv, TypeOK, Sound, events, mongos, client, refresh, configServer
<1>1. CASE Relate
  <2>1. \A u \in Units : ~noticed[u] /\ "created" \notin deferred[u]
    BY <1>1 DEF Relate, SeenShared, Joined
  <2>2. SeenShared' /\ TogetherDeferred' /\ OnTheirWay' /\ WrittenIsLoaded'
    BY <1>1, <2>1 DEF Relate, SeenShared, TogetherDeferred, OnTheirWay, WrittenIsLoaded
  <2>3. DatabagOK'
    BY <1>1 DEF Relate, DatabagOK
  <2> QED
    BY <2>2, <2>3
<1>2. CASE Unrelate
  <2>1. \A u \in Units : Joined(u) => Joined(u)'
    BY <1>2 DEF Unrelate, StillIn, Joined
  <2>2. SeenShared'
    BY <1>2, <2>1 DEF Unrelate, SeenShared
  <2> QED
    BY <1>2, <2>2 DEF Unrelate, DatabagOK, WrittenIsLoaded, TogetherDeferred, OnTheirWay
<1> QED
  BY <1>1, <1>2

(* A refresh restarts mongos with what is written.                         *)
LEMMA UpgradeSound ==
  ASSUME WakeInv, BeginUpgrade \/ EndUpgrade
  PROVE  Sound'
<1> USE DEF WakeInv, IInv, TypeOK, Sound, events, mongos, client, refresh, configServer
<1>1. WrittenIsLoaded'
  BY DEF BeginUpgrade, EndUpgrade, WrittenIsLoaded
<1> QED
  BY <1>1 DEF BeginUpgrade, EndUpgrade, DatabagOK, SeenShared, TogetherDeferred,
              OnTheirWay, Joined

LEMMA ConfigServerSound ==
  ASSUME WakeInv, HostsChange \/ ShareSecret \/ UpdateConfigServerDb
  PROVE  Sound'
<1> USE DEF WakeInv, IInv, TypeOK, Sound, events, mongos, client, refresh, configServer
<1>1. UNCHANGED <<rel, related, stage, deferred, noticed, proc, conf, loaded, kept, requested>>
  BY DEF HostsChange, ShareSecret, UpdateConfigServerDb, Publish
<1>2. /\ shared => shared'
      /\ DatabagOK'
  BY DEF HostsChange, ShareSecret, UpdateConfigServerDb, Publish, Announce,
         DatabagOK
<1>3. SeenShared'
  BY <1>1, <1>2 DEF SeenShared, Joined
<1> QED
  BY <1>1, <1>2, <1>3 DEF WrittenIsLoaded, TogetherDeferred, OnTheirWay

LEMMA UnitSound ==
  ASSUME WakeInv, NEW u \in Units, Elect(u) \/ UnitStep(u)
  PROVE  Sound'
<1> USE DEF WakeInv, IInv, TypeOK, Sound, events, mongos, client, refresh, configServer
<1>1. CASE Elect(u) \/ ShareConnectionInfo(u)
  BY <1>1 DEF Elect, ShareConnectionInfo, DatabagOK, WrittenIsLoaded, SeenShared,
              TogetherDeferred, OnTheirWay, Joined
<1>2. CASE RelationCreated(u)
  BY <1>2 DEF RelationCreated, DatabagOK, WrittenIsLoaded, SeenShared,
              TogetherDeferred, OnTheirWay, Joined
<1>3. CASE ComesUp(u)
  BY <1>3 DEF ComesUp, DatabagOK, WrittenIsLoaded, SeenShared, TogetherDeferred,
              OnTheirWay, Joined
<1>4. CASE RelationBroken(u)
  <2>1. ~related
    BY <1>4 DEF RelationBroken, StillIn
  <2>2. SeenShared'
    BY <1>4 DEF RelationBroken, SeenShared, Joined
  <2> QED
    BY <1>4, <2>1, <2>2 
       DEF RelationBroken, DatabagOK, WrittenIsLoaded, TogetherDeferred, OnTheirWay
<1>5. CASE HandleEvents(u)
  <2>1. UNCHANGED <<rel, related, hosts, requested, shared, uri, since, stage>>
    BY <1>5 DEF HandleEvents, Defer, Skip, Confirm, Restart, RestartSlowly, HookFails
  <2>2. DatabagOK' /\ OnTheirWay'
    BY <2>1 DEF DatabagOK, OnTheirWay
  <2>3. SeenShared'
    <3>1. CASE Defer(u)
      BY <2>1, <3>1, HandledSeen DEF Defer
    <3>2. CASE Skip(u)
      BY <2>1, <3>2, HandledSeen DEF Skip
    <3>3. CASE Confirm(u) \/ Restart(u)
      BY <2>1, <3>3, HandledSeen DEF Confirm, Restart, Conclude
    <3>4. CASE RestartSlowly(u)
      BY <2>1, <3>4, HandledSeen DEF RestartSlowly
    <3>5. CASE HookFails(u)
      BY <2>1, <3>5 DEF HookFails, SeenShared, Joined
    <3> QED
      BY <1>5, <3>1, <3>2, <3>3, <3>4, <3>5 DEF HandleEvents
  <2>4. WrittenIsLoaded'
    BY <1>5 DEF HandleEvents, Defer, Skip, Confirm, Restart, RestartSlowly, HookFails,
                MustRestart, Starts, WrittenIsLoaded
  <2>5. TogetherDeferred'
    BY <1>5 DEF HandleEvents, Defer, Skip, Confirm, Restart, RestartSlowly, HookFails,
                Conclude, Handled, TogetherDeferred
  <2> QED
    BY <2>2, <2>3, <2>4, <2>5
<1> QED
  BY <1>1, <1>2, <1>3, <1>4, <1>5 DEF UnitStep

LEMMA NextSound == WakeInv /\ [Next]_vars => Sound'
<1> SUFFICES ASSUME WakeInv, [Next]_vars PROVE Sound'
  OBVIOUS
<1>1. CASE UNCHANGED vars
  BY <1>1 DEF WakeInv, Sound, DatabagOK, WrittenIsLoaded, SeenShared, TogetherDeferred,
              OnTheirWay, Joined,
              vars, events, mongos, client, refresh, configServer
<1>2. CASE Next
  BY <1>2, RelationSound, UpgradeSound, ConfigServerSound, UnitSound DEF Next, UnitStep
<1> QED
  BY <1>1, <1>2

(* A unit's handler, or mongos coming up, changes this for that unit only. *)
OthersKept(u) ==
  \A v \in Units \ {u} :
    /\ changed'[v] = changed[v] /\ deferred'[v] = deferred[v]
    /\ proc'[v] = proc[v] /\ conf'[v] = conf[v]

LEMMA NoChangeMissedByOthers ==
  ASSUME WakeInv, NEW u \in Units, OthersKept(u), UNCHANGED <<shared, since>>,
         \A v \in Units \ {u} : stage'[v] = stage[v],
         In(u)' /\ shared =>
           ChangeToCome(u)' \/ (proc'[u] = "up" /\ conf'[u] >= since)
  PROVE  NoChangeMissed'
BY DEF WakeInv, NoChangeMissed, OthersKept, In, ChangeToCome

LEMMA HandledOthers ==
  ASSUME TypeOK, NEW u \in Units, NEW again, Handled(u, again)
  PROVE  /\ \A v \in Units \ {u} : changed'[v] = changed[v] /\ deferred'[v] = deferred[v]
         /\ deferred'[u] = again
BY DEF TypeOK, Handled

LEMMA RelationMisses ==
  ASSUME WakeInv,
         \/ Relate \/ Unrelate \/ BeginUpgrade \/ EndUpgrade \/ HostsChange
         \/ ShareSecret \/ UpdateConfigServerDb
  PROVE  NoChangeMissed'
<1> USE DEF WakeInv, IInv, TypeOK, events, mongos, client, refresh, configServer, In, ChangeToCome
<1>1. CASE Relate \/ Unrelate
  BY <1>1 DEF Relate, Unrelate, NoChangeMissed
<1>2. CASE BeginUpgrade \/ EndUpgrade
  BY <1>2 DEF BeginUpgrade, EndUpgrade, NoChangeMissed
<1>3. CASE HostsChange \/ ShareSecret \/ UpdateConfigServerDb
  <2>1. UNCHANGED <<stage, deferred, proc, conf>>
    BY <1>3 DEF HostsChange, ShareSecret, UpdateConfigServerDb, Publish
  <2>2. \/ UNCHANGED <<changed, since, shared>>
        \/ \A u \in Units : In(u) => changed'[u]
    BY <1>3 DEF HostsChange, ShareSecret, UpdateConfigServerDb, Publish, Announce
  <2> QED
    BY <2>1, <2>2 DEF NoChangeMissed
<1> QED
  BY <1>1, <1>2, <1>3

(* An event that is done with leaves mongos with what the databag holds.   *)
LEMMA HandleEventsMisses ==
  ASSUME WakeInv, NEW u \in Units, HandleEvents(u)
  PROVE  NoChangeMissed'
<1> USE DEF configServer, events, mongos, client, refresh
<1> TypeOK /\ Sound
  BY DEF WakeInv, IInv
<1>1. UNCHANGED <<shared, since, uri, stage>>
  BY DEF HandleEvents, Defer, Skip, Confirm, Restart, RestartSlowly, HookFails
<1>2. ASSUME NEW again, Handled(u, again), "changed" \in again,
             \/ UNCHANGED <<proc, conf>>
             \/ Starts(u, "starting")
      PROVE  NoChangeMissed'
  <2>1. OthersKept(u)
    BY <1>2, HandledOthers DEF OthersKept, Starts, TypeOK
  <2>2. ChangeToCome(u)'
    BY <1>2, HandledOthers DEF ChangeToCome
  <2> QED
    BY <1>1, <2>1, <2>2, NoChangeMissedByOthers
<1>3. CASE Defer(u)
  BY <1>2, <1>3 DEF Defer
<1>4. CASE Skip(u)
  <2>1. ~(In(u) /\ shared)
    BY <1>4 DEF Skip, Informed, Joined, In, Sound, DatabagOK
  <2>2. OthersKept(u)
    BY <1>4, HandledOthers DEF OthersKept, Skip
  <2> QED
    BY <1>1, <2>1, <2>2, NoChangeMissedByOthers DEF In
<1>5. CASE Confirm(u)
  <2>1. OthersKept(u)
    BY <1>5, HandledOthers DEF OthersKept, Confirm, Conclude
  <2>2. proc[u] = "up" /\ conf[u] >= since
    BY <1>5 DEF Confirm, Fits, Sound, DatabagOK, TypeOK
  <2>3. UNCHANGED <<proc, conf>>
    BY <1>5 DEF Confirm
  <2> QED
    BY <1>1, <2>1, <2>2, <2>3, NoChangeMissedByOthers
<1>6. CASE Restart(u)
  <2>1. OthersKept(u)
    BY <1>6, HandledOthers DEF OthersKept, Restart, Conclude, Starts, TypeOK
  <2>2. proc'[u] = "up" /\ conf'[u] >= since
    BY <1>6 DEF Restart, Starts, Sound, DatabagOK, TypeOK
  <2> QED
    BY <1>1, <2>1, <2>2, NoChangeMissedByOthers
<1>7. CASE RestartSlowly(u)
  BY <1>2, <1>7 DEF RestartSlowly
<1>8. CASE HookFails(u)
  <2>1. OthersKept(u) /\ UNCHANGED <<changed, deferred>>
    BY <1>8 DEF OthersKept, HookFails, TypeOK
  <2>2. ChangeToCome(u)
    BY <1>8 DEF HookFails, MustRestart, HasEvents, ChangeToCome, TypeOK, Events, Sound,
                TogetherDeferred
  <2> QED
    BY <1>1, <2>1, <2>2, NoChangeMissedByOthers DEF ChangeToCome
<1> QED
  BY <1>3, <1>4, <1>5, <1>6, <1>7, <1>8 DEF HandleEvents

LEMMA UnitMisses ==
  ASSUME WakeInv, NEW u \in Units, Elect(u) \/ UnitStep(u)
  PROVE  NoChangeMissed'
<1> USE DEF configServer, events, mongos, client, refresh
<1> TypeOK
  BY DEF WakeInv, IInv
<1>1. CASE Elect(u) \/ ShareConnectionInfo(u)
  BY <1>1 DEF Elect, ShareConnectionInfo, WakeInv, NoChangeMissed, In, ChangeToCome
<1>2. CASE RelationCreated(u)
  <2>1. OthersKept(u) /\ ChangeToCome(u)' /\ UNCHANGED <<shared, since>>
    BY <1>2 DEF RelationCreated, OthersKept, ChangeToCome, TypeOK
  <2> QED
    BY <1>2, <2>1, NoChangeMissedByOthers DEF RelationCreated, TypeOK
<1>3. CASE ComesUp(u)
  BY <1>3 DEF ComesUp, WakeInv, NoChangeMissed, In, ChangeToCome, TypeOK
<1>4. CASE RelationBroken(u)
  <2>1. OthersKept(u) /\ UNCHANGED <<shared, since>>
    BY <1>4 DEF RelationBroken, OthersKept, TypeOK
  <2>2. ~In(u)'
    BY <1>4 DEF RelationBroken, In, TypeOK
  <2> QED
    BY <1>4, <2>1, <2>2, NoChangeMissedByOthers DEF RelationBroken, TypeOK
<1> QED
  BY <1>1, <1>2, <1>3, <1>4, HandleEventsMisses DEF UnitStep

-----------------------------------------------------------------------------
(* What the client waits for.                                              *)

LEMMA RelationConnects ==
  ASSUME WakeInv, Relate \/ Unrelate \/ BeginUpgrade \/ EndUpgrade
  PROVE  ConnectionToCome'
<1> USE DEF WakeInv, IInv, TypeOK, Sound, events, mongos, client, refresh, configServer
<1>1. CASE Relate
  <2>1. ~moved => given = 0
    BY <1>1, UnitsAssumption DEF Relate, Held
  <2> QED
    BY <1>1, <2>1, UnitsAssumption DEF Relate, ConnectionToCome, InHand
<1>2. CASE Unrelate
  BY <1>2 DEF Unrelate, ConnectionToCome, InHand
<1>3. CASE BeginUpgrade \/ EndUpgrade
  BY <1>3 DEF BeginUpgrade, EndUpgrade, ConnectionToCome, InHand, In, Created, ChangeToCome
<1> QED
  BY <1>1, <1>2, <1>3

LEMMA ConfigServerConnects ==
  ASSUME WakeInv, HostsChange \/ ShareSecret \/ UpdateConfigServerDb
  PROVE  ConnectionToCome'
<1> USE DEF WakeInv, IInv, TypeOK, Sound, events, mongos, client, refresh, configServer
<1> SUFFICES ASSUME related, ~moved, given # rel
             PROVE  ConnectionToCome'
  BY DEF HostsChange, ShareSecret, UpdateConfigServerDb, Publish, ConnectionToCome, InHand
<1>1. /\ UNCHANGED <<rel, related, stage, leader, deferred, noticed, creds, given,
                     dbInitialised, requested, moved>>
      /\ \A u \in Units : changed[u] => changed'[u]
  BY DEF HostsChange, ShareSecret, UpdateConfigServerDb, Publish, Announce
<1>2. given = 0 /\ (stage[leader] = "joining" \/ (In(leader) /\ requested /\ InHand))
  BY DEF ConnectionToCome, InHand
<1>3. CASE stage[leader] = "joining"
  BY <1>1, <1>2, <1>3 DEF ConnectionToCome, InHand
<1>4. CASE In(leader) /\ requested /\ InHand
  <2>1. CASE shared
    <3>1. shared'
      BY <2>1 DEF HostsChange, ShareSecret, UpdateConfigServerDb, Publish
    <3> QED
      BY <1>1, <1>2, <1>4, <2>1, <3>1
         DEF ConnectionToCome, InHand, In, Created, ChangeToCome
  <2>2. CASE ~shared /\ ~shared'
    BY <1>1, <1>2, <1>4, <2>2 DEF ConnectionToCome, InHand, In
  <2>3. CASE ~shared /\ shared'
    <3>1. changed'[leader]
      BY <1>4, <2>3
         DEF HostsChange, ShareSecret, UpdateConfigServerDb, Publish, Announce
    <3>2. creds \in {0, rel} /\ ~noticed[leader]
      BY <2>3 DEF Held, SeenShared
    <3> QED
      BY <1>1, <1>2, <1>4, <2>3, <3>1, <3>2
         DEF ConnectionToCome, InHand, In, Created, ChangeToCome
  <2> QED
    BY <2>1, <2>2, <2>3
<1> QED
  BY <1>2, <1>3, <1>4

(* A new leader is in the relation with nothing yet done of it, or the     *)
(* client has what it needs.                                               *)
LEMMA ElectConnects ==
  ASSUME WakeInv, NEW u \in Units, Elect(u)
  PROVE  ConnectionToCome'
<1> USE DEF WakeInv, IInv, TypeOK, Sound, events, mongos, client, refresh, configServer
<1> SUFFICES ASSUME related, ~moved', given # rel
             PROVE  ConnectionToCome'
  BY DEF Elect, ConnectionToCome, InHand
<1>1. ~moved /\ Harmless(u)
  BY DEF Elect
<1>2. \A v \in Units : stage[v] = "joining"
  BY <1>1 DEF Harmless, OnTheirWay
<1> QED
  BY <1>1, <1>2 DEF Elect, ConnectionToCome, InHand

(* Events that are handled leave the client with its credentials, or the   *)
(* leader with an event.                                                   *)
LEMMA HandleEventsConnects ==
  ASSUME WakeInv, NEW u \in Units, HandleEvents(u)
  PROVE  ConnectionToCome'
<1> USE DEF configServer, events, mongos, client, refresh
<1> TypeOK /\ Sound /\ OfRelation
  BY DEF WakeInv, IInv
<1>1. UNCHANGED <<rel, related, requested, shared, uri, stage, leader, moved>>
  BY DEF HandleEvents, Defer, Skip, Confirm, Restart, RestartSlowly, HookFails
<1> SUFFICES ASSUME related, ~moved, given # rel
             PROVE  ConnectionToCome'
  BY <1>1, CreatedOfRelation DEF WakeInv, IInv, HandleEvents, Defer, Skip, Confirm,
     Restart, RestartSlowly, HookFails, Conclude, ConnectionToCome, InHand, Held
<1>2. given = 0 /\ (stage[leader] = "joining" \/ (In(leader) /\ requested /\ InHand))
  BY DEF WakeInv, ConnectionToCome, InHand
<1>3. creds \in {0, rel} /\ rel # 0
  BY DEF WakeInv, IInv, Held, Sound, OnTheirWay
<1>4. CASE u # leader
  <2>1. UNCHANGED <<creds, given, dbInitialised>>
    BY <1>4 DEF HandleEvents, Defer, Skip, Confirm, Restart, RestartSlowly, HookFails,
                Conclude, Credentials
  <2>2. /\ changed'[leader] = changed[leader] /\ deferred'[leader] = deferred[leader]
        /\ noticed'[leader] = noticed[leader]
    BY <1>4 DEF HandleEvents, Defer, Skip, Confirm, Restart, RestartSlowly, HookFails,
                Conclude, Handled, TypeOK
  <2> QED
    BY <1>1, <1>2, <2>1, <2>2 DEF ConnectionToCome, InHand, In, Created, ChangeToCome
<1>5. CASE u = leader /\ stage[u] = "joining"
  <2>1. ~Informed(u) /\ given' = given
    BY <1>5 DEF HandleEvents, Defer, Skip, Confirm, Restart, RestartSlowly, HookFails,
                MustRestart, Informed, Joined
  <2> QED
    BY <1>1, <1>2, <1>5, <2>1 DEF ConnectionToCome, InHand
<1>6. CASE u = leader /\ In(u) /\ requested /\ InHand
  <2>1. CASE Defer(u)
    <3>1. /\ "changed" \in deferred'[u]
          /\ Created(u) => "created" \in deferred'[u]
          /\ UNCHANGED <<creds, given, dbInitialised>>
      BY <2>1 DEF Defer, Handled, TypeOK
    <3> QED
      BY <1>1, <1>2, <1>6, <3>1 DEF ConnectionToCome, InHand, In, Created, ChangeToCome
  <2>2. CASE Skip(u)
    <3>1. ~shared /\ given' = given
      BY <1>6, <2>2 DEF Skip, Informed, Joined, In, Sound, DatabagOK
    <3> QED
      BY <1>1, <1>2, <1>6, <3>1 DEF ConnectionToCome, InHand, In
  <2>3. ASSUME Informed(u), creds' = Credentials(u) PROVE creds' = rel
    BY <1>3, <1>6, <2>3 DEF Informed, InHand, Credentials
  <2>4. CASE Confirm(u) \/ Restart(u)
    <3>1. Informed(u) /\ Conclude(u)
      BY <2>4 DEF Confirm, Restart, MustRestart
    <3>2. given' = rel
      BY <1>2, <1>6, <2>3, <3>1 DEF Conclude
    <3> QED
      BY <1>1, <3>2 DEF ConnectionToCome, InHand
  <2>5. CASE RestartSlowly(u)
    <3>1. creds' = rel /\ given' = given /\ "changed" \in deferred'[u]
      BY <2>3, <2>5 DEF RestartSlowly, MustRestart, Handled, TypeOK
    <3> QED
      BY <1>1, <1>2, <1>6, <3>1 DEF ConnectionToCome, InHand, In, ChangeToCome
  <2>6. CASE HookFails(u)
    BY <1>1, <1>2, <1>6, <2>6
       DEF HookFails, ConnectionToCome, InHand, In, Created, ChangeToCome
  <2> QED
    BY <2>1, <2>2, <2>4, <2>5, <2>6 DEF HandleEvents
<1> QED
  BY <1>2, <1>4, <1>5, <1>6

LEMMA UnitConnects ==
  ASSUME WakeInv, NEW u \in Units, UnitStep(u)
  PROVE  ConnectionToCome'
<1> USE DEF configServer, events, mongos, client, refresh
<1> TypeOK /\ Sound /\ ConnectionToCome
  BY DEF WakeInv, IInv
<1>1. CASE RelationCreated(u)
  <2>1. UNCHANGED <<rel, related, shared, leader, deferred, noticed, creds, given,
                    dbInitialised, moved>>
    BY <1>1 DEF RelationCreated
  <2>2. \A v \in Units : changed[v] => changed'[v]
    BY <1>1 DEF RelationCreated, TypeOK
  <2>3. u # leader => stage'[leader] = stage[leader] /\ requested' = requested
    BY <1>1 DEF RelationCreated, TypeOK
  <2>4. u = leader => In(leader)' /\ requested' /\ changed'[leader] /\ ~noticed[leader]
    BY <1>1 DEF RelationCreated, TypeOK, In, Sound, SeenShared, Joined
  <2>5. u = leader /\ ~moved => creds = 0 /\ given = 0
    BY <1>1 DEF RelationCreated, WakeInv, IInv, Held
  <2> QED
    BY <2>1, <2>2, <2>3, <2>4, <2>5 DEF ConnectionToCome, InHand, In, Created,
                                        ChangeToCome, TypeOK
<1>2. CASE ComesUp(u)
  BY <1>2 DEF ComesUp, ConnectionToCome, InHand, In, Created, ChangeToCome
<1>3. CASE ShareConnectionInfo(u)
  <2>1. ~moved => given' = rel
    BY <1>3 DEF ShareConnectionInfo, WakeInv, IInv, Held
  <2> QED
    BY <1>3, <2>1 DEF ShareConnectionInfo, ConnectionToCome, InHand
<1>4. CASE RelationBroken(u)
  BY <1>4 DEF RelationBroken, WakeInv, IInv, StillIn, ConnectionToCome, InHand
<1> QED
  BY <1>1, <1>2, <1>3, <1>4, HandleEventsConnects DEF UnitStep

LEMMA NextWakeInv == WakeInv /\ [Next]_vars => WakeInv'
<1> SUFFICES ASSUME WakeInv, [Next]_vars PROVE WakeInv'
  OBVIOUS
<1>1. IInv' /\ Sound'
  BY NextIInv, NextSound DEF WakeInv
<1>2. CASE UNCHANGED vars
  BY <1>1, <1>2 DEF WakeInv, NoChangeMissed, ConnectionToCome, InHand, In, Created,
                    ChangeToCome,
                    vars, events, mongos, client, refresh, configServer
<1>3. CASE Next
  <2>1. NoChangeMissed'
    BY <1>3, RelationMisses, UnitMisses DEF Next
  <2>2. ConnectionToCome'
    BY <1>3, RelationConnects, ConfigServerConnects, ElectConnects, UnitConnects DEF Next
  <2> QED
    BY <1>1, <2>1, <2>2 DEF WakeInv
<1> QED
  BY <1>2, <1>3

(* No change of the credentials or the URI passes a router by: one that is *)
(* not up, or has not written what it last found there, has a              *)
(* relation-changed before it or deferred; and mongos runs with what was   *)
(* written, but for one that could not be stopped.                         *)
THEOREM NoChangeMissedAlways == Spec => [](NoChangeMissed /\ WrittenIsLoaded)
<1>1. WakeInv => NoChangeMissed /\ WrittenIsLoaded
  BY DEF WakeInv, Sound
<1> QED
  BY <1>1, InitWakeInv, NextWakeInv, PTL DEF Spec

(* As long as the client of a relation that stays has no credentials, the  *)
(* step that brings them on is there: a hook that joins, an answer of the  *)
(* config-server, an event of the leader's or one of its periodic hooks.   *)
THEOREM ConnectionAlwaysToCome == Spec => []ConnectionToCome
<1>1. WakeInv => ConnectionToCome
  BY DEF WakeInv
<1> QED
  BY <1>1, InitWakeInv, NextWakeInv, PTL DEF Spec
=============================================================================
