-------------------------- MODULE ReplicaSetProofs --------------------------
(***************************************************************************)
(* Safety of the changes of a replica set's configuration, for any units   *)
(* and any bounds; that the set keeps a leader and a majority, and takes   *)
(* the changes that nobody overtook.                                       *)
(***************************************************************************)
EXTENDS ReplicaSet, FiniteSetTheorems, TLAPS

(* What a unit adds or removes is what its hook is for.                    *)
HookOK(u) ==
  /\ hook[u] = "none" => step[u] = "list" /\ targets[u] = {}
  /\ hook[u] = "leaving" => life[u] = "detaching" /\ targets[u] \subseteq {u}
  /\ hook[u] \in {"removing", "healing"} => targets[u] \cap hosts[u] = {}
  /\ step[u] \in {"read", "checked"} => target[u] \in targets[u]

(* A configuration that MongoDB would still accept is the one it has, and  *)
(* one that was checked for an addition was checked against those that     *)
(* still join.                                                             *)
ReadOK(u) ==
  /\ read_version[u] <= version
  /\ step[u] \in {"read", "checked"} /\ read_version[u] = version
       => read_members[u] = members
  /\ step[u] = "checked" /\ hook[u] = "adding" /\ read_version[u] = version
       => joining = {}

SetOK ==
  /\ joining \subseteq members \cap syncing \cap up
  /\ version = 0 => members = {}

IInv == TypeOK /\ SetOK /\ OneJoining /\ \A u \in Units : HookOK(u) /\ ReadOK(u)

HooksTypeOK ==
  /\ life \in [Units -> {"absent", "alive", "dying", "detaching", "detached", "gone"}]
  /\ hook \in [Units -> {"none", "adding", "removing", "healing", "leaving"}]
  /\ hosts \in [Units -> SUBSET Units] /\ targets \in [Units -> SUBSET Units]
  /\ step \in [Units -> {"list", "pick", "read", "checked"}]
  /\ target \in [Units -> Units \cup {Nobody}]
  /\ read_version \in [Units -> Nat]
  /\ read_members \in [Units -> SUBSET Units]

(* The hook of u is what it was, to the eyes of the other units' hooks.    *)
OthersKept(u) ==
  \A w \in Units \ {u} :
    /\ life'[w] = life[w] /\ hook'[w] = hook[w] /\ hosts'[w] = hosts[w]
    /\ targets'[w] = targets[w] /\ step'[w] = step[w] /\ target'[w] = target[w]
    /\ read_version'[w] = read_version[w] /\ read_members'[w] = read_members[w]

(* A unit has gone to another target, to the end of its hook or to another *)
(* attempt: it holds no configuration any more.                            *)
MovedOn(u) ==
  /\ HooksTypeOK' /\ OthersKept(u) /\ HookOK(u)'
  /\ step'[u] \in {"pick", "list"} /\ read_version'[u] = 0

-----------------------------------------------------------------------------
(* The initial state: no hook runs and there is no set.                    *)
LEMMA InitIInv == Init => IInv
<1> SUFFICES ASSUME Init PROVE IInv
  OBVIOUS
<1> USE UnitsAssumption, BoundsAssumption DEF Init
<1>1. TypeOK
  <2>1. HooksTypeOK
    BY DEF HooksTypeOK
  <2>2. /\ leader \in Units /\ starting \subseteq Units /\ initialised \in BOOLEAN
        /\ members \subseteq Units /\ up \subseteq Units
        /\ syncing \subseteq Units /\ joining \subseteq Units
    OBVIOUS
  <2>3. version \in Nat /\ primary \in Units \cup {Nobody}
    OBVIOUS
  <2>4. elections \in 0..MaxElections /\ failures \in 0..MaxFailures
    OBVIOUS
  <2> QED
    BY <2>1, <2>2, <2>3, <2>4, Zenon DEF TypeOK, HooksTypeOK
<1>2. SetOK /\ OneJoining
  BY DEF SetOK, OneJoining
<1>3. \A u \in Units : HookOK(u) /\ ReadOK(u)
  BY DEF HookOK, ReadOK
<1> QED
  BY <1>1, <1>2, <1>3 DEF IInv

(* A hook that goes on in its loop.                                        *)
LEMMA LoopMoves ==
  ASSUME HooksTypeOK, NEW u \in Units, NEW S \in SUBSET Units,
         HookOK(u), hook[u] # "none", Loop(u, hook[u], S),
         hook[u] \in {"removing", "healing"} => S \cap hosts[u] = {},
         hook[u] = "leaving" => S \subseteq {u}
  PROVE  MovedOn(u)
<1>1. CASE S # {}
  <2>1. HooksTypeOK'
    BY <1>1 DEF Loop, Forget, HooksTypeOK
  <2>2. OthersKept(u)
    BY <1>1 DEF Loop, Forget, HooksTypeOK, OthersKept
  <2>3. HookOK(u)' /\ step'[u] \in {"pick", "list"} /\ read_version'[u] = 0
    BY <1>1 DEF Loop, Forget, HooksTypeOK, HookOK
  <2> QED
    BY <2>1, <2>2, <2>3 DEF MovedOn
<1>2. CASE S = {} /\ hook[u] = "healing"
  <2>1. HooksTypeOK'
    BY <1>2 DEF Loop, Forget, HooksTypeOK
  <2>2. OthersKept(u)
    BY <1>2 DEF Loop, Forget, HooksTypeOK, OthersKept
  <2>3. HookOK(u)' /\ step'[u] \in {"pick", "list"} /\ read_version'[u] = 0
    BY <1>2 DEF Loop, Forget, HooksTypeOK, HookOK
  <2> QED
    BY <2>1, <2>2, <2>3 DEF MovedOn
<1>3. CASE S = {} /\ hook[u] # "healing"
  <2>1. HooksTypeOK'
    BY <1>3 DEF Loop, EndHook, Forget, HooksTypeOK
  <2>2. OthersKept(u)
    BY <1>3 DEF Loop, EndHook, Forget, HooksTypeOK, OthersKept
  <2>3. HookOK(u)' /\ step'[u] \in {"pick", "list"} /\ read_version'[u] = 0
    BY <1>3 DEF Loop, EndHook, Forget, HooksTypeOK, HookOK
  <2> QED
    BY <2>1, <2>2, <2>3 DEF MovedOn
<1> QED
  BY <1>1, <1>2, <1>3

(* A hook that could not reconfigure.                                      *)
LEMMA NotReadyMoves ==
  ASSUME HooksTypeOK, NEW u \in Units, HookOK(u), hook[u] # "none", NotReady(u)
  PROVE  MovedOn(u) /\ (UNCHANGED failures \/ Fail)
<1>1. CASE hook[u] # "leaving" /\ EndHook(u) /\ UNCHANGED <<life, failures>>
  <2>1. HooksTypeOK' /\ OthersKept(u)
    BY <1>1 DEF EndHook, Forget, HooksTypeOK, OthersKept
  <2>2. HookOK(u)' /\ step'[u] \in {"pick", "list"} /\ read_version'[u] = 0
    BY <1>1 DEF EndHook, Forget, HooksTypeOK, HookOK
  <2> QED
    BY <1>1, <2>1, <2>2 DEF MovedOn
<1>2. CASE hook[u] # "adding" /\ Retry(u) /\ UNCHANGED <<life, failures>>
  <2>1. HooksTypeOK' /\ OthersKept(u)
    BY <1>2 DEF Retry, Forget, HooksTypeOK, OthersKept
  <2>2. HookOK(u)' /\ step'[u] \in {"pick", "list"} /\ read_version'[u] = 0
    BY <1>2 DEF Retry, Forget, HooksTypeOK, HookOK
  <2> QED
    BY <1>2, <2>1, <2>2 DEF MovedOn
<1>3. CASE /\ hook[u] = "leaving" /\ EndHook(u) /\ Fail
           /\ life' = [life EXCEPT ![u] = "detached"]
  <2>1. HooksTypeOK' /\ OthersKept(u)
    BY <1>3 DEF EndHook, Forget, HooksTypeOK, OthersKept
  <2>2. HookOK(u)' /\ step'[u] \in {"pick", "list"} /\ read_version'[u] = 0
    BY <1>3 DEF EndHook, Forget, HooksTypeOK, HookOK
  <2> QED
    BY <1>3, <2>1, <2>2 DEF MovedOn
<1> QED
  BY <1>1, <1>2, <1>3 DEF NotReady

-----------------------------------------------------------------------------
(* What is left of the invariant once a hook has moved on.                 *)
LEMMA HooksAfterMove ==
  ASSUME IInv, NEW u \in Units, MovedOn(u)
  PROVE  HooksTypeOK' /\ \A w \in Units : HookOK(w)'
<1> SUFFICES ASSUME NEW w \in Units PROVE HookOK(w)'
  BY DEF MovedOn
<1>1. CASE w = u
  BY <1>1 DEF MovedOn
<1>2. CASE w # u
  BY <1>2 DEF IInv, MovedOn, OthersKept, HookOK
<1> QED
  BY <1>1, <1>2

LEMMA ReadsAfterFailure ==
  ASSUME IInv, NEW u \in Units, MovedOn(u), UNCHANGED <<version, members, joining>>
  PROVE  \A w \in Units : ReadOK(w)'
<1> SUFFICES ASSUME NEW w \in Units PROVE ReadOK(w)'
  OBVIOUS
<1>1. CASE w = u
  BY <1>1 DEF IInv, TypeOK, MovedOn, ReadOK
<1>2. CASE w # u
  BY <1>2 DEF IInv, MovedOn, OthersKept, ReadOK
<1> QED
  BY <1>1, <1>2

(* A new version outdates what every unit has read.                        *)
LEMMA ReadsAfterSuccess ==
  ASSUME IInv, NEW u \in Units, MovedOn(u), version' = version + 1
  PROVE  \A w \in Units : ReadOK(w)'
<1> SUFFICES ASSUME NEW w \in Units PROVE ReadOK(w)'
  OBVIOUS
<1>1. CASE w = u
  BY <1>1 DEF IInv, TypeOK, MovedOn, ReadOK
<1>2. CASE w # u
  BY <1>2 DEF IInv, TypeOK, MovedOn, OthersKept, ReadOK
<1> QED
  BY <1>1, <1>2

(* Only the configuration MongoDB has is accepted.                         *)
LEMMA AcceptedIsLatest ==
  ASSUME IInv, NEW u \in Units, NEW m, step[u] = "checked", Accepted(u, m)
  PROVE  read_version[u] = version /\ read_members[u] = members
BY DEF IInv, TypeOK, ReadOK, Accepted

(* Everything but the hooks is as it was, up to failures.                  *)
LEMMA RestKept ==
  ASSUME IInv, HooksTypeOK',
         UNCHANGED <<leader, starting, initialised, members, version, up, syncing,
                     joining, elections>>,
         primary' \in Units \cup {Nobody}, UNCHANGED failures \/ Fail
  PROVE  TypeOK' /\ SetOK' /\ OneJoining'
<1>1. failures' \in 0..MaxFailures
  BY BoundsAssumption DEF IInv, TypeOK, Fail
<1>2. TypeOK'
  BY <1>1 DEF IInv, TypeOK, HooksTypeOK
<1>3. SetOK' /\ OneJoining'
  BY DEF IInv, SetOK, OneJoining
<1> QED
  BY <1>2, <1>3

LEMMA HooksAreTyped == IInv => HooksTypeOK
BY DEF IInv, TypeOK, HooksTypeOK

-----------------------------------------------------------------------------
(* The steps of a reconfiguration.                                         *)
LEMMA ListMembersKeeps ==
  ASSUME IInv, NEW u \in Units, ListMembers(u)
  PROVE  IInv'
<1>1. MovedOn(u) /\ UNCHANGED failures
  <2>1. /\ HooksTypeOK /\ HookOK(u) /\ hook[u] # "none"
        /\ members \subseteq Units /\ hosts[u] \subseteq Units
    BY HooksAreTyped DEF IInv, TypeOK, ListMembers
  <2>2. PICK S \in SUBSET Units :
          /\ Loop(u, hook[u], S)
          /\ hook[u] \in {"removing", "healing"} => S \cap hosts[u] = {}
          /\ hook[u] = "leaving" => S \subseteq {u}
    BY <2>1 DEF ListMembers, Added, Removed
  <2> QED
    BY <2>1, <2>2, LoopMoves DEF ListMembers
<1>2. TypeOK' /\ SetOK' /\ OneJoining'
  BY <1>1, HooksAfterMove, RestKept DEF ListMembers, mongodb, IInv, TypeOK
<1>3. \A w \in Units : HookOK(w)' /\ ReadOK(w)'
  BY <1>1, HooksAfterMove, ReadsAfterFailure DEF ListMembers, mongodb
<1> QED
  BY <1>2, <1>3 DEF IInv

LEMMA ReadConfigKeeps ==
  ASSUME IInv, NEW u \in Units, ReadConfig(u)
  PROVE  IInv'
<1>1. PICK t \in targets[u] :
        \/ /\ primary # Nobody
           /\ target' = [target EXCEPT ![u] = t]
           /\ read_version' = [read_version EXCEPT ![u] = version]
           /\ read_members' = [read_members EXCEPT ![u] = members]
           /\ step' = [step EXCEPT ![u] = "read"]
           /\ UNCHANGED <<life, hook, hosts, targets, failures>>
        \/ NotReady(u)
  BY DEF ReadConfig
<1> USE DEF ReadConfig
<1>2. CASE NotReady(u)
  <2>1. MovedOn(u) /\ (UNCHANGED failures \/ Fail)
    BY <1>2, NotReadyMoves, HooksAreTyped DEF IInv
  <2>2. TypeOK' /\ SetOK' /\ OneJoining'
    BY <2>1, HooksAfterMove, RestKept DEF mongodb, IInv, TypeOK
  <2>3. \A w \in Units : HookOK(w)' /\ ReadOK(w)'
    BY <2>1, HooksAfterMove, ReadsAfterFailure DEF mongodb
  <2> QED
    BY <2>2, <2>3 DEF IInv
<1>3. CASE ~NotReady(u)
  <2> t \in Units
    BY DEF IInv, TypeOK
  <2>1. TypeOK' /\ SetOK' /\ OneJoining'
    <3>1. HooksTypeOK'
      BY <1>1, <1>3, HooksAreTyped DEF HooksTypeOK, mongodb, IInv, TypeOK
    <3> QED
      BY <1>1, <1>3, <3>1, RestKept DEF mongodb, IInv, TypeOK
  <2>2. ASSUME NEW w \in Units PROVE HookOK(w)' /\ ReadOK(w)'
    <3>1. HookOK(w) /\ ReadOK(w) /\ TypeOK
      BY DEF IInv
    <3>2. CASE w = u
      BY <1>1, <1>3, <3>1, <3>2 DEF HookOK, ReadOK, mongodb, TypeOK
    <3>3. CASE w # u
      BY <1>1, <1>3, <3>1, <3>3 DEF HookOK, ReadOK, mongodb, TypeOK
    <3> QED
      BY <3>2, <3>3
  <2> QED
    BY <2>1, <2>2 DEF IInv
<1> QED
  BY <1>2, <1>3

(* A check that passed for an addition saw no member syncing, so that none *)
(* joins.                                                                  *)
LEMMA CheckStatusKeeps ==
  ASSUME IInv, NEW u \in Units, CheckStatus(u)
  PROVE  IInv'
<1> USE DEF CheckStatus
<1>0. /\ step[u] = "read" /\ hook[u] # "none"
      /\ primary' \in Units \cup {Nobody}
  BY DEF IInv, TypeOK, HookOK, StepDown, Electable
<1>1. CASE NotReady(u)
  <2>1. MovedOn(u) /\ (UNCHANGED failures \/ Fail)
    BY <1>0, <1>1, NotReadyMoves, HooksAreTyped DEF IInv
  <2>2. TypeOK' /\ SetOK' /\ OneJoining'
    BY <1>0, <2>1, HooksAfterMove, RestKept
  <2>3. \A w \in Units : HookOK(w)' /\ ReadOK(w)'
    BY <2>1, HooksAfterMove, ReadsAfterFailure
  <2> QED
    BY <2>2, <2>3 DEF IInv
<1>2. CASE Checked(u)
  <2>1. TypeOK' /\ SetOK' /\ OneJoining'
    <3>1. HooksTypeOK'
      BY <1>2, HooksAreTyped DEF HooksTypeOK, Checked
    <3> QED
      BY <1>0, <1>2, <3>1, RestKept DEF Checked
  <2>2. hook[u] = "adding" => joining = {}
    BY <1>0, <1>2 DEF IInv, SetOK, AnySync, NotReady, Checked, EndHook, Retry, Forget, TypeOK
  <2>3. ASSUME NEW w \in Units PROVE HookOK(w)' /\ ReadOK(w)'
    <3>1. HookOK(w) /\ ReadOK(w) /\ TypeOK
      BY DEF IInv
    <3>2. CASE w = u
      BY <1>0, <1>2, <2>2, <3>1, <3>2 DEF HookOK, ReadOK, Checked, TypeOK
    <3>3. CASE w # u
      BY <1>2, <3>1, <3>3 DEF HookOK, ReadOK, Checked, TypeOK
    <3> QED
      BY <3>2, <3>3
  <2> QED
    BY <2>1, <2>3 DEF IInv
<1> QED
  BY <1>1, <1>2

(* What could not be sent leaves the set as it is.                         *)
LEMMA RefusedKeeps ==
  ASSUME IInv, NEW u \in Units, NotReady(u), step[u] = "checked",
         UNCHANGED <<leader, starting, initialised, mongodb, joining, elections>>
  PROVE  IInv'
<1>1. hook[u] # "none"
  BY DEF IInv, HookOK
<1>2. MovedOn(u) /\ (UNCHANGED failures \/ Fail)
  BY <1>1, NotReadyMoves, HooksAreTyped DEF IInv
<1>3. TypeOK' /\ SetOK' /\ OneJoining'
  BY <1>2, HooksAfterMove, RestKept DEF mongodb, IInv, TypeOK
<1>4. \A w \in Units : HookOK(w)' /\ ReadOK(w)'
  BY <1>2, HooksAfterMove, ReadsAfterFailure DEF mongodb
<1> QED
  BY <1>3, <1>4 DEF IInv

(* A configuration that is accepted has one new member at most, and no     *)
(* other joined since it was checked.                                      *)
LEMMA AddMemberKeeps ==
  ASSUME IInv, NEW u \in Units, AddMember(u)
  PROVE  IInv'
<1> DEFINE m == read_members[u] \cup {target[u]}
<1>1. CASE NotReady(u) /\ UNCHANGED <<members, version, syncing, joining>>
  BY <1>1, RefusedKeeps DEF AddMember, WithTarget, mongodb
<1>2. CASE /\ Accepted(u, m)
           /\ members' = m
           /\ version' = read_version[u] + 1
           /\ syncing' = (syncing \cap m) \cup {target[u]}
           /\ joining' = joining \cup ({target[u]} \cap up)
           /\ Loop(u, hook[u], targets[u] \ {target[u]})
           /\ UNCHANGED failures
  <2>1. /\ TypeOK /\ SetOK /\ HookOK(u) /\ ReadOK(u)
        /\ step[u] = "checked" /\ hook[u] = "adding"
    BY DEF IInv, AddMember, WithTarget
  <2>2. target[u] \in targets[u] /\ target[u] \in Units
    BY <2>1 DEF HookOK, TypeOK
  <2>3. /\ read_version[u] = version /\ read_members[u] = members
        /\ joining = {}
    BY <1>2, <2>1, AcceptedIsLatest DEF ReadOK
  <2>4. MovedOn(u)
    BY <1>2, <2>1, HooksAreTyped, LoopMoves DEF TypeOK
  <2>5. TypeOK'
    <3>1. /\ members' \subseteq Units /\ syncing' \subseteq Units
          /\ joining' \subseteq Units /\ version' \in Nat
      BY <1>2, <2>1, <2>2, <2>3 DEF TypeOK
    <3>2. HooksTypeOK'
      BY <2>4 DEF MovedOn
    <3> QED
      BY <1>2, <2>1, <3>1, <3>2 DEF TypeOK, HooksTypeOK, AddMember, WithTarget
  <2>6. SetOK' /\ OneJoining'
    BY <1>2, <2>1, <2>2, <2>3 DEF SetOK, OneJoining, AddMember, WithTarget, TypeOK
  <2>7. \A w \in Units : HookOK(w)' /\ ReadOK(w)'
    BY <1>2, <2>3, <2>4, HooksAfterMove, ReadsAfterSuccess
  <2> QED
    BY <2>5, <2>6, <2>7 DEF IInv
<1> QED
  BY <1>1, <1>2 DEF AddMember, WithTarget

LEMMA RemoveMemberKeeps ==
  ASSUME IInv, NEW u \in Units, RemoveMember(u)
  PROVE  IInv'
<1> DEFINE m == read_members[u] \ {target[u]}
<1>0. step[u] = "checked" /\ hook[u] # "adding"
  BY DEF RemoveMember
<1>1. CASE NotReady(u) /\ UNCHANGED <<members, version, syncing, joining>>
  BY <1>0, <1>1, RefusedKeeps DEF RemoveMember, mongodb
<1>2. CASE /\ Accepted(u, m)
           /\ members' = m
           /\ version' = read_version[u] + 1
           /\ syncing' = syncing \cap m
           /\ joining' = joining \cap m
           /\ Loop(u, hook[u], targets[u] \ {target[u]})
           /\ UNCHANGED failures
  <2>1. TypeOK /\ SetOK /\ OneJoining /\ HookOK(u) /\ hook[u] # "none"
    BY <1>0 DEF IInv, HookOK
  <2>2. read_version[u] = version /\ read_members[u] = members
    BY <1>0, <1>2, AcceptedIsLatest
  <2>3. MovedOn(u)
    <3>1. /\ hook[u] \in {"removing", "healing"}
               => (targets[u] \ {target[u]}) \cap hosts[u] = {}
          /\ hook[u] = "leaving" => targets[u] \ {target[u]} \subseteq {u}
          /\ targets[u] \ {target[u]} \in SUBSET Units
      BY <2>1 DEF HookOK, TypeOK
    <3> QED
      BY <1>2, <2>1, <3>1, HooksAreTyped, LoopMoves
  <2>4. TypeOK'
    <3>1. /\ members' \subseteq Units /\ syncing' \subseteq Units
          /\ joining' \subseteq Units /\ version' \in Nat
      BY <1>2, <2>1, <2>2 DEF TypeOK
    <3>2. HooksTypeOK'
      BY <2>3 DEF MovedOn
    <3> QED
      BY <1>2, <2>1, <3>1, <3>2 DEF TypeOK, HooksTypeOK, RemoveMember
  <2>5. SetOK' /\ OneJoining'
    BY <1>2, <2>1, <2>2 DEF SetOK, OneJoining, RemoveMember, TypeOK
  <2>6. \A w \in Units : HookOK(w)' /\ ReadOK(w)'
    BY <1>2, <2>2, <2>3, HooksAfterMove, ReadsAfterSuccess
  <2> QED
    BY <2>4, <2>5, <2>6 DEF IInv
<1> QED
  BY <1>1, <1>2 DEF RemoveMember

-----------------------------------------------------------------------------
(* The beginnings of the hooks, juju, MongoDB.                             *)

(* A hook begins with nothing listed and nothing read.                     *)
LEMMA BeginKeeps ==
  ASSUME IInv, NEW u \in Units, hook[u] = "none",
         NEW name \in {"adding", "removing", "healing", "leaving"}, BeginHook(u, name),
         UNCHANGED life \/ life' = [life EXCEPT ![u] = "detaching"],
         name = "leaving" => life' = [life EXCEPT ![u] = "detaching"],
         UNCHANGED <<leader, starting, initialised, mongodb, joining, elections,
                     failures>>
  PROVE  IInv'
<1> USE DEF BeginHook
<1>1. HooksTypeOK'
  BY HooksAreTyped DEF HooksTypeOK, Present
<1>2. TypeOK' /\ SetOK' /\ OneJoining'
  BY <1>1, RestKept DEF mongodb, IInv, TypeOK
<1>3. ASSUME NEW w \in Units PROVE HookOK(w)' /\ ReadOK(w)'
  <2>1. HookOK(w) /\ ReadOK(w) /\ HooksTypeOK
    BY HooksAreTyped DEF IInv
  <2>2. CASE w = u
    BY <2>1, <2>2 DEF HookOK, ReadOK, HooksTypeOK, mongodb
  <2>3. CASE w # u
    BY <2>1, <2>3 DEF HookOK, ReadOK, HooksTypeOK, mongodb
  <2> QED
    BY <2>2, <2>3
<1> QED
  BY <1>2, <1>3 DEF IInv

LEMMA StorageDetachingKeeps ==
  ASSUME IInv, NEW u \in Units, StorageDetaching(u)
  PROVE  IInv'
<1> hook[u] = "none"
  BY DEF StorageDetaching, Idle
<1>1. CASE LastReplica(u)
  <2>1. HooksTypeOK'
    BY <1>1, HooksAreTyped DEF HooksTypeOK, StorageDetaching, hooks
  <2>2. TypeOK' /\ SetOK' /\ OneJoining'
    BY <1>1, <2>1, RestKept DEF StorageDetaching, mongodb, IInv, TypeOK
  <2>3. \A w \in Units : HookOK(w)' /\ ReadOK(w)'
    BY <1>1 DEF IInv, TypeOK, HookOK, ReadOK, StorageDetaching, hooks, mongodb
  <2> QED
    BY <2>2, <2>3 DEF IInv
<1>2. CASE ~LastReplica(u)
  BY <1>2, BeginKeeps DEF StorageDetaching
<1> QED
  BY <1>1, <1>2

(* The hooks go on while the rest of the system changes: no unit gets out  *)
(* of its storage-detaching hook, and the configuration stays.             *)
LEMMA HooksUntouched ==
  ASSUME IInv, UNCHANGED <<hooks, members, version>>, joining' \subseteq joining,
         \A w \in Units : life[w] = "detaching" => life'[w] = "detaching"
  PROVE  \A w \in Units : HookOK(w)' /\ ReadOK(w)'
BY DEF IInv, HookOK, ReadOK, hooks

(* The set is initialised once: nothing has been read of it before.        *)
LEMMA StartKeeps ==
  ASSUME IInv, NEW u \in Units, Start(u)
  PROVE  IInv'
<1>0. TypeOK /\ SetOK /\ OneJoining /\ up' = up \cup {u}
  BY DEF IInv, Start
<1>1. starting' \subseteq Units /\ initialised' \in BOOLEAN
  BY <1>0 DEF TypeOK, Start
<1>2. failures' \in 0..MaxFailures
  BY <1>0, BoundsAssumption DEF TypeOK, Start, Fail
<1>3. CASE UNCHANGED <<members, version, syncing, primary>>
  <2>1. TypeOK'
    BY <1>0, <1>1, <1>2, <1>3 DEF TypeOK, Start, hooks
  <2>2. SetOK' /\ OneJoining'
    BY <1>0, <1>3 DEF SetOK, OneJoining, Start
  <2>3. \A w \in Units : HookOK(w)' /\ ReadOK(w)'
    BY <1>3, HooksUntouched DEF Start
  <2> QED
    BY <2>1, <2>2, <2>3 DEF IInv
<1>4. CASE \E listed \in SUBSET (Present \cap up') :
             /\ version = 0 /\ u \in listed
             /\ members' = listed /\ version' = 1
             /\ syncing' = listed \ {u} /\ primary' = u
  <2>1. TypeOK'
    BY <1>0, <1>1, <1>2, <1>4 DEF TypeOK, Start, hooks, Present
  <2>2. joining = {} /\ joining' = {}
    BY <1>0, <1>4 DEF SetOK, Start
  <2>3. SetOK' /\ OneJoining'
    BY <1>4, <2>2 DEF SetOK, OneJoining
  <2>4. \A w \in Units : HookOK(w)' /\ ReadOK(w)'
    BY <1>4, <2>2 DEF IInv, TypeOK, HookOK, ReadOK, Start, hooks
  <2> QED
    BY <2>1, <2>3, <2>4 DEF IInv
<1> QED
  BY <1>3, <1>4 DEF Start

LEMMA JujuKeeps ==
  ASSUME IInv,
         \/ \E u \in Units : AddUnit(u) \/ RemoveUnit(u) \/ Leave(u)
         \/ ElectLeader
  PROVE  IInv'
<1>0. TypeOK /\ SetOK /\ OneJoining
  BY DEF IInv
<1>1. ASSUME NEW u \in Units, AddUnit(u) \/ RemoveUnit(u) PROVE IInv'
  <2>1. TypeOK'
    BY <1>0, <1>1 DEF TypeOK, AddUnit, RemoveUnit, hooks, mongodb
  <2>2. SetOK' /\ OneJoining'
    BY <1>0, <1>1 DEF SetOK, OneJoining, AddUnit, RemoveUnit, mongodb
  <2>3. \A w \in Units : HookOK(w)' /\ ReadOK(w)'
    BY <1>0, <1>1, HooksUntouched DEF TypeOK, AddUnit, RemoveUnit, mongodb
  <2> QED
    BY <2>1, <2>2, <2>3 DEF IInv
<1>2. ASSUME NEW u \in Units, Leave(u) PROVE IInv'
  <2>1. TypeOK'
    BY <1>0, <1>2 DEF TypeOK, Leave, hooks, PrimaryAmong, Present
  <2>2. SetOK' /\ OneJoining'
    BY <1>0, <1>2 DEF SetOK, OneJoining, Leave
  <2>3. \A w \in Units : HookOK(w)' /\ ReadOK(w)'
    BY <1>0, <1>2, HooksUntouched DEF TypeOK, Leave
  <2> QED
    BY <2>1, <2>2, <2>3 DEF IInv
<1>3. CASE ElectLeader
  <2>1. TypeOK'
    BY <1>0, <1>3, BoundsAssumption DEF TypeOK, ElectLeader, hooks, mongodb, Present
  <2>2. SetOK' /\ OneJoining'
    BY <1>0, <1>3 DEF SetOK, OneJoining, ElectLeader, mongodb
  <2>3. \A w \in Units : HookOK(w)' /\ ReadOK(w)'
    BY <1>3, HooksUntouched DEF ElectLeader, mongodb
  <2> QED
    BY <2>1, <2>2, <2>3 DEF IInv
<1> QED
  BY <1>1, <1>2, <1>3

LEMMA MongoDBKeeps ==
  ASSUME IInv,
         \/ \E u \in Units : Synced(u) \/ Crash(u) \/ Restart(u)
         \/ ElectPrimary
  PROVE  IInv'
<1>0. TypeOK /\ SetOK /\ OneJoining
  BY DEF IInv
<1>1. ASSUME NEW u \in Units, Synced(u) \/ Crash(u) \/ Restart(u) PROVE IInv'
  <2>1. TypeOK'
    BY <1>0, <1>1, BoundsAssumption
    DEF TypeOK, Synced, Crash, Restart, Fail, PrimaryAmong, hooks, juju
  <2>2. SetOK' /\ OneJoining'
    BY <1>0, <1>1 DEF SetOK, OneJoining, Synced, Crash, Restart
  <2>3. \A w \in Units : HookOK(w)' /\ ReadOK(w)'
    BY <1>1, HooksUntouched DEF Synced, Crash, Restart, juju
  <2> QED
    BY <2>1, <2>2, <2>3 DEF IInv
<1>2. CASE ElectPrimary
  <2>1. TypeOK'
    BY <1>0, <1>2, BoundsAssumption DEF TypeOK, ElectPrimary, Electable, hooks, juju
  <2>2. SetOK' /\ OneJoining'
    BY <1>0, <1>2 DEF SetOK, OneJoining, ElectPrimary
  <2>3. \A w \in Units : HookOK(w)' /\ ReadOK(w)'
    BY <1>2, HooksUntouched DEF ElectPrimary, juju
  <2> QED
    BY <2>1, <2>2, <2>3 DEF IInv
<1> QED
  BY <1>1, <1>2

-----------------------------------------------------------------------------
(* Every step keeps the invariant.                                         *)
LEMMA NextKeeps == IInv /\ [Next]_vars => IInv'
<1> SUFFICES ASSUME IInv, [Next]_vars PROVE IInv'
  OBVIOUS
<1>1. ASSUME NEW u \in Units, RelationChanged(u) \/ RelationDeparted(u) \/ UpdateStatus(u)
      PROVE  IInv'
  BY <1>1, BeginKeeps DEF RelationChanged, RelationDeparted, UpdateStatus, Idle, juju
<1>2. ASSUME NEW u \in Units, Reconfigure(u) PROVE IInv'
  BY <1>2, ListMembersKeeps, ReadConfigKeeps, CheckStatusKeeps, AddMemberKeeps,
     RemoveMemberKeeps DEF Reconfigure
<1>3. CASE UNCHANGED vars
  <2>1. TypeOK' /\ SetOK' /\ OneJoining'
    BY <1>3 DEF IInv, TypeOK, SetOK, OneJoining, vars, juju, mongodb, hooks
  <2>2. \A w \in Units : HookOK(w)' /\ ReadOK(w)'
    BY <1>3 DEF IInv, HookOK, ReadOK, vars, juju, mongodb, hooks
  <2> QED
    BY <2>1, <2>2 DEF IInv
<1> QED
  BY <1>1, <1>2, <1>3, StartKeeps, StorageDetachingKeeps, JujuKeeps, MongoDBKeeps
  DEF Next

LEMMA IInvAlways == Spec => []IInv
BY InitIInv, NextKeeps, PTL DEF Spec

(* The types hold of any set of units.                                     *)
THEOREM TypeCorrect == Spec => []TypeOK
<1>1. IInv => TypeOK
  BY DEF IInv
<1> QED
  BY <1>1, IInvAlways, PTL

(* Members are brought in one at a time, whoever adds them: no former      *)
(* leader gets past the check and a configuration sent since.              *)
THEOREM OneJoiningAlways == Spec => []OneJoining
<1>1. IInv => OneJoining
  BY DEF IInv
<1> QED
  BY <1>1, IInvAlways, PTL

(* The only step that takes members out is one that removes one: the       *)
(* initial configuration replaces none, an addition keeps those there are. *)
LEMMA MembersLeave ==
  ASSUME IInv, Next, NEW u \in members \ members'
  PROVE  \E w \in Units : RemoveMember(w)
<1>1. ASSUME NEW w \in Units, Start(w) PROVE FALSE
  BY <1>1 DEF IInv, SetOK, Start
<1>2. ASSUME NEW w \in Units, AddMember(w) PROVE FALSE
  <2>1. members' = read_members[w] \cup {target[w]} /\ step[w] = "checked"
        /\ Accepted(w, members')
    BY <1>2 DEF AddMember, WithTarget
  <2> QED
    BY <2>1, AcceptedIsLatest
<1> QED
  BY <1>1, <1>2
  DEF Next, mongodb, AddUnit, RemoveUnit, Leave, RelationChanged, UpdateStatus,
      StorageDetaching, RelationDeparted, Reconfigure, ListMembers, ReadConfig,
      CheckStatus, Synced, Crash, Restart, ElectPrimary, ElectLeader

(* A member is removed only by a unit that set out to remove it, and that  *)
(* did not find it listed or is the member itself, on its way out.         *)
THEOREM OnlyLeaversAreRemoved == Spec => OnlyLeaversRemoved
<1> DEFINE Step ==
      \A u \in members \ members' :
        \E w \in Units : /\ step[w] = "checked" /\ step'[w] # "checked"
                         /\ target[w] = u
                         /\ life[u] # "alive" \/ u \notin hosts[w]
<1>1. ASSUME IInv, Next PROVE Step
  <2>1. SUFFICES ASSUME NEW u \in members \ members'
        PROVE \E w \in Units : /\ step[w] = "checked" /\ step'[w] # "checked"
                               /\ target[w] = u
                               /\ life[u] # "alive" \/ u \notin hosts[w]
    OBVIOUS
  <2>2. PICK w \in Units : RemoveMember(w)
    BY <1>1, MembersLeave
  <2>3. /\ step[w] = "checked" /\ hook[w] # "adding"
        /\ members' = read_members[w] \ {target[w]}
        /\ Accepted(w, members')
        /\ Loop(w, hook[w], targets[w] \ {target[w]})
    BY <2>2 DEF RemoveMember
  <2>4. target[w] = u
    BY <1>1, <2>3, AcceptedIsLatest
  <2>5. step'[w] # "checked"
    BY <1>1, <2>3 DEF IInv, TypeOK, Loop, EndHook
  <2>6. life[u] # "alive" \/ u \notin hosts[w]
    BY <1>1, <2>3, <2>4 DEF IInv, TypeOK, HookOK
  <2> QED
    BY <2>3, <2>4, <2>5, <2>6
<1>2. IInv /\ [Next]_vars => [Step]_vars
  BY <1>1
<1> QED
  BY <1>2, IInvAlways, PTL DEF Spec, OnlyLeaversRemoved

-----------------------------------------------------------------------------
(* The configurations of the set, as SafeReconfig has them.                *)

(* Every step changes the configuration as SafeReconfig does, or leaves it.*)
LEMMA ConfigStep ==
  ASSUME IInv, Next
  PROVE  Config!Next \/ UNCHANGED <<members, version>>
<1> USE DEF Config!Next
<1>1. ASSUME NEW u \in Units, Start(u)
      PROVE  Config!Next \/ UNCHANGED <<members, version>>
  <2>1. CASE UNCHANGED <<members, version>>
    BY <2>1
  <2>2. CASE \E listed \in SUBSET (Present \cap up') :
               /\ version = 0 /\ u \in listed
               /\ members' = listed /\ version' = 1
               /\ syncing' = listed \ {u} /\ primary' = u
    <3>1. PICK listed \in SUBSET (Present \cap up') :
            version = 0 /\ u \in listed /\ members' = listed /\ version' = 1
      BY <2>2
    <3>2. members' \in SUBSET Units /\ members' # {}
      BY <3>1 DEF Present
    <3> QED
      BY <3>1, <3>2 DEF Config!Initiate
  <2> QED
    BY <1>1, <2>1, <2>2 DEF Start
<1>2. ASSUME NEW u \in Units, AddMember(u)
      PROVE  Config!Next \/ UNCHANGED <<members, version>>
  <2> DEFINE m == WithTarget(u)
  <2>1. CASE UNCHANGED <<members, version>>
    BY <2>1
  <2>2. CASE Accepted(u, m) /\ members' = m /\ version' = read_version[u] + 1
    <3>1. read_version[u] = version /\ read_members[u] = members
      BY <1>2, <2>2, AcceptedIsLatest DEF AddMember
    <3>2. target[u] \in Units
      BY <1>2 DEF AddMember, IInv, TypeOK, HookOK
    <3>3. members' = members \cup {target[u]} /\ version' = version + 1
      BY <2>2, <3>1 DEF WithTarget
    <3>4. CASE version = 0
      <4>1. members' = {target[u]} /\ version' = 1
        BY <3>3, <3>4 DEF IInv, SetOK
      <4> QED
        BY <3>2, <3>4, <4>1 DEF Config!Initiate
    <3>5. CASE version > 0
      BY <3>2, <3>3, <3>5 DEF Config!Reconfigure
    <3> QED
      BY <3>4, <3>5 DEF IInv, TypeOK
  <2> QED
    BY <1>2, <2>1, <2>2 DEF AddMember
<1>3. ASSUME NEW u \in Units, RemoveMember(u)
      PROVE  Config!Next \/ UNCHANGED <<members, version>>
  <2> DEFINE m == read_members[u] \ {target[u]}
  <2>1. CASE UNCHANGED <<members, version>>
    BY <2>1
  <2>2. CASE Accepted(u, m) /\ members' = m /\ version' = read_version[u] + 1
    <3>1. read_version[u] = version /\ read_members[u] = members
      BY <1>3, <2>2, AcceptedIsLatest DEF RemoveMember
    <3>2. target[u] \in Units
      BY <1>3 DEF RemoveMember, IInv, TypeOK, HookOK
    <3>3. members' = members \ {target[u]} /\ version' = version + 1
      BY <2>2, <3>1
    <3>4. version > 0 /\ members' # {}
      BY <2>2, <3>3 DEF Accepted, IInv, SetOK, TypeOK
    <3> QED
      BY <3>2, <3>3, <3>4 DEF Config!Reconfigure
  <2> QED
    BY <1>3, <2>1, <2>2 DEF RemoveMember
<1> QED
  BY <1>1, <1>2, <1>3
  DEF Next, mongodb, AddUnit, RemoveUnit, Leave, RelationChanged, UpdateStatus,
      StorageDetaching, RelationDeparted, Reconfigure, ListMembers, ReadConfig,
      CheckStatus, Synced, Crash, Restart, ElectPrimary, ElectLeader

(* The replica set implements SafeReconfig: its configurations are those   *)
(* of one sequence, each made from the latest by a change of one member.   *)
THEOREM ImplementsSafeReconfig == Spec => ConfigChangesSafely
<1>1. Init => Config!Init
  BY DEF Init, Config!Init
<1>2. IInv /\ [Next]_vars => [Config!Next]_<<members, version>>
  BY ConfigStep DEF vars, mongodb
<1> QED
  BY <1>1, <1>2, IInvAlways, PTL DEF Spec, ConfigChangesSafely, Config!Spec

(* Majorities of two sets that differ by one element meet.                 *)
LEMMA NeighboursMeet ==
  ASSUME NEW C, IsFiniteSet(C), NEW n, NEW D \in {C \cup {n}, C \ {n}},
         NEW p \in SUBSET C, NEW q \in SUBSET D, Majority(C, p), Majority(D, q)
  PROVE  p \cap q # {}
<1> DEFINE E == C \cup D
<1>1. IsFiniteSet(D) /\ IsFiniteSet(E) /\ IsFiniteSet(p) /\ IsFiniteSet(q)
  <2>1. IsFiniteSet(D)
    BY FS_AddElement, FS_RemoveElement
  <2> QED
    BY <2>1, FS_Union, FS_Subset
<1>2. /\ Cardinality(C) \in Nat /\ Cardinality(D) \in Nat /\ Cardinality(E) \in Nat
      /\ Cardinality(p) \in Nat /\ Cardinality(q) \in Nat
  BY <1>1, FS_CardinalityType
<1>3. 2 * Cardinality(E) <= Cardinality(C) + Cardinality(D) + 1
  <2>1. CASE D = C
    BY <1>2, <2>1
  <2>2. CASE n \notin C /\ D = C \cup {n}
    <3>1. Cardinality(D) = Cardinality(C) + 1 /\ E = D
      BY <2>2, FS_AddElement
    <3>2. Cardinality(E) = Cardinality(D)
      BY <3>1
    <3> HIDE DEF E
    <3> QED
      BY <1>2, <3>1, <3>2
  <2>3. CASE n \in C /\ D = C \ {n}
    <3>1. Cardinality(D) = Cardinality(C) - 1 /\ E = C
      BY <2>3, FS_RemoveElement
    <3>2. Cardinality(E) = Cardinality(C)
      BY <3>1
    <3> HIDE DEF E
    <3> QED
      BY <1>2, <3>1, <3>2
  <2> QED
    BY <2>1, <2>2, <2>3
<1>4. 2 * Cardinality(p) > Cardinality(C) /\ 2 * Cardinality(q) > Cardinality(D)
  <2>1. C \cap p = p /\ D \cap q = q
    OBVIOUS
  <2> QED
    BY <2>1 DEF Majority
<1> SUFFICES ASSUME p \cap q = {} PROVE FALSE
  OBVIOUS
<1>5. Cardinality(p \cup q) = Cardinality(p) + Cardinality(q)
  <2>1. Cardinality(p \cup q) = Cardinality(p) + Cardinality(q) - Cardinality(p \cap q)
    BY <1>1, FS_Union
  <2>2. Cardinality(p \cap q) = 0
    BY FS_EmptySet
  <2> QED
    BY <1>2, <2>1, <2>2
<1>6. Cardinality(p \cup q) <= Cardinality(E)
  <2>1. p \cup q \subseteq E
    OBVIOUS
  <2> QED
    BY <1>1, <2>1, FS_Subset
<1> QED
  BY <1>2, <1>3, <1>4, <1>5, <1>6

(* Every majority of a configuration meets every majority of the next one. *)
THEOREM MajoritiesAlwaysMeet == Spec => MajoritiesMeet
<1> DEFINE Step ==
      members # {} =>
        \A p \in SUBSET members, q \in SUBSET members' :
          Majority(members, p) /\ Majority(members', q) => p \cap q # {}
<1>1. ASSUME IInv, Next, members' # members PROVE Step
  <2> SUFFICES ASSUME members # {}, NEW p \in SUBSET members, NEW q \in SUBSET members',
                      Majority(members, p), Majority(members', q)
               PROVE  p \cap q # {}
    OBVIOUS
  <2>1. IsFiniteSet(members)
    BY <1>1, UnitsAssumption, FS_Subset DEF IInv, TypeOK
  <2>2. version # 0
    BY <1>1 DEF IInv, SetOK
  <2>3. PICK n \in Units : members' \in {members \cup {n}, members \ {n}}
    BY <1>1, <2>2, ConfigStep DEF Config!Next, Config!Initiate, Config!Reconfigure
  <2> QED
    BY <2>1, <2>3, NeighboursMeet
<1>2. IInv /\ [Next]_vars => [Step]_members
  BY <1>1 DEF vars, mongodb
<1> QED
  BY <1>2, IInvAlways, PTL DEF Spec, MajoritiesMeet

-----------------------------------------------------------------------------
(* What the convergence of the members rests on.                           *)

Absent == {u \in Units : life[u] = "absent"}

(* mongod runs only on units that juju lists, and no hook has to do with a *)
(* unit that is not there yet.                                             *)
UpPresent == up \subseteq Present
Known ==
  /\ members \cap Absent = {}
  /\ \A u \in Units : hosts[u] \cap Absent = {} /\ targets[u] \cap Absent = {}

(* A primary is a member that answers, and sees a majority of members.     *)
PrimaryServes == primary # Nobody => primary \in members \cap up /\ Majority(members, up)

(* The leader is a unit that juju lists, unless all the members have gone. *)
LeaderThere == leader \in Present \/ members \cap Present = {}

ServInv == IInv /\ UpPresent /\ Known /\ PrimaryServes /\ LeaderThere

LEMMA MajorityGrows ==
  ASSUME NEW m, IsFiniteSet(m), NEW p, NEW q, p \cap m \subseteq q, Majority(m, p)
  PROVE  Majority(m, q)
<1>1. IsFiniteSet(m \cap q) /\ m \cap p \in SUBSET (m \cap q)
  BY FS_Subset
<1>2. Cardinality(m \cap p) <= Cardinality(m \cap q) /\ IsFiniteSet(m \cap p)
  BY <1>1, FS_Subset
<1>3. Cardinality(m \cap p) \in Nat /\ Cardinality(m \cap q) \in Nat /\ Cardinality(m) \in Nat
  BY <1>1, <1>2, FS_CardinalityType
<1> QED
  BY <1>2, <1>3 DEF Majority

LEMMA AllAreMajority ==
  ASSUME NEW m, IsFiniteSet(m), m # {}, NEW p, m \subseteq p
  PROVE  Majority(m, p)
<1>1. m \cap p = m /\ Cardinality(m) \in Nat /\ Cardinality(m) # 0
  BY FS_CardinalityType, FS_EmptySet
<1> QED
  BY <1>1 DEF Majority

(* One more member that answers, or one less that does not, leaves the     *)
(* majority of those that do.                                              *)
LEMMA MajorityWithOneMore ==
  ASSUME NEW m, IsFiniteSet(m), NEW p, Majority(m, p), NEW t \in p \ m
  PROVE  Majority(m \cup {t}, p)
<1>1. IsFiniteSet(m \cap p) /\ Cardinality(m) \in Nat /\ Cardinality(m \cap p) \in Nat
  BY FS_Subset, FS_CardinalityType
<1>2. (m \cup {t}) \cap p = (m \cap p) \cup {t} /\ t \notin m \cap p
  OBVIOUS
<1>3. /\ Cardinality(m \cup {t}) = Cardinality(m) + 1
      /\ Cardinality((m \cap p) \cup {t}) = Cardinality(m \cap p) + 1
  BY <1>1, <1>2, FS_AddElement
<1>4. 2 * (Cardinality(m \cap p) + 1) > Cardinality(m) + 1
  BY <1>1 DEF Majority
<1>5. Cardinality((m \cup {t}) \cap p) = Cardinality(m \cap p) + 1
  BY <1>2, <1>3
<1> QED
  BY <1>3, <1>4, <1>5 DEF Majority

LEMMA MajorityWithOneLess ==
  ASSUME NEW m, IsFiniteSet(m), NEW p, Majority(m, p), NEW t, t \notin p
  PROVE  Majority(m \ {t}, p)
<1>1. IsFiniteSet(m \cap p) /\ Cardinality(m) \in Nat /\ Cardinality(m \cap p) \in Nat
  BY FS_Subset, FS_CardinalityType
<1>2. (m \ {t}) \cap p = m \cap p
  OBVIOUS
<1>3. Cardinality(m \ {t}) <= Cardinality(m) /\ Cardinality(m \ {t}) \in Nat
  <2>1. m \ {t} \in SUBSET m
    OBVIOUS
  <2> QED
    BY <2>1, FS_Subset, FS_CardinalityType
<1> QED
  BY <1>1, <1>2, <1>3 DEF Majority

LEMMA MembersAreFinite == TypeOK => IsFiniteSet(members)
BY UnitsAssumption, FS_Subset DEF TypeOK

(* What a hook does to itself and to the life of its unit.                 *)
HookStays(u, S) ==
  /\ OthersKept(u)
  /\ hosts'[u] \subseteq hosts[u] /\ targets'[u] \subseteq S
  /\ Present' = Present /\ Absent' = Absent

LEMMA LoopStays ==
  ASSUME HooksTypeOK, NEW u \in Units, NEW S \in SUBSET Units, HookOK(u),
         Loop(u, hook[u], S)
  PROVE  HookStays(u, S)
<1>1. OthersKept(u)
  BY DEF Loop, EndHook, Forget, HooksTypeOK, OthersKept
<1>2. hosts'[u] \subseteq hosts[u] /\ targets'[u] \subseteq S
  BY DEF Loop, EndHook, Forget, HooksTypeOK
<1>3. UNCHANGED life \/ (life[u] = "detaching" /\ life' = [life EXCEPT ![u] = "detached"])
  BY DEF Loop, HookOK
<1>4. Present' = Present /\ Absent' = Absent
  BY <1>3 DEF Present, Absent, HooksTypeOK
<1> QED
  BY <1>1, <1>2, <1>4 DEF HookStays

LEMMA NotReadyStays ==
  ASSUME HooksTypeOK, NEW u \in Units, HookOK(u), NotReady(u)
  PROVE  HookStays(u, targets[u])
<1>1. OthersKept(u)
  BY DEF NotReady, Retry, EndHook, Forget, HooksTypeOK, OthersKept
<1>2. hosts'[u] \subseteq hosts[u] /\ targets'[u] \subseteq targets[u]
  BY DEF NotReady, Retry, EndHook, Forget, HooksTypeOK
<1>3. UNCHANGED life \/ (life[u] = "detaching" /\ life' = [life EXCEPT ![u] = "detached"])
  BY DEF NotReady, Retry, HookOK
<1>4. Present' = Present /\ Absent' = Absent
  BY <1>3 DEF Present, Absent, HooksTypeOK
<1> QED
  BY <1>1, <1>2, <1>4 DEF HookStays

LEMMA HookServes ==
  ASSUME ServInv, NEW u \in Units, NEW S, HookStays(u, S), S \cap Absent = {},
         UNCHANGED <<leader, up>>, members' \cap Absent = {},
         leader \in Present \/ members' = members
  PROVE  UpPresent' /\ Known' /\ LeaderThere'
<1>1. UpPresent' /\ LeaderThere'
  BY DEF ServInv, UpPresent, LeaderThere, HookStays
<1>2. ASSUME NEW w \in Units
      PROVE  hosts'[w] \cap Absent = {} /\ targets'[w] \cap Absent = {}
  BY DEF ServInv, Known, HookStays, OthersKept
<1> QED
  BY <1>1, <1>2 DEF Known, HookStays

(* The leader is there as long as there is a primary.                      *)
LEMMA PrimaryHasLeader ==
  ASSUME ServInv, primary # Nobody
  PROVE  leader \in Present /\ primary \in members \cap up /\ Majority(members, up)
BY DEF ServInv, UpPresent, PrimaryServes, LeaderThere

(* A step of a hook that sends nothing.                                    *)
LEMMA NothingSentServes ==
  ASSUME ServInv, NEW u \in Units,
         HookStays(u, targets[u]) \/ \E S \in SUBSET Units : HookStays(u, S) /\ S \cap Absent = {},
         UNCHANGED <<leader, up, members>>,
         primary' = primary \/ (primary # Nobody /\ primary' \in members \cap up)
  PROVE  UpPresent' /\ Known' /\ PrimaryServes' /\ LeaderThere'
<1>1. PICK S : HookStays(u, S) /\ S \cap Absent = {}
  BY DEF ServInv, Known
<1>2. UpPresent' /\ Known' /\ LeaderThere'
  BY <1>1, HookServes DEF ServInv, Known
<1>3. PrimaryServes'
  BY DEF ServInv, PrimaryServes
<1> QED
  BY <1>2, <1>3

LEMMA ReconfigureServes ==
  ASSUME ServInv, NEW u \in Units, Reconfigure(u)
  PROVE  UpPresent' /\ Known' /\ PrimaryServes' /\ LeaderThere'
<1> DEFINE Goal == UpPresent' /\ Known' /\ PrimaryServes' /\ LeaderThere'
<1>0. /\ IInv /\ TypeOK /\ HooksTypeOK /\ HookOK(u) /\ ReadOK(u)
      /\ members \subseteq Units /\ targets[u] \subseteq Units
  BY HooksAreTyped DEF ServInv, IInv, TypeOK
<1>1. CASE ListMembers(u)
  <2>1. PICK S \in SUBSET Units : Loop(u, hook[u], S) /\ S \cap Absent = {}
    <3>1. /\ Added(u) \in SUBSET Units /\ Removed(u) \in SUBSET Units
          /\ Added(u) \cap Absent = {} /\ Removed(u) \cap Absent = {}
      BY <1>0 DEF Added, Removed, ServInv, Known, TypeOK
    <3>2. hook[u] = "leaving" => {u} \cap Absent = {}
      BY <1>0 DEF HookOK, Absent
    <3> QED
      BY <1>1, <3>1, <3>2 DEF ListMembers
  <2>2. HookStays(u, S)
    BY <1>0, <2>1, LoopStays
  <2> QED
    BY <1>1, <2>1, <2>2, NothingSentServes DEF ListMembers, mongodb
<1>2. CASE ReadConfig(u)
  <2>1. CASE NotReady(u)
    BY <1>0, <1>2, <2>1, NotReadyStays, NothingSentServes DEF ReadConfig, mongodb
  <2>2. CASE ~NotReady(u)
    <3>1. HookStays(u, targets[u])
      BY <1>0, <1>2, <2>2
      DEF ReadConfig, HookStays, OthersKept, HooksTypeOK, Present, Absent
    <3> QED
      BY <1>2, <3>1, NothingSentServes DEF ReadConfig, mongodb
  <2> QED
    BY <2>1, <2>2
<1>3. CASE CheckStatus(u)
  <2>1. primary' = primary \/ (primary # Nobody /\ primary' \in members \cap up)
    BY <1>3 DEF CheckStatus, StepDown, Electable
  <2>2. CASE NotReady(u)
    BY <1>0, <1>3, <2>1, <2>2, NotReadyStays, NothingSentServes DEF CheckStatus
  <2>3. CASE Checked(u)
    <3>1. HookStays(u, targets[u])
      BY <1>0, <2>3 DEF Checked, HookStays, OthersKept, HooksTypeOK, Present, Absent
    <3> QED
      BY <1>3, <2>1, <3>1, NothingSentServes DEF CheckStatus
  <2> QED
    BY <1>3, <2>2, <2>3 DEF CheckStatus
<1>4. CASE AddMember(u) \/ RemoveMember(u)
  <2>1. CASE NotReady(u) /\ UNCHANGED members
    BY <1>0, <1>4, <2>1, NotReadyStays, NothingSentServes DEF AddMember, RemoveMember
  <2>2. CASE /\ Accepted(u, members') /\ Loop(u, hook[u], targets[u] \ {target[u]})
             /\ members' \in {read_members[u] \cup {target[u]}, read_members[u] \ {target[u]}}
    <3>1. step[u] = "checked" /\ UNCHANGED <<leader, up, primary>>
      BY <1>4 DEF AddMember, RemoveMember
    <3>2. /\ read_members[u] = members /\ target[u] \in targets[u]
          /\ primary \in members' /\ Majority(members', up)
      BY <1>0, <2>2, <3>1, AcceptedIsLatest DEF HookOK, Accepted
    <3>3. /\ members' \cap Absent = {} /\ targets[u] \cap Absent = {}
          /\ (targets[u] \ {target[u]}) \cap Absent = {}
          /\ targets[u] \ {target[u]} \in SUBSET Units
      BY <1>0, <2>2, <3>2 DEF ServInv, Known
    <3>4. primary # Nobody
      BY <1>0, <3>2, <3>3, <2>2, UnitsAssumption DEF TypeOK
    <3>5. leader \in Present /\ primary \in up
      BY <3>4, PrimaryHasLeader
    <3>6. UpPresent' /\ Known' /\ LeaderThere'
      BY <1>0, <2>2, <3>1, <3>3, <3>5, LoopStays, HookServes
    <3>7. PrimaryServes'
      BY <3>1, <3>2, <3>5 DEF PrimaryServes
    <3> QED
      BY <3>6, <3>7
  <2>3. \/ NotReady(u) /\ UNCHANGED members
        \/ /\ Accepted(u, members') /\ Loop(u, hook[u], targets[u] \ {target[u]})
           /\ members' \in {read_members[u] \cup {target[u]}, read_members[u] \ {target[u]}}
    <3>1. CASE AddMember(u)
      BY <3>1 DEF AddMember, WithTarget
    <3>2. CASE RemoveMember(u)
      BY <3>2 DEF RemoveMember
    <3> QED
      BY <1>4, <3>1, <3>2
  <2> QED
    BY <2>1, <2>2, <2>3
<1> QED
  BY <1>1, <1>2, <1>3, <1>4 DEF Reconfigure

(* A hook lists what juju has when it begins.                              *)
LEMMA BeginServes ==
  ASSUME ServInv, NEW u \in Units, NEW name, BeginHook(u, name),
         UNCHANGED life \/ (life[u] = "dying" /\ life' = [life EXCEPT ![u] = "detaching"]),
         UNCHANGED <<leader, mongodb>>
  PROVE  UpPresent' /\ Known' /\ PrimaryServes' /\ LeaderThere'
<1>1. TypeOK
  BY DEF ServInv, IInv
<1>2. Present' = Present /\ Absent' = Absent
  BY <1>1 DEF Present, Absent, TypeOK
<1>3. UpPresent' /\ PrimaryServes' /\ LeaderThere'
  BY <1>2 DEF ServInv, UpPresent, PrimaryServes, LeaderThere, mongodb
<1>4. Known'
  BY <1>1, <1>2 DEF ServInv, Known, BeginHook, mongodb, TypeOK, Present, Absent
<1> QED
  BY <1>3, <1>4

LEMMA BeginningsServe ==
  ASSUME ServInv, NEW u \in Units,
         RelationChanged(u) \/ RelationDeparted(u) \/ UpdateStatus(u) \/ StorageDetaching(u)
  PROVE  UpPresent' /\ Known' /\ PrimaryServes' /\ LeaderThere'
<1>1. CASE RelationChanged(u) \/ RelationDeparted(u) \/ UpdateStatus(u)
  BY <1>1, BeginServes DEF RelationChanged, RelationDeparted, UpdateStatus, juju
<1>2. CASE StorageDetaching(u) /\ ~LastReplica(u)
  BY <1>2, BeginServes DEF StorageDetaching
<1>3. CASE StorageDetaching(u) /\ LastReplica(u)
  <2>1. TypeOK
    BY DEF ServInv, IInv
  <2>2. Present' = Present /\ Absent' = Absent
    BY <1>3, <2>1 DEF StorageDetaching, Present, Absent, TypeOK
  <2> QED
    BY <1>3, <2>2
    DEF StorageDetaching, ServInv, UpPresent, Known, PrimaryServes, LeaderThere, mongodb, hooks
<1> QED
  BY <1>1, <1>2, <1>3

(* The set starts with members that all answer, and with its leader.       *)
LEMMA StartServes ==
  ASSUME ServInv, NEW u \in Units, Start(u)
  PROVE  UpPresent' /\ Known' /\ PrimaryServes' /\ LeaderThere'
<1>1. /\ TypeOK /\ up' = up \cup {u} /\ u \in Present
      /\ Present' = Present /\ Absent' = Absent
      /\ UNCHANGED <<leader, hooks>>
  BY DEF ServInv, IInv, TypeOK, Start, Idle, Present, Absent
<1>2. UpPresent'
  BY <1>1 DEF ServInv, UpPresent
<1>3. CASE UNCHANGED <<members, primary>>
  <2>1. Known' /\ LeaderThere'
    BY <1>1, <1>3 DEF ServInv, Known, LeaderThere, hooks
  <2>2. primary # Nobody => Majority(members, up')
    BY <1>1, MembersAreFinite, MajorityGrows DEF ServInv, PrimaryServes
  <2>3. PrimaryServes'
    BY <1>1, <1>3, <2>2 DEF ServInv, PrimaryServes
  <2> QED
    BY <1>2, <2>1, <2>3
<1>4. CASE \E listed \in SUBSET (Present \cap up') :
             u \in listed /\ members' = listed /\ primary' = u /\ u = leader
  <2>1. PICK listed \in SUBSET (Present \cap up') :
          u \in listed /\ members' = listed /\ primary' = u /\ u = leader
    BY <1>4
  <2>2. listed \cap Absent = {} /\ IsFiniteSet(listed)
    BY UnitsAssumption, FS_Subset DEF Present, Absent
  <2>3. Known' /\ LeaderThere'
    BY <1>1, <2>1, <2>2 DEF ServInv, Known, LeaderThere, hooks
  <2>4. Majority(listed, up')
    BY <2>1, <2>2, AllAreMajority
  <2> QED
    BY <1>2, <2>1, <2>3, <2>4 DEF PrimaryServes
<1> QED
  BY <1>3, <1>4 DEF Start

LEMMA JujuServes ==
  ASSUME ServInv,
         \/ \E u \in Units : AddUnit(u) \/ RemoveUnit(u) \/ Leave(u)
         \/ ElectLeader
  PROVE  UpPresent' /\ Known' /\ PrimaryServes' /\ LeaderThere'
<1>0. TypeOK
  BY DEF ServInv, IInv
<1>1. ASSUME NEW u \in Units, AddUnit(u) \/ RemoveUnit(u)
      PROVE  UpPresent' /\ Known' /\ PrimaryServes' /\ LeaderThere'
  <2>1. /\ Present \subseteq Present' /\ Absent' \subseteq Absent
        /\ Present' \subseteq Present \cup Absent
        /\ UNCHANGED <<leader, mongodb, hooks>>
    BY <1>0, <1>1 DEF AddUnit, RemoveUnit, Present, Absent, TypeOK
  <2>2. UpPresent' /\ PrimaryServes'
    BY <2>1 DEF ServInv, UpPresent, PrimaryServes, mongodb
  <2>3. Known'
    BY <2>1 DEF ServInv, Known, mongodb, hooks
  <2>4. LeaderThere'
    BY <2>1 DEF ServInv, Known, LeaderThere, mongodb
  <2> QED
    BY <2>2, <2>3, <2>4
<1>2. ASSUME NEW u \in Units, Leave(u)
      PROVE  UpPresent' /\ Known' /\ PrimaryServes' /\ LeaderThere'
  <2>1. /\ Present' = Present \ {u} /\ Absent' = Absent /\ up' = up \ {u}
        /\ UNCHANGED <<hooks, members>>
    BY <1>0, <1>2 DEF Leave, Present, Absent, TypeOK
  <2>2. UpPresent' /\ Known'
    BY <2>1 DEF ServInv, UpPresent, Known, hooks
  <2>3. leader' \in Present' \/ members' \cap Present' = {}
    BY <1>2, <2>1 DEF ServInv, LeaderThere, Leave
  <2>4. PrimaryServes'
    BY <1>2, <2>1 DEF ServInv, PrimaryServes, Leave, PrimaryAmong
  <2> QED
    BY <2>2, <2>3, <2>4 DEF LeaderThere
<1>3. CASE ElectLeader
  <2>1. /\ Present' = Present /\ Absent' = Absent /\ leader' \in Present
        /\ UNCHANGED <<mongodb, hooks>>
    BY <1>3 DEF ElectLeader, Present, Absent
  <2> QED
    BY <2>1 DEF ServInv, UpPresent, Known, PrimaryServes, LeaderThere, mongodb, hooks
<1> QED
  BY <1>1, <1>2, <1>3

LEMMA MongoDBServes ==
  ASSUME ServInv,
         \/ \E u \in Units : Synced(u) \/ Crash(u) \/ Restart(u)
         \/ ElectPrimary
  PROVE  UpPresent' /\ Known' /\ PrimaryServes' /\ LeaderThere'
<1>0. TypeOK /\ UNCHANGED <<juju, members, hooks>>
  BY DEF ServInv, IInv, Synced, Crash, Restart, ElectPrimary
<1>1. Present' = Present /\ Absent' = Absent /\ leader' = leader
  BY <1>0 DEF juju, Present, Absent
<1>2. Known' /\ LeaderThere'
  BY <1>0, <1>1 DEF ServInv, Known, LeaderThere, hooks
<1>3. UpPresent'
  <2>1. ASSUME NEW u \in Units, Restart(u) PROVE UpPresent'
    BY <1>1, <2>1 DEF ServInv, UpPresent, Restart, Present
  <2>2. ASSUME up' \subseteq up PROVE UpPresent'
    BY <1>1, <2>2 DEF ServInv, UpPresent
  <2> QED
    BY <2>1, <2>2 DEF Synced, Crash, ElectPrimary
<1>4. PrimaryServes'
  <2>1. ASSUME NEW u \in Units, Restart(u) PROVE PrimaryServes'
    <3>1. primary # Nobody => Majority(members, up')
      BY <1>0, <2>1, MembersAreFinite, MajorityGrows DEF ServInv, PrimaryServes, Restart
    <3> QED
      BY <2>1, <3>1 DEF ServInv, PrimaryServes, Restart
  <2>2. ASSUME NEW u \in Units, Crash(u) PROVE PrimaryServes'
    BY <2>2 DEF ServInv, PrimaryServes, Crash, PrimaryAmong
  <2>3. CASE ElectPrimary
    BY <2>3 DEF PrimaryServes, ElectPrimary, Electable
  <2>4. ASSUME NEW u \in Units, Synced(u) PROVE PrimaryServes'
    BY <2>4 DEF ServInv, PrimaryServes, Synced
  <2> QED
    BY <2>1, <2>2, <2>3, <2>4
<1> QED
  BY <1>2, <1>3, <1>4

LEMMA ServInvAlways == Spec => []ServInv
<1>1. Init => ServInv
  <2> SUFFICES ASSUME Init PROVE ServInv
    OBVIOUS
  <2>1. UpPresent /\ Known /\ PrimaryServes
    BY DEF Init, UpPresent, Known, PrimaryServes
  <2>2. LeaderThere
    BY DEF Init, LeaderThere
  <2> QED
    BY <2>1, <2>2, InitIInv DEF ServInv
<1>2. ServInv /\ [Next]_vars => ServInv'
  <2> SUFFICES ASSUME ServInv, [Next]_vars PROVE ServInv'
    OBVIOUS
  <2>1. IInv'
    BY NextKeeps DEF ServInv
  <2>2. CASE UNCHANGED vars
    BY <2>1, <2>2
    DEF ServInv, UpPresent, Known, PrimaryServes, LeaderThere, Present, Absent, vars, juju,
        mongodb, hooks
  <2>3. CASE Next
    BY <2>1, <2>3, StartServes, BeginningsServe, ReconfigureServes, JujuServes,
       MongoDBServes DEF Next, ServInv
  <2> QED
    BY <2>2, <2>3
<1> QED
  BY <1>1, <1>2, PTL DEF Spec

(* A set with a primary has its leader, and its primary a majority: a      *)
(* change of the configuration, in the order in which the units remove     *)
(* themselves, the leader among them, leaves neither behind.  Without it   *)
(* there would be nobody to bring the members up to date.                  *)
Managed == primary # Nobody => leader \in Present /\ primary \in members \cap up /\ Majority(members, up)

THEOREM AlwaysManaged == Spec => []Managed
<1>1. ServInv => Managed
  BY PrimaryHasLeader DEF Managed
<1> QED
  BY <1>1, ServInvAlways, PTL

(* The removal of u's target leaves those that answer a majority.          *)
MajorityWithout(u) == target[u] \notin up \/ Majority(members \ {target[u]}, up)

(* A unit that has read the configuration MongoDB still has when it sends  *)
(* its own is refused only for a unit that does not answer or is a member  *)
(* already, for a primary, or for the last that the majority needs.        *)
LatestAccepted ==
  \A u \in Units :
    read_version[u] = version /\ primary # Nobody =>
      /\ AddMember(u) /\ target[u] \in up \ members => members' = members \cup {target[u]}
      /\ RemoveMember(u) /\ target[u] # primary /\ MajorityWithout(u) =>
           members' = members \ {target[u]}

(* The safety half of MembersConverge and DetachingEnds: a change that     *)
(* nobody overtook is made.  In particular a unit that juju no longer      *)
(* lists, whose mongod cannot answer, is removed, and one that answers is  *)
(* added, whatever the number of members that are down.                    *)
THEOREM LatestIsAccepted == Spec => [][LatestAccepted]_vars
<1>1. ASSUME ServInv, NEW u \in Units, read_version[u] = version, primary # Nobody,
             AddMember(u), target[u] \in up \ members
      PROVE  members' = members \cup {target[u]}
  <2>1. /\ read_members[u] = members /\ IsFiniteSet(members)
        /\ primary \in members /\ Majority(members, up) /\ version \in Nat
    BY <1>1, MembersAreFinite, PrimaryHasLeader DEF ServInv, IInv, ReadOK, AddMember, TypeOK
  <2>2. Majority(members \cup {target[u]}, up)
    BY <1>1, <2>1, MajorityWithOneMore
  <2>3. Accepted(u, WithTarget(u)) /\ target[u] \notin read_members[u]
    BY <1>1, <2>1, <2>2 DEF Accepted, WithTarget
  <2> QED
    BY <1>1, <2>1, <2>3 DEF AddMember, WithTarget
<1>2. ASSUME ServInv, NEW u \in Units, read_version[u] = version, primary # Nobody,
             RemoveMember(u), target[u] # primary, MajorityWithout(u)
      PROVE  members' = members \ {target[u]}
  <2>1. /\ read_members[u] = members /\ IsFiniteSet(members)
        /\ primary \in members /\ Majority(members, up) /\ version \in Nat
    BY <1>2, MembersAreFinite, PrimaryHasLeader DEF ServInv, IInv, ReadOK, RemoveMember, TypeOK
  <2>2. Majority(members \ {target[u]}, up)
    BY <1>2, <2>1, MajorityWithOneLess DEF MajorityWithout
  <2>3. Accepted(u, read_members[u] \ {target[u]})
    BY <1>2, <2>1, <2>2 DEF Accepted
  <2> QED
    BY <1>2, <2>1, <2>3 DEF RemoveMember
<1>3. ServInv /\ [Next]_vars => [LatestAccepted]_vars
  BY <1>1, <1>2 DEF LatestAccepted
<1> QED
  BY <1>3, ServInvAlways, PTL DEF Spec
=============================================================================
